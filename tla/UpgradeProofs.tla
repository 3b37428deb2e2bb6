---------------------------- MODULE UpgradeProofs ----------------------------
(***************************************************************************)
(* Proofs about Upgrade: whatever processes run over one folder, and       *)
(* wherever they die, the folder has what its version says, a board that   *)
(* serves has what its release needs and every card there was, and nothing *)
(* that the human wrote is written over.                                   *)
(***************************************************************************)
EXTENDS Upgrade, TLAPS

Marks == BoardMarks \cup PipeMarks
Cards == {"his", "old", "new"}
Items == {"board", "pipes", "prompt"}
Text == [body : 0..LATEST + 2, path : {"stale", "token", "none"}]
Folders == [board : BOOLEAN, pipes : BOOLEAN, marks : SUBSET Marks, cards : SUBSET Cards,
            stamp : 0..LATEST, versioned : BOOLEAN, schema : 0..LATEST,
            policy : {"none", "default", "mine"}, prompt : Text, base : Text]
Process == [pc : PCs, cmd : {"none", "serve", "migrate", "ship"}, v : 0..LATEST,
            at : 0..LATEST, part : 0..2, left : SUBSET Items, mem : SUBSET Cards,
            next : {"stay", "exit", "again"}]

Typed ==
    /\ code \in Pulled /\ old \in {"none", "data", "aside"}
    /\ ws \in Folders /\ proc \in [Procs -> Process]
    /\ born \subseteq Cards /\ edited \in BOOLEAN
    /\ pulls \in Nat /\ kills \in Nat

-----------------------------------------------------------------------------
(* The inductive invariant *)

\* A file that is there has these marks.
Holds(f, D) == /\ f.board => D \cap BoardMarks \subseteq f.marks
               /\ f.pipes => D \cap PipeMarks \subseteq f.marks

\* The marks a process counts on: it wrote them, or found the stamp that says so.
Needs(r) == CASE r.pc = "apply" -> Known(r.at - 1) \cup
                                   (IF r.at = 3 /\ r.part = 2 THEN {"maint"} ELSE {})
              [] r.pc = "stamp" -> Known(r.at)
              [] r.pc = "serving" -> Known(r.v)
              [] OTHER -> {}

\* Behind Workspace.ensure, and behind the probe.
Later == {"settle", "backup", "apply", "stamp", "reconcile", "sync", "rebase"}
Newborn == {"fresh", "born"}
Migrating == {"apply", "stamp"}
Past == {"ensure", "adopt", "aside"} \cup Newborn \cup Later

\* No release, and nobody, has written into the folder yet.
Untold(f) == ~f.versioned /\ f.policy = "none" /\ f.prompt.body # MINE

\* A process, in a folder f, with release c on the disk, the old board o and the cards b.
Fits(r, f, c, o, b) ==
    /\ r.pc \notin {"off", "serving"} => r.v = c
    /\ r.pc = "serving" => /\ f.stamp <= r.v /\ r.v <= c /\ f.board /\ f.pipes
                           /\ b \subseteq r.mem /\ r.mem \subseteq f.cards
    /\ r.pc = "apply" => r.at \in 1..r.v /\ r.part \in 1..Len(Steps[r.at])
    /\ r.pc = "stamp" => r.at \in 1..r.v
    /\ r.pc \in Later \cup Newborn \cup {"serving"} => o # "data"
    /\ r.pc \in Later => f.versioned \/ f.board
    /\ r.pc \in Newborn /\ (f.versioned \/ f.board) => f.stamp = c
    /\ r.pc \in {"adopt", "aside"} /\ o = "data" =>
          /\ Untold(f)
          /\ r.pc = "aside" \/ "board" \notin r.left => f.board /\ "old" \in f.cards
    /\ Holds(f, Needs(r))

\* The folder itself.
Sane(f, c, o, b) ==
    /\ f.stamp <= c /\ (~f.versioned => f.stamp = 0)
    /\ Holds(f, Known(f.stamp))
    /\ o = "data" /\ ~f.versioned /\ ~f.board => Untold(f)
    /\ o # "data" /\ ~f.versioned /\ ~f.board => ~f.pipes
    /\ b \subseteq f.cards \cup (IF o = "data" THEN {"old"} ELSE {})
    /\ f.base.body # MINE

\* One board at most, and none of an earlier release while somebody migrates.
\* Nobody applies a migration to a folder that somebody takes to be new.
Servers ==
    /\ \A p, q \in Serving : p = q
    /\ \A p \in Procs : proc[p].pc \in Past => \A q \in Serving : proc[q].v = code
    /\ \A p, q \in Procs : proc[p].pc \in Newborn => proc[q].pc \notin Migrating

UpgradeInv ==
    /\ Typed /\ Servers
    /\ Sane(ws, code, old, born)
    /\ \A p \in Procs : Fits(proc[p], ws, code, old, born)

-----------------------------------------------------------------------------
(* Releases *)

LEMMA Latest == LATEST = 7
  BY DEF LATEST, Steps

\* What each migration adds to a file.
LEMMA StepMarks ==
    /\ MarksOf(1) = {} /\ MarksOf(2) = {} /\ MarksOf(3) = {"maint", "kinds"}
    /\ MarksOf(4) = {"colors"} /\ MarksOf(5) = {"chats"} /\ MarksOf(6) = {"exped"}
    /\ MarksOf(7) = {"stopped"}
<1>1. ASSUME NEW a, NEW b PROVE Range(<<a, b>>) = {a, b}
  BY DEF Range
<1>2. ASSUME NEW a PROVE Range(<<a>>) = {a}
  BY DEF Range
<1>3. /\ Range(Steps[1]) = {"layout", "baseline"} /\ Range(Steps[2]) = {"policy", "repoint"}
      /\ Range(Steps[3]) = {"maint", "kinds"} /\ Range(Steps[4]) = {"colors"}
      /\ Range(Steps[5]) = {"chats"} /\ Range(Steps[6]) = {"exped"}
      /\ Range(Steps[7]) = {"stopped"}
  BY <1>1, <1>2 DEF Steps
<1> QED BY <1>3 DEF MarksOf, BoardMarks, PipeMarks

LEMMA KnownMarks ==
    ASSUME NEW v \in 0..7
    PROVE  /\ "maint" \in Known(v) <=> v >= 3
           /\ "kinds" \in Known(v) <=> v >= 3
           /\ "colors" \in Known(v) <=> v >= 4
           /\ "chats" \in Known(v) <=> v >= 5
           /\ "exped" \in Known(v) <=> v >= 6
           /\ "stopped" \in Known(v) <=> v >= 7
           /\ Known(v) \subseteq Marks
<1>1. Known(v) = {x \in Marks : \E m \in 1..v : x \in MarksOf(m)}
  BY DEF Known, MarksOf, Marks
<1>2. \A m \in 1..7 : m = 1 \/ m = 2 \/ m = 3 \/ m = 4 \/ m = 5 \/ m = 6 \/ m = 7
  OBVIOUS
<1>3. \A m \in 1..v : m \in 1..7
  OBVIOUS
<1> QED BY <1>1, <1>2, <1>3, StepMarks DEF Marks, BoardMarks, PipeMarks

LEMMA KnownGrows ==
    ASSUME NEW v \in 0..7, NEW w \in 0..7, v <= w
    PROVE  Known(v) \subseteq Known(w)
  BY DEF Known

LEMMA DefaultText ==
    ASSUME NEW v \in 0..7
    PROVE  Default(v) \in Text /\ Default(v).body # MINE /\ Default(v) # NoFile
<1> DEFINE bodies == {n \in Improved : n <= v}
<1>1. bodies \subseteq 1..7
  BY UpgradeConstants, Latest
<1>2. bodies = {} \/ \E n \in bodies : \A b \in bodies : b <= n
  <2>1. \A n \in bodies : n = 1 \/ n = 2 \/ n = 3 \/ n = 4 \/ n = 5 \/ n = 6 \/ n = 7
    BY <1>1
  <2> HIDE DEF bodies
  <2> QED BY <2>1
<1>3. Default(v).body \in 0..7
  <2>1. Default(v).body = IF bodies = {} THEN 0 ELSE CHOOSE n \in bodies : \A b \in bodies : b <= n
    BY DEF Default
  <2>2. (CHOOSE n \in bodies : \A b \in bodies : b <= n) \in bodies \/ bodies = {}
    BY <1>2
  <2> QED BY <1>1, <2>1, <2>2
<1>4. Default(v) = [body |-> Default(v).body, path |-> IF v >= 2 THEN "token" ELSE "stale"]
  BY DEF Default
<1>5. Default(v).path # "none"
  BY <1>4
<1> QED BY <1>3, <1>4, <1>5, Latest DEF Text, MINE, NoFile

-----------------------------------------------------------------------------
(* What the writes do to a folder *)

LEMMA HoldsBoth ==
    ASSUME NEW f, NEW D, NEW E, Holds(f, D), Holds(f, E)
    PROVE  Holds(f, D \cup E)
  BY DEF Holds

LEMMA HoldsLess ==
    ASSUME NEW f, NEW D, NEW E, Holds(f, D), E \subseteq D
    PROVE  Holds(f, E)
  BY DEF Holds

LEMMA HoldsNothing ==
    /\ \A f : Holds(f, {})
    /\ \A f : Holds(f, Known(0))
<1>1. Known(0) = {}
  BY DEF Known
<1> QED BY <1>1 DEF Holds

\* The text that is his stays his.
Yours(f, g) == /\ f.prompt.body = MINE => g.prompt.body = MINE
               /\ f.policy = "mine" => g.policy = "mine"

\* A write of a process on its way up: the marks stay, as far as the columns
\* have their colours from the maintenance on.
Tame(f, g) ==
    /\ g \in Folders /\ Yours(f, g) /\ g.base.body # MINE
    /\ g.board = f.board /\ g.pipes = f.pipes /\ g.cards = f.cards
    /\ g.stamp = f.stamp /\ g.versioned = f.versioned
    /\ \A D \in SUBSET Marks : ("colors" \in D => "maint" \in D) /\ Holds(f, D) => Holds(g, D)

LEMMA TameTexts ==
    ASSUME NEW f \in Folders, NEW g \in Folders, Yours(f, g), g.base.body # MINE,
           g.board = f.board, g.pipes = f.pipes, g.cards = f.cards, g.stamp = f.stamp,
           g.versioned = f.versioned, g.marks = f.marks
    PROVE  Tame(f, g)
  BY DEF Tame, Holds

LEMMA TameSettled ==
    ASSUME NEW f \in Folders, NEW v, f.base.body # MINE
    PROVE  /\ Tame(f, Settled(f, v)) /\ Tame(f, GiveOrders(f))
           /\ Settled(f, v).prompt = f.prompt /\ Settled(f, v).marks = f.marks
<1>1. GiveOrders(f) \in Folders
  BY DEF GiveOrders, Folders
<1>2. Tame(f, GiveOrders(f))
  BY <1>1, TameTexts DEF GiveOrders, Yours, Folders
<1>3. Tame(f, f)
  BY TameTexts DEF Yours
<1> QED BY <1>2, <1>3 DEF Settled, GiveOrders, Folders

LEMMA TameMark ==
    ASSUME NEW f \in Folders, NEW mark \in Marks, f.base.body # MINE
    PROVE  /\ Tame(f, InBoard(f, mark)) /\ Tame(f, InPipelines(f, mark))
           /\ mark \in BoardMarks => Holds(InBoard(f, mark), {mark})
           /\ mark \in PipeMarks => Holds(InPipelines(f, mark), {mark})
<1> DEFINE g == [f EXCEPT !.marks = @ \cup {mark}]
<1>1. /\ g \in Folders /\ g.marks = f.marks \cup {mark} /\ g.board = f.board
      /\ g.pipes = f.pipes /\ g.cards = f.cards /\ g.stamp = f.stamp
      /\ g.versioned = f.versioned /\ g.prompt = f.prompt /\ g.base = f.base
      /\ g.policy = f.policy
  BY DEF Folders
<1>2. /\ InBoard(f, mark) = IF f.board THEN g ELSE f
      /\ InPipelines(f, mark) = IF f.pipes THEN g ELSE f
  BY DEF InBoard, InPipelines
<1> HIDE DEF g
<1>3. Tame(f, g) /\ Tame(f, f)
  BY <1>1 DEF Tame, Yours, Holds
<1> QED BY <1>1, <1>2, <1>3 DEF Holds, BoardMarks, PipeMarks

LEMMA TameMaint ==
    ASSUME NEW f \in Folders, f.base.body # MINE
    PROVE  Tame(f, SeedMaint(f)) /\ Holds(SeedMaint(f), {"maint"})
<1> DEFINE g == [f EXCEPT !.marks = @ \ {"colors"}]
           h == [g EXCEPT !.marks = @ \cup {"maint"}]
<1>1. /\ g \in Folders /\ g.marks = f.marks \ {"colors"} /\ g.board = f.board
      /\ g.pipes = f.pipes /\ g.cards = f.cards /\ g.stamp = f.stamp
      /\ g.versioned = f.versioned /\ g.prompt = f.prompt /\ g.base = f.base
      /\ g.policy = f.policy
  BY DEF Folders
<1>2. SeedMaint(f) = IF "maint" \in f.marks THEN f ELSE InPipelines(g, "maint")
  BY DEF SeedMaint
<1> HIDE DEF g
<1>3. Tame(f, f)
  BY TameTexts DEF Yours
<1>4. ASSUME "maint" \notin f.marks PROVE Tame(f, g)
  <2>1. ASSUME NEW D \in SUBSET Marks, "colors" \in D => "maint" \in D, Holds(f, D)
        PROVE  Holds(g, D)
    BY <1>1, <1>4, <2>1 DEF Holds, BoardMarks, PipeMarks
  <2> QED BY <1>1, <2>1 DEF Tame, Yours
<1>5. Tame(g, InPipelines(g, "maint")) /\ Holds(InPipelines(g, "maint"), {"maint"})
  BY <1>1, TameMark DEF Marks, PipeMarks
<1>6. ASSUME "maint" \notin f.marks PROVE Tame(f, InPipelines(g, "maint"))
  BY <1>4, <1>5, <1>6, Zenon DEF Tame, Yours
<1> QED BY <1>2, <1>3, <1>5, <1>6 DEF Holds, BoardMarks, PipeMarks

LEMMA TameLayout ==
    ASSUME NEW f \in Folders, NEW v \in 0..7, f.base.body # MINE
    PROVE  Tame(f, VersionBoard(f)) /\ Tame(f, BackfillBaseline(f, v)) /\ Tame(f, Repoint(f))
<1>1. VersionBoard(f) \in Folders
  BY Latest DEF VersionBoard, Folders
<1>2. Tame(f, VersionBoard(f))
  BY <1>1, TameTexts DEF VersionBoard, Yours, Folders
<1>3. Tame(f, BackfillBaseline(f, v))
  <2>1. CASE f.base = NoFile /\ f.prompt = Default(v)
    <3>1. BackfillBaseline(f, v) = [f EXCEPT !.base = f.prompt]
      BY <2>1 DEF BackfillBaseline
    <3>2. f.prompt \in Text /\ f.prompt.body # MINE
      BY <2>1, DefaultText
    <3>3. [f EXCEPT !.base = f.prompt] \in Folders
      BY <3>2 DEF Folders
    <3> QED BY <3>1, <3>2, <3>3, TameTexts DEF Yours, Folders
  <2>2. CASE ~(f.base = NoFile /\ f.prompt = Default(v))
    BY <2>2, TameTexts DEF BackfillBaseline, Yours
  <2> QED BY <2>1, <2>2
<1>4. Tame(f, Repoint(f))
  <2> DEFINE t == [f.prompt EXCEPT !.path = "token"]
  <2>1. t \in Text /\ t.body = f.prompt.body
    BY DEF Folders, Text
  <2>2. Repoint(f) = IF f.prompt = NoFile THEN f ELSE [f EXCEPT !.prompt = t]
    BY DEF Repoint, Folders
  <2> HIDE DEF t
  <2>3. [f EXCEPT !.prompt = t] \in Folders
    BY <2>1 DEF Folders
  <2> QED BY <2>1, <2>2, <2>3, TameTexts DEF Yours, Folders
<1> QED BY <1>2, <1>3, <1>4

\* A part of a migration is tame, and leaves behind the mark it is there for.
LEMMA TameMigrated ==
    ASSUME NEW f \in Folders, NEW v \in 0..7, f.base.body # MINE,
           NEW m \in 1..7, NEW i \in 1..Len(Steps[m])
    PROVE  /\ Tame(f, Migrated(f, v, Steps[m][i]))
           /\ Holds(Migrated(f, v, Steps[m][i]), {Steps[m][i]})
<1> DEFINE part == Steps[m][i]
<1>1. part \in {"layout", "baseline", "policy", "repoint"} \cup Marks
  BY DEF Steps, Marks, BoardMarks, PipeMarks
<1> HIDE DEF part
<1> SUFFICES Tame(f, Migrated(f, v, part)) /\ Holds(Migrated(f, v, part), {part})
  BY DEF part
<1>2. CASE part \in {"layout", "baseline", "policy", "repoint"}
  <2>1. Tame(f, Migrated(f, v, part))
    BY <1>2, TameLayout, TameSettled DEF Migrated
  <2> QED BY <1>2, <2>1 DEF Holds, BoardMarks, PipeMarks
<1>3. CASE part = "maint"
  BY <1>3, TameMaint DEF Migrated
<1>4. CASE part \in {"kinds", "chats", "stopped"}
  BY <1>4, TameMark
     DEF Migrated, BackfillKinds, GiveWorkersChats, RememberStopped, Marks, BoardMarks
<1>5. CASE part \in {"colors", "exped"}
  BY <1>5, TameMark DEF Migrated, PaintPipelines, SeedExpedited, Marks, PipeMarks
<1> QED BY <1>1, <1>2, <1>3, <1>4, <1>5 DEF Marks, BoardMarks, PipeMarks

LEMMA LengthOfSteps ==
    ASSUME NEW m \in 1..7
    PROVE  /\ m <= 3 => Len(Steps[m]) = 2 /\ 1..Len(Steps[m]) = {1, 2}
           /\ m > 3 => Len(Steps[m]) = 1 /\ 1..Len(Steps[m]) = {1}
           /\ 1 \in 1..Len(Steps[m]) /\ 1..Len(Steps[m]) \subseteq {1, 2}
<1>1. /\ Len(Steps[1]) = 2 /\ Len(Steps[2]) = 2 /\ Len(Steps[3]) = 2 /\ Len(Steps[4]) = 1
      /\ Len(Steps[5]) = 1 /\ Len(Steps[6]) = 1 /\ Len(Steps[7]) = 1
  BY DEF Steps
<1>2. \/ m <= 3 /\ ~(m > 3) /\ (m = 1 \/ m = 2 \/ m = 3)
      \/ ~(m <= 3) /\ m > 3 /\ (m = 4 \/ m = 5 \/ m = 6 \/ m = 7)
  OBVIOUS
<1>3. 1..2 = {1, 2} /\ 1..1 = {1} /\ 1 \in {1, 2} /\ {1} \subseteq {1, 2} /\ 1 \in {1}
  OBVIOUS
<1>4. /\ m <= 3 => Len(Steps[m]) = 2
      /\ m > 3 => Len(Steps[m]) = 1
  BY <1>1, <1>2, Zenon
<1>5. m <= 3 => 1..Len(Steps[m]) = {1, 2}
  BY <1>3, <1>4, Zenon
<1>6. m > 3 => 1..Len(Steps[m]) = {1}
  BY <1>3, <1>4, Zenon
<1> QED BY <1>2, <1>3, <1>4, <1>5, <1>6, Zenon

LEMMA Ranges == /\ \A m \in 1..7 : m \in 0..LATEST
                /\ 0 \in 0..2 /\ 1 \in 0..2 /\ 2 \in 0..2
  BY Latest

\* What the next part of a migration counts on, once this one is written.
LEMMA KnownStep ==
    ASSUME NEW m \in 1..7
    PROVE  /\ m = 3 => Steps[m][1] = "maint" /\ Known(3) \subseteq Known(2) \cup {"maint", Steps[m][2]}
           /\ m < 3 => Known(m) = {} /\ Known(m - 1) = {}
           /\ m > 3 => Known(m) \subseteq Known(m - 1) \cup {Steps[m][1]}
<1>1. m = 1 \/ m = 2 \/ m = 3 \/ m = 4 \/ m = 5 \/ m = 6 \/ m = 7
  OBVIOUS
<1>2. /\ Steps[3][1] = "maint" /\ Steps[3][2] = "kinds" /\ Steps[4][1] = "colors"
      /\ Steps[5][1] = "chats" /\ Steps[6][1] = "exped" /\ Steps[7][1] = "stopped"
  BY DEF Steps
<1>3. /\ m \in 0..7 /\ m - 1 \in 0..7 /\ 2 \in 0..7 /\ 3 \in 0..7
  OBVIOUS
<1>4. CASE m < 3
  BY <1>3, <1>4, KnownMarks DEF Marks, BoardMarks, PipeMarks
<1>5. CASE m = 3
  BY <1>2, <1>3, <1>5, KnownMarks DEF Marks, BoardMarks, PipeMarks
<1>6. CASE m > 3
  BY <1>1, <1>2, <1>3, <1>6, KnownMarks DEF Marks, BoardMarks, PipeMarks
<1> QED BY <1>4, <1>5, <1>6, <1>3

\* A start: what was there is there, and everything this release needs.
LEMMA LoadedFolder ==
    ASSUME NEW f \in Folders, NEW v \in 0..7, f.base.body # MINE, Holds(f, Known(v))
    PROVE  LET g == Loaded(f, v)
           IN  /\ g \in Folders /\ Yours(f, g) /\ g.base.body # MINE
               /\ g.board /\ g.pipes /\ g.cards = f.cards
               /\ g.stamp = f.stamp /\ g.versioned = f.versioned
               /\ Known(v) \subseteq g.marks
<1> DEFINE a == Settled(f, v)
           b == LoadPipelines(a, v)
           c == LoadBoard(b, v)
           g == Scaffold(c, v)
<1>1. /\ a \in Folders /\ Yours(f, a) /\ a.base.body # MINE /\ a.board = f.board
      /\ a.pipes = f.pipes /\ a.cards = f.cards /\ a.stamp = f.stamp
      /\ a.versioned = f.versioned /\ a.marks = f.marks
  BY TameSettled DEF Tame
<1> HIDE DEF a
<1>2. Holds(a, Known(v))
  BY <1>1 DEF Holds
<1>3. /\ b \in Folders /\ Yours(a, b) /\ b.base.body # MINE /\ b.board = a.board
      /\ b.pipes /\ b.cards = a.cards /\ b.stamp = a.stamp /\ b.versioned = a.versioned
      /\ Known(v) \cap PipeMarks \subseteq b.marks
      /\ b.marks \cap BoardMarks = a.marks \cap BoardMarks
  <2>1. b.marks = (a.marks \cap BoardMarks) \cup
                  (IF a.pipes /\ (Known(v) \cap PipeMarks) \ {"colors"} \subseteq a.marks
                   THEN a.marks \cap PipeMarks ELSE Known(v) \cap PipeMarks)
    BY <1>1 DEF LoadPipelines, Folders
  <2>2. /\ b \in Folders
        /\ b.pipes /\ b.board = a.board /\ b.cards = a.cards /\ b.stamp = a.stamp
        /\ b.versioned = a.versioned /\ b.base = a.base /\ b.prompt = a.prompt
        /\ b.policy = a.policy
    BY <1>1, KnownMarks DEF LoadPipelines, Folders, Marks
  <2>3. BoardMarks \cap PipeMarks = {}
    BY DEF BoardMarks, PipeMarks
  <2>4. Known(v) \cap PipeMarks \subseteq b.marks /\ b.marks \cap BoardMarks = a.marks \cap BoardMarks
    BY <1>2, <2>1, <2>3 DEF Holds
  <2> QED BY <1>1, <2>2, <2>4 DEF Folders, Yours
<1> HIDE DEF b
<1>4. /\ c \in Folders /\ Yours(b, c) /\ c.base.body # MINE /\ c.board
      /\ c.pipes /\ c.cards = b.cards /\ c.stamp = b.stamp /\ c.versioned = b.versioned
      /\ Known(v) \subseteq c.marks
  <2>1. c.marks = (b.marks \cap PipeMarks)
                  \cup ((IF b.board /\ b.schema = v THEN b.marks ELSE Known(v)) \cap BoardMarks)
    BY <1>3 DEF LoadBoard, Folders
  <2>2. /\ c \in Folders
        /\ c.board /\ c.pipes = b.pipes /\ c.cards = b.cards /\ c.stamp = b.stamp
        /\ c.versioned = b.versioned /\ c.base = b.base /\ c.prompt = b.prompt
        /\ c.policy = b.policy
    BY <1>3, KnownMarks, Latest DEF LoadBoard, Folders, Marks
  <2>3. b.board => Known(v) \cap BoardMarks \subseteq b.marks
    BY <1>2, <1>3 DEF Holds
  <2>4. Known(v) \subseteq c.marks
    BY <1>3, <2>1, <2>3, KnownMarks DEF Marks
  <2> QED BY <1>3, <2>2, <2>4 DEF Folders, Yours
<1> HIDE DEF c
<1>5. /\ g \in Folders /\ Yours(c, g) /\ g.base.body # MINE /\ g.board
      /\ g.pipes /\ g.cards = c.cards /\ g.stamp = c.stamp /\ g.versioned = c.versioned
      /\ g.marks = c.marks
  <2>1. CASE c.prompt = NoFile
    <3>1. c.prompt.body # MINE
      BY <2>1, Latest DEF NoFile, MINE
    <3>2. g = [c EXCEPT !.prompt = Default(v), !.base = Default(v)]
      BY <2>1 DEF Scaffold
    <3>3. g \in Folders
      BY <1>4, <3>2, DefaultText DEF Folders
    <3> QED BY <1>4, <3>1, <3>2, <3>3, DefaultText DEF Folders, Yours
  <2>2. CASE c.prompt # NoFile
    BY <1>4, <2>2 DEF Scaffold, Yours
  <2> QED BY <2>1, <2>2
<1>6. g = Loaded(f, v)
  BY DEF Loaded, a, b, c
<1> HIDE DEF g
<1>7. Yours(f, g)
  BY <1>1, <1>3, <1>4, <1>5 DEF Yours
<1> QED BY <1>1, <1>3, <1>4, <1>5, <1>6, <1>7

-----------------------------------------------------------------------------
(* What the others make of it *)

\* What a process counts on is within its release, and has the colours only
\* with the maintenance.
LEMMA NeedsBelow ==
    ASSUME NEW r \in Process, NEW c \in 0..7, NEW f, NEW o, NEW b, Fits(r, f, c, o, b)
    PROVE  /\ Needs(r) \subseteq Known(c) /\ Needs(r) \subseteq Marks
           /\ "colors" \in Needs(r) => "maint" \in Needs(r)
<1>1. CASE r.pc = "apply"
  <2>1. r.v = c /\ r.at \in 1..7 /\ r.at <= c /\ r.at - 1 \in 0..7
    BY <1>1, Latest DEF Fits, Process
  <2>2. Known(r.at - 1) \subseteq Known(c) /\ (r.at = 3 => "maint" \in Known(c))
    BY <2>1, KnownGrows, KnownMarks
  <2>3. "colors" \in Known(r.at - 1) => "maint" \in Known(r.at - 1)
    BY <2>1, KnownMarks
  <2>4. Known(r.at - 1) \subseteq Marks
    BY <2>1, KnownMarks
  <2> QED BY <1>1, <2>2, <2>3, <2>4 DEF Needs, Marks, PipeMarks
<1>2. CASE r.pc = "stamp"
  <2>1. r.at \in 0..7 /\ r.at <= c
    BY <1>2, Latest DEF Fits, Process
  <2>2. /\ Known(r.at) \subseteq Known(c) /\ Known(r.at) \subseteq Marks
        /\ "colors" \in Known(r.at) => "maint" \in Known(r.at)
    BY <2>1, KnownGrows, KnownMarks
  <2> QED BY <1>2, <2>2 DEF Needs
<1>3. CASE r.pc = "serving"
  <2>1. r.v \in 0..7 /\ r.v <= c
    BY <1>3, Latest DEF Fits, Process
  <2>2. /\ Known(r.v) \subseteq Known(c) /\ Known(r.v) \subseteq Marks
        /\ "colors" \in Known(r.v) => "maint" \in Known(r.v)
    BY <2>1, KnownGrows, KnownMarks
  <2> QED BY <1>3, <2>2 DEF Needs
<1> QED BY <1>1, <1>2, <1>3 DEF Needs

LEMMA FitsTame ==
    ASSUME NEW r \in Process, NEW c \in 0..7, NEW o, NEW b, o # "data",
           NEW f \in Folders, NEW g, Tame(f, g), Fits(r, f, c, o, b)
    PROVE  Fits(r, g, c, o, b)
<1>1. Holds(g, Needs(r))
  <2>1. Holds(f, Needs(r))
    BY DEF Fits
  <2> QED BY <2>1, NeedsBelow, Zenon DEF Tame
<1> QED BY <1>1 DEF Fits, Tame

LEMMA SaneTame ==
    ASSUME NEW c \in 0..7, NEW o, NEW b, o # "data",
           NEW f \in Folders, NEW g, Tame(f, g), Sane(f, c, o, b)
    PROVE  Sane(g, c, o, b)
<1>1. /\ f.stamp \in 0..7 /\ Known(f.stamp) \subseteq Marks
      /\ "colors" \in Known(f.stamp) => "maint" \in Known(f.stamp)
  BY KnownMarks, Latest DEF Folders
<1>2. Holds(g, Known(f.stamp))
  BY <1>1 DEF Tame, Sane
<1> QED BY <1>2 DEF Sane, Tame

-----------------------------------------------------------------------------
(* Steps of one process *)

\* What a step keeps: the invariant, and what is his.
StepGood == UpgradeInv' /\ Yours(ws, ws')

\* Where a step of p may lead, as the others have it.
MayGo(p) ==
    /\ proc'[p].pc \in Past => proc[p].pc \in Past \/ Serving = {}
    /\ proc'[p].pc \in Newborn => proc[p].pc \in Newborn \/ ~Exists
    /\ proc'[p].pc \in Migrating => proc[p].pc \in Migrating \/ (proc[p].pc \in Later /\ Pending(code))

LEMMA MayGoOff ==
    ASSUME NEW p, proc'[p].pc \notin Past
    PROVE  MayGo(p)
  BY DEF MayGo, Past, Newborn, Migrating, Later

LEMMA MayGoOn ==
    ASSUME NEW p, proc[p].pc \in Past, proc'[p].pc \notin Newborn \cup Migrating
    PROVE  MayGo(p)
  BY DEF MayGo

\* A step of p that is not a step of the board that serves.
LEMMA OthersStay ==
    ASSUME UpgradeInv, NEW p \in Procs, proc' = [proc EXCEPT ![p] = proc'[p]],
           proc'[p] \in Process, proc[p].pc # "serving", proc'[p].pc # "serving",
           MayGo(p),
           UNCHANGED <<code, born, edited, pulls, kills>>,
           ws' \in Folders, old' \in {"none", "data", "aside"},
           Yours(ws, ws'), Sane(ws', code, old', born),
           Fits(proc'[p], ws', code, old', born),
           \A q \in Procs \ {p} : Fits(proc[q], ws', code, old', born)
    PROVE  StepGood
<1>1. /\ \A q \in Procs \ {p} : proc'[q] = proc[q]
      /\ proc' \in [Procs -> Process]
  BY DEF UpgradeInv, Typed
<1>2. Typed'
  BY <1>1 DEF UpgradeInv, Typed
<1>3. Serving' = Serving
  BY <1>1 DEF Serving
<1>4. \A q, r \in Procs : proc'[q].pc \in Newborn => proc'[r].pc \notin Migrating
  <2>1. ASSUME proc'[p].pc \in Newborn, NEW r \in Procs \ {p} PROVE proc[r].pc \notin Migrating
    <3>1. CASE proc[p].pc \in Newborn
      BY <3>1 DEF UpgradeInv, Servers
    <3>2. CASE ~Exists
      BY <3>2 DEF UpgradeInv, Fits, Exists, Later, Migrating
    <3> QED BY <2>1, <3>1, <3>2 DEF MayGo
  <2>2. ASSUME proc'[p].pc \in Migrating, NEW q \in Procs \ {p} PROVE proc[q].pc \notin Newborn
    <3>1. CASE proc[p].pc \in Migrating
      BY <3>1 DEF UpgradeInv, Servers
    <3>2. CASE proc[p].pc \in Later /\ Pending(code)
      <4>1. ws.stamp # code
        BY <3>2, UpgradeConstants, Latest DEF Pending, UpgradeInv, Typed, Folders
      <4> QED BY <3>2, <4>1 DEF UpgradeInv, Fits
    <3> QED BY <2>2, <3>1, <3>2 DEF MayGo
  <2>3. proc'[p].pc \in Newborn => proc'[p].pc \notin Migrating
    BY DEF Newborn, Migrating
  <2>4. \A q, r \in Procs : proc[q].pc \in Newborn => proc[r].pc \notin Migrating
    BY DEF UpgradeInv, Servers
  <2> QED BY <1>1, <2>1, <2>2, <2>3, <2>4
<1>5. Servers'
  BY <1>1, <1>3, <1>4 DEF UpgradeInv, Servers, Serving, MayGo
<1>6. \A q \in Procs : Fits(proc'[q], ws', code', old', born')
  BY <1>1
<1> QED BY <1>2, <1>5, <1>6 DEF UpgradeInv, StepGood

\* ... that writes nothing.
LEMMA Walks ==
    ASSUME UpgradeInv, NEW p \in Procs, proc' = [proc EXCEPT ![p] = proc'[p]],
           proc'[p] \in Process, proc[p].pc # "serving", proc'[p].pc # "serving",
           MayGo(p),
           UNCHANGED rest, Fits(proc'[p], ws, code, old, born)
    PROVE  StepGood
<1>1. /\ UNCHANGED <<code, born, edited, pulls, kills>> /\ ws' = ws /\ old' = old
  BY DEF rest, world
<1> QED BY <1>1, OthersStay DEF UpgradeInv, Typed, Yours

\* ... that writes what it knows to be missing, behind Workspace.ensure.
LEMMA Writes ==
    ASSUME UpgradeInv, NEW p \in Procs, proc' = [proc EXCEPT ![p] = proc'[p]],
           proc'[p] \in Process, proc[p].pc \in Later \cup Newborn, proc'[p].pc # "serving",
           MayGo(p), UNCHANGED world, old' = old, Tame(ws, ws'),
           Fits(proc'[p], ws', code, old, born)
    PROVE  StepGood
<1>1. /\ UNCHANGED <<code, born, edited, pulls, kills>>
      /\ proc[p].pc # "serving" /\ proc[p].pc \in Past
  BY DEF world, Later, Newborn, Past
<1>2. code \in 0..7 /\ ws \in Folders /\ old # "data" /\ old \in {"none", "data", "aside"}
  BY UpgradeConstants, Latest DEF UpgradeInv, Typed, Fits
<1>3. ws' \in Folders /\ Sane(ws', code, old, born) /\ Yours(ws, ws')
  BY <1>2, SaneTame DEF Tame, UpgradeInv
<1>4. \A q \in Procs : Fits(proc[q], ws', code, old, born)
  <2> TAKE q \in Procs
  <2>1. proc[q] \in Process /\ Fits(proc[q], ws, code, old, born)
    BY DEF UpgradeInv, Typed
  <2> QED BY <1>2, <2>1, FitsTame
<1> QED BY <1>1, <1>2, <1>3, <1>4, OthersStay

\* A process that counts on nothing yet.
LEMMA FitsEasily ==
    ASSUME NEW r, NEW f, NEW c, NEW o, NEW b,
           r.pc \in {"off", "probe", "ensure", "bind", "ask", "wait", "stop", "gone"},
           r.pc # "off" => r.v = c
    PROVE  Fits(r, f, c, o, b)
  BY HoldsNothing DEF Fits, Needs, Later, Newborn

\* Where a step leaves the process that takes it.
LEMMA Went ==
    ASSUME UpgradeInv, NEW p \in Procs, NEW pc \in PCs, Goes(p, pc)
    PROVE  /\ proc' = [proc EXCEPT ![p] = proc'[p]] /\ proc'[p] \in Process
           /\ proc'[p] = [proc[p] EXCEPT !.pc = pc] /\ proc'[p].pc = pc
           /\ proc'[p].cmd = proc[p].cmd /\ proc'[p].v = proc[p].v /\ proc'[p].at = proc[p].at
           /\ proc'[p].part = proc[p].part /\ proc'[p].left = proc[p].left
<1>1. proc[p] \in Process
  BY DEF UpgradeInv, Typed
<1>2. proc'[p] = [proc[p] EXCEPT !.pc = pc] /\ proc' = [proc EXCEPT ![p] = proc'[p]]
  BY DEF Goes, UpgradeInv, Typed
<1>3. proc'[p] \in Process /\ proc'[p].pc = pc
  BY <1>1, <1>2 DEF Process
<1> QED BY <1>1, <1>2, <1>3 DEF Process

LEMMA Ended ==
    ASSUME UpgradeInv, NEW p \in Procs, Ends(p)
    PROVE  /\ proc' = [proc EXCEPT ![p] = proc'[p]] /\ proc'[p] \in Process
           /\ proc'[p] = Off /\ proc'[p].pc = "off"
           /\ \A f, c, o, b : Fits(proc'[p], f, c, o, b)
<1>1. proc'[p] = Off /\ proc' = [proc EXCEPT ![p] = proc'[p]]
  BY DEF Ends, UpgradeInv, Typed
<1>2. Off \in Process /\ Off.pc = "off"
  BY Latest DEF Off, Process, PCs
<1> QED BY <1>1, <1>2, FitsEasily

\* It was never on its way up.
LEMMA NotPast ==
    /\ \A pc \in {"off", "probe", "bind", "ask", "wait", "stop", "gone", "serving"} : pc \notin Past
    /\ \A pc \in Later : pc \in Past /\ pc \in PCs /\ pc # "serving"
    /\ Newborn \subseteq Past /\ Migrating \subseteq Later
    /\ \A pc \in {"ensure", "adopt", "aside", "settle", "backup", "reconcile", "sync", "rebase"} :
          pc \notin Newborn \cup Migrating
  BY DEF Past, Later, PCs, Newborn, Migrating

LEMMA StepEnds ==
    ASSUME UpgradeInv, NEW p \in Procs, Ends(p), proc[p].pc # "serving", UNCHANGED rest
    PROVE  StepGood
<1>1. MayGo(p)
  BY Ended, NotPast, MayGoOff
<1> QED BY <1>1, Ended, Walks

LEMMA StepEasy ==
    ASSUME UpgradeInv, NEW p \in Procs, NEW pc \in {"probe", "bind", "ask", "wait", "stop", "gone"},
           Goes(p, pc), proc[p].pc \notin {"off", "serving"}, UNCHANGED rest
    PROVE  StepGood
<1>1. pc \in PCs
  BY DEF PCs
<1>2. proc[p].v = code
  BY DEF UpgradeInv, Fits
<1>3. /\ proc' = [proc EXCEPT ![p] = proc'[p]] /\ proc'[p] \in Process
      /\ proc'[p].pc = pc /\ proc'[p].v = code
  BY <1>1, <1>2, Went
<1>4. Fits(proc'[p], ws, code, old, born)
  BY <1>3, FitsEasily
<1>5. MayGo(p) /\ proc'[p].pc # "serving" /\ proc[p].pc # "serving"
  BY <1>3, NotPast, MayGoOff
<1> QED BY <1>3, <1>4, <1>5, Walks

LEMMA StartedProcess ==
    ASSUME code \in 0..7, NEW cmd \in {"serve", "migrate", "ship"}
    PROVE  /\ Started(cmd) \in Process /\ Started(cmd).v = code
           /\ Started(cmd).pc \in {"bind", "ask", "probe"}
<1> DEFINE go == CASE cmd = "serve" /\ Exists /\ ~Pending(code) -> "bind"
                   [] cmd = "ship" -> "ask"
                   [] OTHER -> "probe"
<1>1. go \in {"bind", "ask", "probe"}
  OBVIOUS
<1>2. Started(cmd) = [Off EXCEPT !.cmd = cmd, !.v = code, !.pc = go]
  BY DEF Started
<1> HIDE DEF go
<1>3. Started(cmd) = [pc |-> go, cmd |-> cmd, v |-> code, at |-> 0, part |-> 0,
                      left |-> {}, mem |-> {}, next |-> "stay"]
  BY <1>2 DEF Off
<1> QED BY <1>1, <1>3, Latest DEF Process, PCs

LEMMA StepStart ==
    ASSUME UpgradeInv, NEW p \in Procs, NEW cmd \in {"serve", "migrate", "ship"}, Start(p, cmd)
    PROVE  StepGood
<1>1. /\ proc'[p] = Started(cmd) /\ proc' = [proc EXCEPT ![p] = proc'[p]]
      /\ proc[p].pc = "off" /\ code \in 0..7
  BY UpgradeConstants, Latest DEF Start, UpgradeInv, Typed, Off
<1>2. /\ Started(cmd) \in Process /\ Started(cmd).v = code
      /\ Started(cmd).pc \in {"bind", "ask", "probe"}
  BY <1>1, StartedProcess
<1>3. Fits(proc'[p], ws, code, old, born)
  BY <1>1, <1>2, FitsEasily
<1>4. UNCHANGED rest
  BY DEF Start
<1>5. MayGo(p)
  BY <1>1, <1>2, NotPast, MayGoOff
<1> QED BY <1>1, <1>2, <1>3, <1>4, <1>5, Walks

LEMMA StepProbe == ASSUME UpgradeInv, NEW p \in Procs, Probe(p) PROVE StepGood
<1>1. proc[p].pc = "probe" /\ UNCHANGED rest
  BY DEF Probe
<1>2. CASE Serving # {}
  BY <1>1, <1>2, StepEnds DEF Probe
<1>3. CASE Serving = {}
  <2>1. Goes(p, "ensure") /\ "ensure" \in PCs
    BY <1>3 DEF Probe, PCs
  <2>2. proc[p].v = code
    BY <1>1 DEF UpgradeInv, Fits
  <2>3. /\ proc' = [proc EXCEPT ![p] = proc'[p]] /\ proc'[p] \in Process
        /\ proc'[p].pc = "ensure" /\ proc'[p].v = code
    BY <2>1, <2>2, Went
  <2>4. Fits(proc'[p], ws, code, old, born)
    BY <2>3, FitsEasily
  <2>5. MayGo(p)
    BY <1>3, <2>3, NotPast DEF MayGo
  <2> QED BY <1>1, <1>3, <2>3, <2>4, <2>5, Walks
<1> QED BY <1>2, <1>3

\* The folder is looked at, once no old board lies next to it.
LEMMA StepSettles ==
    ASSUME UpgradeInv, NEW p \in Procs, proc[p].pc \in {"ensure", "aside"}, proc[p].v = code,
           Goes(p, IF Exists THEN "settle" ELSE "fresh"), UNCHANGED <<world, ws>>,
           old' # "data", old' \in {"none", "data", "aside"}, Sane(ws, code, old', born),
           \A q \in Procs : Fits(proc[q], ws, code, old', born)
    PROVE  StepGood
<1>1. /\ proc[p].pc \in Past /\ proc[p].pc # "serving" /\ ws' = ws /\ ws \in Folders
      /\ UNCHANGED <<code, born, edited, pulls, kills>> /\ Yours(ws, ws')
  BY DEF Past, world, UpgradeInv, Typed, Yours
<1>2. ASSUME NEW pc \in {"settle", "fresh"}, Goes(p, pc), pc = "settle" <=> Exists
      PROVE  StepGood
  <2>1. pc \in PCs
    BY DEF PCs
  <2>2. /\ proc' = [proc EXCEPT ![p] = proc'[p]] /\ proc'[p] \in Process
        /\ proc'[p].pc = pc /\ proc'[p].v = code /\ proc'[p].pc # "serving"
    BY <1>2, <2>1, Went
  <2>3. Fits(proc'[p], ws, code, old', born)
    BY <1>2, <2>2, HoldsNothing DEF Fits, Needs, Later, Newborn, Exists
  <2>4. MayGo(p)
    BY <1>1, <1>2, <2>2 DEF MayGo, Newborn, Migrating
  <2> QED BY <1>1, <2>2, <2>3, <2>4, OthersStay
<1> QED BY <1>2

LEMMA StepEnsure == ASSUME UpgradeInv, NEW p \in Procs, Ensure(p) PROVE StepGood
<1>1. /\ proc[p].pc = "ensure" /\ proc[p].pc \in Past /\ UNCHANGED rest
      /\ proc[p] \in Process /\ proc[p].v = code
  BY DEF Ensure, Past, UpgradeInv, Typed, Fits
<1>2. Sane(ws, code, old, born)
  BY DEF UpgradeInv
<1>3. CASE ~Exists /\ old = "data"
           /\ proc' = [proc EXCEPT ![p].pc = "adopt", ![p].left = {"board", "pipes", "prompt"}]
  <2>1. /\ proc' = [proc EXCEPT ![p] = proc'[p]]
        /\ proc'[p] = [proc[p] EXCEPT !.pc = "adopt", !.left = Items]
    BY <1>3 DEF UpgradeInv, Typed, Items
  <2>2. /\ proc'[p] \in Process /\ proc'[p].pc = "adopt" /\ proc'[p].left = Items
        /\ proc'[p].v = code
    BY <1>1, <2>1 DEF Process, PCs
  <2>3. Untold(ws) /\ Needs(proc'[p]) = {} /\ "board" \in Items
    BY <1>2, <1>3, <2>2 DEF Sane, Exists, Needs, Items
  <2>4. Fits(proc'[p], ws, code, old, born)
    BY <2>2, <2>3, HoldsNothing DEF Fits, Later, Newborn
  <2>5. MayGo(p)
    BY <1>1, <2>2, NotPast, MayGoOn
  <2> QED BY <1>1, <2>1, <2>2, <2>4, <2>5, Walks
<1>4. CASE Ends(p)
  BY <1>1, <1>4, StepEnds
<1>5. CASE old # "data" /\ Goes(p, IF Exists THEN "settle" ELSE "fresh")
  <2>1. UNCHANGED <<world, ws>> /\ old' = old /\ old \in {"none", "data", "aside"}
    BY <1>1 DEF rest, UpgradeInv, Typed
  <2>2. \A q \in Procs : Fits(proc[q], ws, code, old, born)
    BY DEF UpgradeInv
  <2> QED BY <1>1, <1>2, <1>5, <2>1, <2>2, StepSettles
<1> QED BY <1>3, <1>4, <1>5 DEF Ensure

LEMMA StepAdopt ==
    ASSUME UpgradeInv, NEW p \in Procs, NEW item \in Items, Adopt(p, item)
    PROVE  StepGood
<1>1. /\ proc[p].pc = "adopt" /\ proc[p].pc \in Past /\ proc[p].pc # "serving"
      /\ UNCHANGED world /\ old' = old /\ old = "data" /\ item \in proc[p].left
      /\ proc[p] \in Process /\ proc[p].v = code
  BY DEF Adopt, Past, UpgradeInv, Typed, Fits
<1>2. /\ ws \in Folders /\ code \in 0..7 /\ Sane(ws, code, old, born)
      /\ Fits(proc[p], ws, code, old, born)
  BY UpgradeConstants, Latest DEF UpgradeInv, Typed
<1>4. CASE old = "data"
  <2>1. /\ ~ws.versioned /\ ws.stamp = 0 /\ Untold(ws)
        /\ "board" \notin proc[p].left => ws.board /\ "old" \in ws.cards
    BY <1>1, <1>2, <1>4 DEF Fits, Sane, Untold
  <2>2. /\ ws' \in Folders /\ Untold(ws') /\ ws'.stamp = 0 /\ ws'.base = ws.base
        /\ ws.board => ws'.board
        /\ ws.cards \subseteq ws'.cards
        /\ item = "board" => ws'.board /\ "old" \in ws'.cards
    <3>1. CASE item = "board"
      <4>1. ws' = [ws EXCEPT !.board = TRUE, !.cards = @ \cup {"old"},
                             !.marks = @ \ BoardMarks, !.schema = 0]
        BY <1>4, <3>1 DEF Adopt
      <4> QED BY <1>2, <2>1, <3>1, <4>1, Latest DEF Folders, Untold, Cards
    <3>2. CASE item = "pipes"
      <4>1. ws' = [ws EXCEPT !.pipes = TRUE, !.marks = @ \ PipeMarks]
        BY <1>4, <3>2 DEF Adopt
      <4> QED BY <1>2, <2>1, <3>2, <4>1 DEF Folders, Untold
    <3>3. CASE item = "prompt"
      <4>1. ws' = [ws EXCEPT !.prompt = Default(0)]
        BY <1>4, <3>3 DEF Adopt
      <4>2. Default(0) \in Text /\ Default(0).body # MINE
        BY DefaultText
      <4> QED BY <1>2, <2>1, <3>3, <4>1, <4>2 DEF Folders, Untold
    <3> QED BY <3>1, <3>2, <3>3 DEF Items
  <2>3. /\ proc' = [proc EXCEPT ![p] = proc'[p]]
        /\ proc'[p] = [proc[p] EXCEPT !.left = @ \ {item},
                                      !.pc = IF item = "prompt" THEN "aside" ELSE @]
    BY <1>4 DEF Adopt, UpgradeInv, Typed
  <2>4. /\ proc'[p] \in Process /\ proc'[p].pc = (IF item = "prompt" THEN "aside" ELSE "adopt")
        /\ proc'[p].left = proc[p].left \ {item} /\ proc'[p].v = code
    BY <1>1, <2>3 DEF Process, PCs
  <2>5. item = "prompt" => proc[p].left = {"prompt"}
    BY DEF Adopt
  <2>6. proc'[p].pc = "aside" \/ "board" \notin proc'[p].left => ws'.board /\ "old" \in ws'.cards
    BY <2>1, <2>2, <2>4, <2>5
  <2>7. Fits(proc'[p], ws', code, old, born)
    <3>1. Needs(proc'[p]) = {}
      BY <2>4 DEF Needs
    <3>2. proc'[p].pc \notin Later \cup Newborn \cup {"serving", "apply", "stamp"}
      BY <2>4 DEF Later, Newborn
    <3> QED BY <2>2, <2>4, <2>6, <3>1, <3>2, HoldsNothing DEF Fits
  <2>8. \A q \in Procs \ {p} : Fits(proc[q], ws', code, old, born)
    <3> TAKE q \in Procs \ {p}
    <3>1. Fits(proc[q], ws, code, old, born)
      BY DEF UpgradeInv
    <3>2. proc[q].pc \notin Later \cup Newborn \cup {"serving", "apply", "stamp"}
      BY <1>4, <3>1 DEF Fits, Later
    <3>3. Needs(proc[q]) = {}
      BY <3>2 DEF Needs
    <3> QED BY <1>4, <2>2, <3>1, <3>2, <3>3, HoldsNothing DEF Fits
  <2>9. Sane(ws', code, old, born)
    BY <1>2, <1>4, <2>2, HoldsNothing DEF Sane, Untold
  <2>10. /\ UNCHANGED <<code, born, edited, pulls, kills>>
         /\ old' \in {"none", "data", "aside"} /\ proc'[p].pc # "serving" /\ Yours(ws, ws')
    BY <1>1, <2>1, <2>4 DEF world, UpgradeInv, Typed, Yours, Untold
  <2>11. MayGo(p)
    BY <1>1, <2>4, NotPast, MayGoOn
  <2> QED BY <1>1, <2>2, <2>3, <2>4, <2>7, <2>8, <2>9, <2>10, <2>11, OthersStay
<1> QED BY <1>1, <1>4

LEMMA StepAdoptNothing == ASSUME UpgradeInv, NEW p \in Procs, AdoptNothing(p) PROVE StepGood
<1>1. /\ proc[p].pc = "adopt" /\ proc[p].pc \in Past /\ proc[p].pc # "serving"
      /\ UNCHANGED rest /\ old # "data" /\ proc[p] \in Process /\ proc[p].v = code
  BY DEF AdoptNothing, Past, UpgradeInv, Typed, Fits
<1>2. CASE proc' = [proc EXCEPT ![p].left = {"prompt"}]
  <2>1. proc'[p] = [proc[p] EXCEPT !.left = {"prompt"}] /\ proc' = [proc EXCEPT ![p] = proc'[p]]
    BY <1>2 DEF UpgradeInv, Typed
  <2>2. proc'[p] \in Process /\ proc'[p].pc = "adopt" /\ proc'[p].v = code
    BY <1>1, <2>1 DEF Process, Items
  <2>3. Fits(proc'[p], ws, code, old, born)
    BY <1>1, <2>2, HoldsNothing DEF Fits, Needs, Later, Newborn
  <2>4. MayGo(p)
    BY <1>1, <2>2, NotPast, MayGoOn
  <2> QED BY <1>1, <2>1, <2>2, <2>3, <2>4, Walks
<1>3. CASE Goes(p, "aside")
  <2>1. "aside" \in PCs
    BY DEF PCs
  <2>2. /\ proc' = [proc EXCEPT ![p] = proc'[p]] /\ proc'[p] \in Process
        /\ proc'[p].pc = "aside" /\ proc'[p].v = code
    BY <1>1, <1>3, <2>1, Went
  <2>3. Fits(proc'[p], ws, code, old, born)
    BY <1>1, <2>2, HoldsNothing DEF Fits, Needs, Later, Newborn
  <2>4. MayGo(p)
    BY <1>1, <2>2, NotPast, MayGoOn
  <2> QED BY <1>1, <2>2, <2>3, <2>4, Walks
<1>4. CASE Ends(p)
  BY <1>1, <1>4, StepEnds
<1> QED BY <1>2, <1>3, <1>4 DEF AdoptNothing

LEMMA StepMoveAside == ASSUME UpgradeInv, NEW p \in Procs, MoveAside(p) PROVE StepGood
<1>1. /\ proc[p].pc = "aside" /\ proc[p].v = code /\ UNCHANGED <<world, ws>>
      /\ Goes(p, IF Exists THEN "settle" ELSE "fresh")
      /\ old' = IF old = "data" THEN "aside" ELSE old
  BY DEF MoveAside, UpgradeInv, Fits
<1>2. old' # "data" /\ old' \in {"none", "data", "aside"}
  BY <1>1 DEF UpgradeInv, Typed
<1>3. old = "data" => ws.board /\ "old" \in ws.cards
  BY <1>1 DEF UpgradeInv, Fits
<1>4. Sane(ws, code, old', born)
  BY <1>1, <1>3 DEF UpgradeInv, Sane
<1>5. \A q \in Procs : Fits(proc[q], ws, code, old', born)
  <2> TAKE q \in Procs
  <2>1. Fits(proc[q], ws, code, old, born)
    BY DEF UpgradeInv
  <2> QED BY <1>2, <2>1 DEF Fits
<1> QED BY <1>1, <1>2, <1>4, <1>5, StepSettles

LEMMA StepSettlePolicy == ASSUME UpgradeInv, NEW p \in Procs, SettlePolicy(p) PROVE StepGood
<1>1. /\ proc[p].pc \in {"settle", "fresh"} /\ proc[p].pc \in Later \cup Newborn
      /\ UNCHANGED world /\ old' = old /\ ws' = Settled(ws, proc[p].v)
      /\ old # "data" /\ proc[p].v = code
      /\ Goes(p, IF proc[p].pc = "settle" THEN "backup" ELSE "born")
  BY DEF SettlePolicy, Later, Newborn, UpgradeInv, Fits
<1>2. Tame(ws, ws')
  BY <1>1, TameSettled DEF UpgradeInv, Typed, Sane
<1>3. ASSUME NEW pc \in {"backup", "born"}, Goes(p, pc), pc = "backup" => proc[p].pc = "settle",
             pc = "born" => proc[p].pc = "fresh"
      PROVE  StepGood
  <2>1. pc \in PCs
    BY DEF PCs
  <2>2. /\ proc' = [proc EXCEPT ![p] = proc'[p]] /\ proc'[p] \in Process
        /\ proc'[p].pc = pc /\ proc'[p].v = code /\ proc'[p].pc # "serving"
    BY <1>1, <1>3, <2>1, Went
  <2>3. Fits(proc'[p], ws', code, old, born)
    <3>1. Fits(proc[p], ws, code, old, born) /\ Needs(proc'[p]) = {}
      BY <2>2 DEF UpgradeInv, Needs
    <3> QED BY <1>1, <1>2, <1>3, <2>2, <3>1, HoldsNothing DEF Fits, Tame, Later, Newborn
  <2>4. MayGo(p)
    BY <1>1, <1>3, <2>2 DEF MayGo, Past, Later, Newborn, Migrating
  <2> QED BY <1>1, <1>2, <2>2, <2>3, <2>4, Writes
<1> QED BY <1>1, <1>3

LEMMA StepBornCurrent == ASSUME UpgradeInv, NEW p \in Procs, BornCurrent(p) PROVE StepGood
<1>1. /\ proc[p].pc = "born" /\ proc[p].pc \in Past /\ proc[p].pc \in Newborn
      /\ UNCHANGED world /\ old' = old /\ old # "data" /\ proc[p].v = code
      /\ proc[p] \in Process /\ code \in 0..7 /\ code \in 0..LATEST /\ ws \in Folders
      /\ Sane(ws, code, old, born) /\ Fits(proc[p], ws, code, old, born)
      /\ Goes(p, "backup") /\ "backup" \in PCs
      /\ ws' = [ws EXCEPT !.stamp = code, !.versioned = TRUE]
  <2>1. /\ proc[p].pc = "born" /\ UNCHANGED world /\ old' = old /\ Goes(p, "backup")
        /\ ws' = [ws EXCEPT !.stamp = proc[p].v, !.versioned = TRUE]
    BY DEF BornCurrent
  <2>2. /\ Sane(ws, code, old, born) /\ Fits(proc[p], ws, code, old, born)
        /\ proc[p] \in Process /\ ws \in Folders /\ code \in Pulled
    BY DEF UpgradeInv, Typed
  <2>3. "born" \in Past /\ "born" \in Newborn /\ "backup" \in PCs
    BY DEF Past, Newborn, PCs
  <2>4. old # "data" /\ proc[p].v = code
    BY <2>1, <2>2, <2>3 DEF Fits
  <2>5. code \in 0..7 /\ code \in 0..LATEST
    BY <2>2, UpgradeConstants, Latest
  <2> QED BY <2>1, <2>2, <2>3, <2>4, <2>5, Zenon
<1>2. /\ ws' \in Folders /\ ws'.stamp = code /\ ws'.versioned /\ ws'.board = ws.board
      /\ ws'.pipes = ws.pipes /\ ws'.cards = ws.cards /\ ws'.base = ws.base
      /\ ws'.marks = ws.marks /\ ws'.prompt = ws.prompt /\ ws'.policy = ws.policy
  BY <1>1 DEF Folders
<1>3. \A D : Holds(ws, D) => Holds(ws', D)
  BY <1>2 DEF Holds
<1>4. Holds(ws', Known(code))
  <2>1. CASE ws.versioned \/ ws.board
    BY <1>1, <1>3, <2>1 DEF Fits, Sane
  <2>2. CASE ~(ws.versioned \/ ws.board)
    BY <1>1, <1>2, <2>2 DEF Sane, Holds
  <2> QED BY <2>1, <2>2
<1>5. Sane(ws', code, old, born)
  BY <1>1, <1>2, <1>4 DEF Sane
<1>6. \A q \in Procs : Fits(proc[q], ws', code, old, born)
  <2> TAKE q \in Procs
  <2>1. Fits(proc[q], ws, code, old, born) /\ Holds(ws', Needs(proc[q]))
    BY <1>3 DEF UpgradeInv, Fits
  <2>2. proc[q].pc = "serving" => proc[q].v = code
    BY <1>1 DEF UpgradeInv, Servers, Serving
  <2> QED BY <1>1, <1>2, <2>1, <2>2 DEF Fits
<1>7. /\ proc' = [proc EXCEPT ![p] = proc'[p]] /\ proc'[p] \in Process
      /\ proc'[p].pc = "backup" /\ proc'[p].v = code
  BY <1>1, Went
<1>8. Fits(proc'[p], ws', code, old, born)
  BY <1>1, <1>2, <1>7, HoldsNothing DEF Fits, Needs, Newborn
<1>9. MayGo(p)
  BY <1>1, <1>7, NotPast, MayGoOn
<1>10. Yours(ws, ws') /\ UNCHANGED <<code, born, edited, pulls, kills>>
       /\ old' \in {"none", "data", "aside"}
  BY <1>1, <1>2 DEF Yours, world, UpgradeInv, Typed
<1> QED BY <1>1, <1>2, <1>5, <1>6, <1>7, <1>8, <1>9, <1>10, OthersStay

LEMMA StepBackup == ASSUME UpgradeInv, NEW p \in Procs, Backup(p) PROVE StepGood
<1>1. /\ proc[p].pc = "backup" /\ UNCHANGED rest /\ old # "data" /\ proc[p].v = code
      /\ proc[p] \in Process /\ proc[p].pc \in Past /\ proc[p].pc # "serving"
      /\ code \in 0..7 /\ ws.stamp \in 0..7 /\ Holds(ws, Known(ws.stamp))
  BY UpgradeConstants, Latest
     DEF Backup, Later, Past, UpgradeInv, Typed, Fits, Sane, Folders
<1>2. CASE Pending(proc[p].v)
  <2>1. PICK m \in 1..7 : m = ws.stamp + 1 /\ m <= code
    BY <1>1, <1>2 DEF Pending
  <2>2. /\ proc' = [proc EXCEPT ![p] = proc'[p]]
        /\ proc'[p] = [proc[p] EXCEPT !.pc = "apply", !.at = m, !.part = 1]
    BY <1>2, <2>1 DEF Backup, UpgradeInv, Typed
  <2>3. /\ proc'[p] \in Process /\ proc'[p].pc = "apply" /\ proc'[p].at = m
        /\ proc'[p].part = 1 /\ proc'[p].v = code
    BY <1>1, <2>2, Ranges DEF Process, PCs
  <2>4. Needs(proc'[p]) = Known(ws.stamp)
    <3>1. m - 1 = ws.stamp
      BY <1>1, <2>1
    <3> QED BY <2>3, <3>1 DEF Needs
  <2>5. m \in 1..code /\ 1 \in 1..Len(Steps[m])
    BY <1>1, <2>1, LengthOfSteps
  <2>6. Fits(proc'[p], ws, code, old, born)
    <3>1. Fits(proc[p], ws, code, old, born) /\ proc[p].pc \in Later
      BY <1>1 DEF UpgradeInv, Later
    <3> QED BY <1>1, <2>3, <2>4, <2>5, <3>1 DEF Fits, Newborn
  <2>7. MayGo(p)
    BY <1>1, <1>2, <2>3 DEF MayGo, Past, Later, Newborn, Migrating
  <2> QED BY <1>1, <2>2, <2>3, <2>6, <2>7, Walks
<1>3. CASE ~Pending(proc[p].v)
  <2>1. Goes(p, "sync") /\ "sync" \in PCs
    BY <1>3 DEF Backup, Goes, PCs
  <2>2. /\ proc' = [proc EXCEPT ![p] = proc'[p]] /\ proc'[p] \in Process
        /\ proc'[p].pc = "sync" /\ proc'[p].v = code
    BY <1>1, <2>1, Went
  <2>3. Fits(proc'[p], ws, code, old, born)
    <3>1. Fits(proc[p], ws, code, old, born) /\ proc[p].pc \in Later
      BY <1>1 DEF UpgradeInv, Later
    <3> QED BY <1>1, <2>2, <3>1, HoldsNothing DEF Fits, Needs, Newborn
  <2>4. MayGo(p)
    BY <1>1, <2>2, NotPast, MayGoOn
  <2> QED BY <1>1, <2>2, <2>3, <2>4, Walks
<1> QED BY <1>2, <1>3

LEMMA StepApply == ASSUME UpgradeInv, NEW p \in Procs, Apply(p) PROVE StepGood
<1>1. /\ proc[p].pc = "apply" /\ proc[p].pc \in Later /\ UNCHANGED world /\ old' = old
      /\ old # "data" /\ proc[p].v = code /\ proc[p] \in Process /\ code \in 0..7
      /\ ws \in Folders /\ ws.base.body # MINE /\ Fits(proc[p], ws, code, old, born)
  BY UpgradeConstants, Latest DEF Apply, Later, UpgradeInv, Typed, Fits, Sane
<1>2. PICK m \in 1..7, i \in 1..2 :
          m = proc[p].at /\ i = proc[p].part /\ m \in 1..code /\ i \in 1..Len(Steps[m])
  <2>1. proc[p].at \in 1..code /\ proc[p].part \in 1..Len(Steps[proc[p].at])
    BY <1>1 DEF Fits
  <2>2. proc[p].at \in 1..7
    BY <1>1, <2>1
  <2>3. proc[p].part \in {1, 2}
    BY <2>1, <2>2, LengthOfSteps
  <2> QED BY <2>1, <2>2, <2>3
<1>3. ws' = Migrated(ws, code, Steps[m][i])
  BY <1>1, <1>2 DEF Apply
<1>4. Tame(ws, ws') /\ Holds(ws', {Steps[m][i]})
  BY <1>1, <1>2, <1>3, TameMigrated
<1>5. Holds(ws', Needs(proc[p]))
  <2>1. Fits(proc[p], ws', code, old, born)
    BY <1>1, <1>4, FitsTame
  <2> QED BY <2>1 DEF Fits
<1>6. Holds(ws', Known(m - 1)) /\ (m = 3 /\ i = 2 => Holds(ws', {"maint"}))
  <2>1. Needs(proc[p]) = Known(m - 1) \cup (IF m = 3 /\ i = 2 THEN {"maint"} ELSE {})
    BY <1>1, <1>2 DEF Needs
  <2> QED BY <1>5, <2>1, HoldsLess
<1>7. CASE Ends(p)
  <2>1. MayGo(p)
    BY <1>7, Ended, NotPast, MayGoOff
  <2> QED BY <1>1, <1>4, <1>7, <2>1, Ended, Writes
<1>8. CASE i # Len(Steps[m]) /\ proc' = [proc EXCEPT ![p].part = @ + 1]
  <2>1. m <= 3 /\ i = 1 /\ Len(Steps[m]) = 2 /\ 2 \in 1..Len(Steps[m])
    <3>1. m <= 3 \/ m > 3
      OBVIOUS
    <3>2. ~(m > 3)
      BY <1>2, <1>8, LengthOfSteps, Zenon
    <3>3. Len(Steps[m]) = 2 /\ 1..Len(Steps[m]) = {1, 2}
      BY <3>1, <3>2, LengthOfSteps, Zenon
    <3>4. i = 1
      BY <1>2, <1>8, <3>3, Zenon
    <3>5. 2 \in {1, 2}
      OBVIOUS
    <3> QED BY <3>1, <3>2, <3>3, <3>4, <3>5, Zenon
  <2>2. /\ proc' = [proc EXCEPT ![p] = proc'[p]]
        /\ proc'[p] = [proc[p] EXCEPT !.part = 2]
    BY <1>2, <1>8, <2>1 DEF UpgradeInv, Typed
  <2>3. /\ proc'[p] \in Process /\ proc'[p].pc = "apply" /\ proc'[p].at = m
        /\ proc'[p].part = 2 /\ proc'[p].v = code
    BY <1>1, <1>2, <2>2 DEF Process
  <2>4. m = 3 => Holds(ws', {"maint"})
    BY <1>4, <2>1, KnownStep
  <2>5. Needs(proc'[p]) = Known(m - 1) \cup (IF m = 3 THEN {"maint"} ELSE {})
    BY <2>3 DEF Needs
  <2>6. Holds(ws', Needs(proc'[p]))
    BY <1>6, <2>4, <2>5, HoldsBoth, HoldsNothing
  <2>7. Fits(proc'[p], ws', code, old, born)
    BY <1>1, <1>2, <1>4, <2>1, <2>3, <2>6 DEF Fits, Tame, Newborn
  <2>8. MayGo(p)
    BY <1>1, <2>3 DEF MayGo, Past, Later, Newborn, Migrating
  <2> QED BY <1>1, <1>4, <2>2, <2>3, <2>7, <2>8, Writes
<1>9. CASE i = Len(Steps[m]) /\ proc' = [proc EXCEPT ![p].part = 0, ![p].pc = "stamp"]
  <2>1. /\ proc' = [proc EXCEPT ![p] = proc'[p]]
        /\ proc'[p] = [proc[p] EXCEPT !.part = 0, !.pc = "stamp"]
    BY <1>9 DEF UpgradeInv, Typed
  <2>2. /\ proc'[p] \in Process /\ proc'[p].pc = "stamp" /\ proc'[p].at = m /\ proc'[p].v = code
    BY <1>1, <1>2, <2>1, Ranges DEF Process, PCs
  <2>3. Holds(ws', Known(m))
    <3>1. CASE m = 3
      <4>1. i = 2
        BY <1>9, <3>1, LengthOfSteps
      <4>2. Holds(ws', Known(2) \cup {"maint", Steps[m][2]})
        <5>1. {"maint", Steps[m][2]} = {"maint"} \cup {Steps[m][2]} /\ m - 1 = 2
          BY <3>1
        <5> QED BY <1>4, <1>6, <3>1, <4>1, <5>1, HoldsBoth
      <4> QED BY <3>1, <4>2, KnownStep, HoldsLess
    <3>2. CASE m < 3
      BY <3>2, KnownStep, HoldsNothing
    <3>3. CASE m > 3
      <4>1. i = 1
        BY <1>9, <3>3, LengthOfSteps
      <4>2. Holds(ws', Known(m - 1) \cup {Steps[m][1]})
        BY <1>4, <1>6, <4>1, HoldsBoth
      <4> QED BY <3>3, <4>2, KnownStep, HoldsLess
    <3> QED BY <3>1, <3>2, <3>3
  <2>4. Fits(proc'[p], ws', code, old, born)
    BY <1>1, <1>2, <1>4, <2>2, <2>3 DEF Fits, Needs, Tame, Newborn
  <2>5. MayGo(p)
    BY <1>1, <2>2 DEF MayGo, Past, Later, Newborn, Migrating
  <2> QED BY <1>1, <1>4, <2>1, <2>2, <2>4, <2>5, Writes
<1>10. \/ Ends(p)
       \/ i # Len(Steps[m]) /\ proc' = [proc EXCEPT ![p].part = @ + 1]
       \/ i = Len(Steps[m]) /\ proc' = [proc EXCEPT ![p].part = 0, ![p].pc = "stamp"]
  BY <1>2 DEF Apply
<1> QED BY <1>7, <1>8, <1>9, <1>10

LEMMA StepStamp == ASSUME UpgradeInv, NEW p \in Procs, Stamp(p) PROVE StepGood
<1>1. /\ proc[p].pc = "stamp" /\ proc[p].pc \in Past /\ UNCHANGED world /\ old' = old
      /\ old # "data" /\ proc[p].v = code /\ proc[p] \in Process /\ code \in 0..7
      /\ ws \in Folders /\ Sane(ws, code, old, born) /\ Fits(proc[p], ws, code, old, born)
  BY UpgradeConstants, Latest DEF Stamp, Later, Past, UpgradeInv, Typed, Fits
<1>2. PICK m \in 1..7 : m = proc[p].at /\ m <= code /\ Holds(ws, Known(m))
  <2>1. proc[p].at \in 1..code /\ Holds(ws, Known(proc[p].at))
    BY <1>1 DEF Fits, Needs, Later, Newborn
  <2> QED BY <1>1, <2>1
<1>3. ws' = [ws EXCEPT !.stamp = m, !.versioned = TRUE]
  BY <1>2 DEF Stamp
<1>4. /\ ws' \in Folders /\ ws'.stamp = m /\ ws'.versioned /\ ws'.board = ws.board
      /\ ws'.pipes = ws.pipes /\ ws'.cards = ws.cards /\ ws'.base = ws.base
      /\ ws'.marks = ws.marks /\ Yours(ws, ws')
  BY <1>1, <1>3, Ranges DEF Folders, Yours
<1>5. \A D : Holds(ws, D) => Holds(ws', D)
  BY <1>4 DEF Holds
<1>6. Sane(ws', code, old, born)
  BY <1>1, <1>2, <1>4, <1>5 DEF Sane
<1>7. \A q \in Procs : Fits(proc[q], ws', code, old, born)
  <2> TAKE q \in Procs
  <2>1. Fits(proc[q], ws, code, old, born)
    BY DEF UpgradeInv
  <2>2. proc[q].pc = "serving" => proc[q].v = code
    BY <1>1 DEF UpgradeInv, Servers, Serving
  <2>3. proc[q].pc \notin Newborn
    BY <1>1 DEF UpgradeInv, Servers, Migrating
  <2> QED BY <1>1, <1>2, <1>4, <1>5, <2>1, <2>2, <2>3 DEF Fits
<1>8. CASE proc' = [proc EXCEPT ![p].pc = "apply", ![p].at = @ + 1, ![p].part = 1] /\ m < code
  <2>1. PICK n \in 1..7 : n = m + 1 /\ n \in 1..code /\ n - 1 = m /\ n # m
    BY <1>1, <1>8
  <2>2. /\ proc' = [proc EXCEPT ![p] = proc'[p]]
        /\ proc'[p] = [proc[p] EXCEPT !.pc = "apply", !.at = n, !.part = 1]
    BY <1>2, <1>8, <2>1 DEF UpgradeInv, Typed
  <2>3. /\ proc'[p] \in Process /\ proc'[p].pc = "apply" /\ proc'[p].at = n
        /\ proc'[p].part = 1 /\ proc'[p].v = code
    BY <1>1, <2>2, Ranges DEF Process, PCs
  <2>4. Needs(proc'[p]) = Known(m)
    BY <2>1, <2>3 DEF Needs
  <2>5. 1 \in 1..Len(Steps[n])
    BY LengthOfSteps
  <2>6. Fits(proc'[p], ws', code, old, born)
    BY <1>1, <1>2, <1>4, <1>5, <2>1, <2>3, <2>4, <2>5 DEF Fits, Newborn
  <2>7. UNCHANGED <<code, born, edited, pulls, kills>>
    BY <1>1 DEF world
  <2>8. MayGo(p)
    BY <1>1, <2>3 DEF MayGo, Past, Later, Newborn, Migrating
  <2> QED BY <1>1, <1>4, <1>6, <1>7, <2>2, <2>3, <2>6, <2>7, <2>8, OthersStay DEF UpgradeInv, Typed
<1>9. CASE Goes(p, "reconcile")
  <2>1. "reconcile" \in PCs
    BY DEF PCs
  <2>2. /\ proc' = [proc EXCEPT ![p] = proc'[p]] /\ proc'[p] \in Process
        /\ proc'[p].pc = "reconcile" /\ proc'[p].v = code
    BY <1>1, <1>9, <2>1, Went
  <2>3. Fits(proc'[p], ws', code, old, born)
    BY <1>1, <1>4, <2>2, HoldsNothing DEF Fits, Needs, Newborn
  <2>4. UNCHANGED <<code, born, edited, pulls, kills>>
    BY <1>1 DEF world
  <2>5. MayGo(p)
    BY <1>1, <2>2, NotPast, MayGoOn
  <2> QED BY <1>1, <1>4, <1>6, <1>7, <2>2, <2>3, <2>4, <2>5, OthersStay DEF UpgradeInv, Typed
<1>10. \/ proc' = [proc EXCEPT ![p].pc = "apply", ![p].at = @ + 1, ![p].part = 1] /\ m < code
       \/ Goes(p, "reconcile")
  BY <1>1, <1>2 DEF Stamp, Goes
<1> QED BY <1>8, <1>9, <1>10

LEMMA StepReconcile == ASSUME UpgradeInv, NEW p \in Procs, Reconcile(p) PROVE StepGood
<1>1. /\ proc[p].pc = "reconcile" /\ proc[p].pc \in Later /\ UNCHANGED world /\ old' = old
      /\ Goes(p, "sync") /\ "sync" \in PCs /\ old # "data" /\ proc[p].v = code
      /\ Fits(proc[p], ws, code, old, born)
      /\ ws' = [ws EXCEPT !.schema = IF ws.board THEN code ELSE @]
      /\ ws \in Folders /\ ws.base.body # MINE /\ code \in 0..LATEST
  BY UpgradeConstants DEF Reconcile, Later, PCs, UpgradeInv, Fits, Typed, Sane
<1>2. Tame(ws, ws')
  <2>1. ws' \in Folders
    BY <1>1 DEF Folders
  <2> QED BY <1>1, <2>1, TameTexts DEF Yours, Folders
<1>3. /\ proc' = [proc EXCEPT ![p] = proc'[p]] /\ proc'[p] \in Process
      /\ proc'[p].pc = "sync" /\ proc'[p].v = code
  BY <1>1, Went
<1>4. Fits(proc'[p], ws', code, old, born)
  BY <1>1, <1>2, <1>3, HoldsNothing DEF Fits, Needs, Tame, Newborn
<1>5. MayGo(p)
  BY <1>1, <1>3, NotPast, MayGoOn
<1> QED BY <1>1, <1>2, <1>3, <1>4, <1>5, Writes

\* Where a process is when its prompts are in order.
LEMMA GoesOnFits ==
    ASSUME UpgradeInv, NEW p \in Procs, GoesOn(p), proc[p].v = code
    PROVE  /\ proc' = [proc EXCEPT ![p] = proc'[p]] /\ proc'[p] \in Process
           /\ proc'[p].pc # "serving" /\ MayGo(p)
           /\ \A f, o, b : Fits(proc'[p], f, code, o, b)
<1>1. CASE Ends(p)
  BY <1>1, Ended, NotPast, MayGoOff
<1>2. CASE Goes(p, "bind")
  <2>1. "bind" \in PCs
    BY DEF PCs
  <2>2. /\ proc' = [proc EXCEPT ![p] = proc'[p]] /\ proc'[p] \in Process
        /\ proc'[p].pc = "bind" /\ proc'[p].v = code
    BY <1>2, <2>1, Went
  <2> QED BY <2>2, FitsEasily, NotPast, MayGoOff
<1> QED BY <1>1, <1>2 DEF GoesOn

LEMMA StepSync == ASSUME UpgradeInv, NEW p \in Procs, Sync(p) PROVE StepGood
<1>1. /\ proc[p].pc = "sync" /\ proc[p].pc \in Later /\ UNCHANGED world /\ old' = old
      /\ old # "data" /\ proc[p].v = code /\ ws \in Folders /\ ws.base.body # MINE
      /\ code \in 0..7 /\ Fits(proc[p], ws, code, old, born)
  BY UpgradeConstants, Latest DEF Sync, Later, UpgradeInv, Fits, Typed, Sane
<1>2. Default(code) \in Text /\ Default(code).body # MINE
  BY <1>1, DefaultText
<1>3. CASE /\ ws.prompt # NoFile /\ ws.prompt # Default(code) /\ Untouched
           /\ ws' = [ws EXCEPT !.prompt = Default(code)] /\ Goes(p, "rebase")
  <2>1. ws' \in Folders
    BY <1>1, <1>2, <1>3 DEF Folders
  <2>2. ws.prompt.body # MINE
    BY <1>1, <1>3 DEF Untouched
  <2>3. Tame(ws, ws')
    BY <1>1, <1>3, <2>1, <2>2, TameTexts DEF Yours, Folders
  <2>4. "rebase" \in PCs /\ "rebase" \in Later
    BY DEF PCs, Later
  <2>5. /\ proc' = [proc EXCEPT ![p] = proc'[p]] /\ proc'[p] \in Process
        /\ proc'[p].pc = "rebase" /\ proc'[p].v = code
    BY <1>1, <1>3, <2>4, Went
  <2>6. Fits(proc'[p], ws', code, old, born)
    BY <1>1, <2>3, <2>5, HoldsNothing DEF Fits, Needs, Tame, Newborn
  <2>7. MayGo(p)
    BY <1>1, <2>5, NotPast, MayGoOn
  <2> QED BY <1>1, <2>3, <2>5, <2>6, <2>7, Writes
<1>4. CASE ws' = [ws EXCEPT !.base = Default(code)] /\ GoesOn(p)
  <2>1. ws' \in Folders
    BY <1>1, <1>2, <1>4 DEF Folders
  <2>2. Tame(ws, ws')
    BY <1>1, <1>2, <1>4, <2>1, TameTexts DEF Yours, Folders
  <2> QED BY <1>1, <1>4, <2>2, GoesOnFits, Writes
<1>5. CASE GoesOn(p) /\ ws' = ws
  <2>1. Tame(ws, ws')
    BY <1>1, <1>5, TameTexts DEF Yours
  <2> QED BY <1>1, <1>5, <2>1, GoesOnFits, Writes
<1> QED BY <1>1, <1>3, <1>4, <1>5 DEF Sync

LEMMA StepRebase == ASSUME UpgradeInv, NEW p \in Procs, Rebase(p) PROVE StepGood
<1>1. /\ proc[p].pc = "rebase" /\ proc[p].pc \in Later /\ UNCHANGED world /\ old' = old
      /\ old # "data" /\ proc[p].v = code /\ ws \in Folders /\ ws.base.body # MINE
      /\ code \in 0..7 /\ GoesOn(p) /\ ws' = [ws EXCEPT !.base = Default(code)]
  BY UpgradeConstants, Latest DEF Rebase, Later, UpgradeInv, Fits, Typed, Sane
<1>2. Default(code) \in Text /\ Default(code).body # MINE
  BY <1>1, DefaultText
<1>3. ws' \in Folders
  BY <1>1, <1>2 DEF Folders
<1>4. Tame(ws, ws')
  BY <1>1, <1>2, <1>3, TameTexts DEF Yours, Folders
<1> QED BY <1>1, <1>4, GoesOnFits, Writes

-----------------------------------------------------------------------------
(* The board that serves, and the client that drains it *)

LEMMA HoldsKnown ==
    ASSUME NEW f, NEW v, NEW D, Known(v) \subseteq f.marks, D \subseteq Known(v)
    PROVE  Holds(f, D)
  BY DEF Holds

LEMMA StepBind == ASSUME UpgradeInv, NEW p \in Procs, Bind(p) PROVE StepGood
<1>1. /\ proc[p].pc = "bind" /\ old' = old /\ proc[p] \in Process /\ proc[p].v = code
      /\ UNCHANGED <<code, born, edited, pulls, kills>>
      /\ ws \in Folders /\ code \in 0..7 /\ Sane(ws, code, old, born) /\ Servers
      /\ proc[p].pc # "serving" /\ old \in {"none", "data", "aside"}
      /\ proc \in [Procs -> Process]
  <2>1. proc[p].pc = "bind" /\ UNCHANGED <<world, old>>
    BY DEF Bind
  <2>2. proc[p].v = code
    BY <2>1 DEF UpgradeInv, Fits
  <2> QED BY <2>1, <2>2, UpgradeConstants, Latest DEF world, UpgradeInv, Typed
<1>2. CASE Pending(proc[p].v) \/ old = "data"
  <2>1. Ends(p) /\ UNCHANGED rest
    BY <1>1, <1>2 DEF Bind, rest, world
  <2> QED BY <1>1, <2>1, StepEnds
<1>3. CASE ~(Pending(proc[p].v) \/ old = "data")
  <2>1. ws' = Loaded(ws, code) /\ old # "data"
    BY <1>1, <1>3 DEF Bind
  <2>2. ws.stamp = code /\ Holds(ws, Known(code)) /\ ws.base.body # MINE
    <3>1. ws.stamp <= code /\ ws.stamp \in 0..7 /\ ~(ws.stamp < code)
      BY <1>1, <1>3, Latest DEF Sane, Pending, Folders
    <3>2. ws.stamp = code
      BY <1>1, <3>1
    <3> QED BY <1>1, <3>2 DEF Sane
  <2>3. /\ ws' \in Folders /\ ws'.base.body # MINE /\ ws'.board /\ ws'.pipes
        /\ ws'.cards = ws.cards /\ ws'.stamp = ws.stamp /\ ws'.versioned = ws.versioned
        /\ Known(code) \subseteq ws'.marks /\ Yours(ws, ws')
    BY <1>1, <2>1, <2>2, LoadedFolder
  <2>4. Sane(ws', code, old, born)
    BY <1>1, <2>1, <2>2, <2>3, HoldsKnown DEF Sane
  <2>5. \A q \in Procs : Fits(proc[q], ws', code, old, born)
    <3> TAKE q \in Procs
    <3>1. proc[q] \in Process /\ Fits(proc[q], ws, code, old, born)
      BY DEF UpgradeInv, Typed
    <3>2. Holds(ws', Needs(proc[q]))
      BY <1>1, <2>3, <3>1, NeedsBelow, HoldsKnown
    <3> QED BY <2>1, <2>2, <2>3, <3>1, <3>2 DEF Fits
  <2>6. CASE Serving # {}
    <3>1. Ends(p)
      BY <1>3, <2>6 DEF Bind
    <3>2. MayGo(p)
      BY <3>1, Ended, NotPast, MayGoOff
    <3> QED BY <1>1, <2>3, <2>4, <2>5, <3>1, <3>2, Ended, OthersStay
  <2>7. CASE Serving = {}
    <3>1. proc' = [proc EXCEPT ![p].pc = "serving", ![p].mem = ws.cards]
      BY <1>3, <2>7 DEF Bind
    <3>2. /\ \A q \in Procs \ {p} : proc'[q] = proc[q]
          /\ proc'[p] = [proc[p] EXCEPT !.pc = "serving", !.mem = ws.cards]
          /\ DOMAIN proc' = Procs
      BY <1>1, <3>1
    <3>3. /\ proc'[p] \in Process /\ proc'[p].pc = "serving" /\ proc'[p].v = code
          /\ proc'[p].mem = ws.cards
      BY <1>1, <3>2 DEF Process, PCs, Folders
    <3>4. Serving' = {p}
      <4>1. \A q \in Procs : proc[q].pc # "serving"
        BY <2>7 DEF Serving
      <4>2. \A q \in Procs : proc'[q].pc = "serving" <=> q = p
        BY <3>2, <3>3, <4>1
      <4> QED BY <4>2 DEF Serving
    <3>5. proc' \in [Procs -> Process]
      BY <1>1, <3>1, <3>3
    <3>6. Fits(proc'[p], ws', code, old, born)
      <4>1. Needs(proc'[p]) = Known(code)
        BY <3>3 DEF Needs
      <4>2. born \subseteq ws.cards
        BY <1>1, <2>1 DEF Sane
      <4> QED BY <1>1, <2>1, <2>2, <2>3, <3>3, <4>1, <4>2, HoldsKnown DEF Fits
    <3>7. Typed'
      BY <1>1, <2>3, <3>1, <3>5 DEF UpgradeInv, Typed
    <3>8. Servers'
      <4>1. proc'[p].pc \notin Newborn \cup Migrating
        BY <3>3 DEF Newborn, Migrating
      <4> QED BY <1>1, <3>2, <3>3, <3>4, <4>1 DEF Servers
    <3> QED BY <1>1, <2>3, <2>4, <2>5, <3>2, <3>6, <3>7, <3>8 DEF UpgradeInv, StepGood
  <2> QED BY <2>6, <2>7
<1> QED BY <1>2, <1>3

\* The marks of one file as this release knows them.
LEMMA HoldsSaved ==
    ASSUME NEW f, NEW g, NEW v, NEW M, M = BoardMarks \/ M = PipeMarks,
           g.board = f.board, g.pipes = f.pipes,
           g.marks = (f.marks \ M) \cup (Known(v) \cap M)
    PROVE  \A D : D \subseteq Known(v) /\ Holds(f, D) => Holds(g, D)
  BY DEF Holds, BoardMarks, PipeMarks

\* A write of the board that serves: it takes no mark its release knows, and
\* the folder has the cards it has in memory.
LEMMA ServingWrites ==
    ASSUME UpgradeInv, NEW p \in Procs, proc[p].pc = "serving",
           \A q \in Procs \ {p} : proc'[q] = proc[q], proc' \in [Procs -> Process],
           proc'[p].pc = "serving", proc'[p].v = proc[p].v,
           ws' \in Folders, ws'.board = ws.board, ws'.pipes = ws.pipes,
           ws'.stamp = ws.stamp, ws'.versioned = ws.versioned, ws'.base = ws.base,
           Yours(ws, ws'),
           \A D : D \subseteq Known(proc[p].v) /\ Holds(ws, D) => Holds(ws', D),
           born' \subseteq proc'[p].mem, proc'[p].mem \subseteq ws'.cards,
           UNCHANGED <<code, old, edited, pulls, kills>>
    PROVE  StepGood
<1>1. /\ Fits(proc[p], ws, code, old, born) /\ Sane(ws, code, old, born) /\ Servers
      /\ proc[p] \in Process /\ old # "data" /\ ws \in Folders
      /\ code \in 0..7 /\ proc[p].v \in 0..7 /\ ws.stamp \in 0..7
      /\ ws.stamp <= proc[p].v /\ proc[p].v <= code /\ ws.board /\ ws.pipes
      /\ Holds(ws, Known(proc[p].v))
  <2>1. /\ Fits(proc[p], ws, code, old, born) /\ Sane(ws, code, old, born) /\ Servers
        /\ proc[p] \in Process /\ ws \in Folders /\ code \in 0..7
    BY UpgradeConstants, Latest DEF UpgradeInv, Typed
  <2>2. proc[p].v \in 0..7 /\ ws.stamp \in 0..7
    BY <2>1, Latest DEF Process, Folders
  <2>3. Needs(proc[p]) = Known(proc[p].v)
    BY DEF Needs
  <2> QED BY <2>1, <2>2, <2>3 DEF Fits
<1>2. proc'[p] \in Process /\ born' \subseteq Cards
  BY DEF Folders
<1>3. Typed'
  BY <1>2 DEF UpgradeInv, Typed
<1>4. Known(ws.stamp) \subseteq Known(proc[p].v)
  BY <1>1, KnownGrows
<1>5. Sane(ws', code, old, born')
  <2>1. Holds(ws', Known(ws'.stamp))
    BY <1>1, <1>4 DEF Sane
  <2> QED BY <1>1, <2>1 DEF Sane
<1>6. Fits(proc'[p], ws', code, old, born')
  <2>1. Holds(ws', Needs(proc'[p]))
    BY <1>1 DEF Needs
  <2> QED BY <1>1, <2>1 DEF Fits
<1>7. ASSUME NEW q \in Procs \ {p} PROVE Fits(proc'[q], ws', code, old, born')
  <2>1. /\ proc'[q] = proc[q] /\ Fits(proc[q], ws, code, old, born) /\ proc[q] \in Process
        /\ proc[q].pc # "serving"
    BY <1>1 DEF UpgradeInv, Typed, Servers, Serving
  <2>2. CASE proc[q].pc \in Past
    <3>1. proc[p].v = code
      BY <1>1, <2>2 DEF Servers, Serving
    <3>2. Needs(proc[q]) \subseteq Known(code)
      BY <1>1, <2>1, NeedsBelow
    <3>3. Holds(ws', Needs(proc[q]))
      BY <2>1, <3>1, <3>2 DEF Fits
    <3> QED BY <1>1, <2>1, <3>3 DEF Fits
  <2>3. CASE proc[q].pc \notin Past
    <3>1. Needs(proc[q]) = {} /\ proc[q].pc \notin {"apply", "stamp"}
      BY <2>1, <2>3 DEF Needs, Past, Later
    <3> QED BY <1>1, <2>1, <3>1, HoldsNothing DEF Fits
  <2> QED BY <2>2, <2>3
<1>8. Serving' = Serving
  BY DEF Serving
<1>9. Servers'
  <2>1. \A q \in Procs : proc'[q].pc = proc[q].pc /\ proc'[q].v = proc[q].v
    OBVIOUS
  <2> QED BY <1>1, <1>8, <2>1 DEF Servers, Serving
<1> QED BY <1>3, <1>5, <1>6, <1>7, <1>8, <1>9 DEF UpgradeInv, StepGood

LEMMA StepServes ==
    ASSUME UpgradeInv, NEW p \in Procs, SavesBoard(p) \/ SavesPipelines(p) \/ AddsCard(p)
    PROVE  StepGood
<1>1. /\ proc[p].pc = "serving" /\ proc[p] \in Process /\ ws \in Folders
      /\ proc \in [Procs -> Process] /\ proc[p].v \in 0..LATEST
      /\ born \subseteq proc[p].mem /\ proc[p].mem \subseteq ws.cards
      /\ proc[p].mem \subseteq Cards /\ proc[p].v \in 0..7
  BY Latest DEF SavesBoard, SavesPipelines, AddsCard, UpgradeInv, Typed, Fits, Process
<1>2. Known(proc[p].v) \subseteq Marks
  BY <1>1, KnownMarks
<1>3. CASE SavesBoard(p)
  <2>1. /\ ws' = [ws EXCEPT !.cards = proc[p].mem, !.schema = proc[p].v,
                            !.marks = (@ \ BoardMarks) \cup (Known(proc[p].v) \cap BoardMarks)]
        /\ proc' = proc /\ UNCHANGED <<code, old, edited, pulls, kills, born>>
    BY <1>3 DEF SavesBoard, world
  <2>2. /\ ws' \in Folders /\ ws'.board = ws.board /\ ws'.pipes = ws.pipes
        /\ ws'.stamp = ws.stamp /\ ws'.versioned = ws.versioned /\ ws'.base = ws.base
        /\ ws'.marks = (ws.marks \ BoardMarks) \cup (Known(proc[p].v) \cap BoardMarks)
        /\ ws'.cards = proc[p].mem /\ Yours(ws, ws')
    BY <1>1, <1>2, <2>1 DEF Folders, Yours
  <2>3. \A D : D \subseteq Known(proc[p].v) /\ Holds(ws, D) => Holds(ws', D)
    BY <2>2, HoldsSaved, Zenon
  <2> QED BY <1>1, <2>1, <2>2, <2>3, ServingWrites
<1>4. CASE SavesPipelines(p)
  <2>1. /\ ws' = [ws EXCEPT !.marks = (@ \ PipeMarks) \cup (Known(proc[p].v) \cap PipeMarks)]
        /\ proc' = proc /\ UNCHANGED <<code, old, edited, pulls, kills, born>>
    BY <1>4 DEF SavesPipelines, world
  <2>2. /\ ws' \in Folders /\ ws'.board = ws.board /\ ws'.pipes = ws.pipes
        /\ ws'.stamp = ws.stamp /\ ws'.versioned = ws.versioned /\ ws'.base = ws.base
        /\ ws'.marks = (ws.marks \ PipeMarks) \cup (Known(proc[p].v) \cap PipeMarks)
        /\ ws'.cards = ws.cards /\ Yours(ws, ws')
    BY <1>1, <1>2, <2>1 DEF Folders, Yours
  <2>3. \A D : D \subseteq Known(proc[p].v) /\ Holds(ws, D) => Holds(ws', D)
    BY <2>2, HoldsSaved, Zenon
  <2> QED BY <1>1, <2>1, <2>2, <2>3, ServingWrites
<1>5. CASE AddsCard(p)
  <2>1. /\ ws' = [ws EXCEPT !.cards = proc[p].mem \cup {"new"}, !.schema = proc[p].v,
                            !.marks = (@ \ BoardMarks) \cup (Known(proc[p].v) \cap BoardMarks)]
        /\ proc' = [proc EXCEPT ![p].mem = @ \cup {"new"}] /\ born' = born \cup {"new"}
        /\ UNCHANGED <<code, old, edited, pulls, kills>>
    BY <1>1, <1>5 DEF AddsCard
  <2>2. proc[p].mem \cup {"new"} \subseteq Cards
    BY <1>1 DEF Cards
  <2>3. /\ ws' \in Folders /\ ws'.board = ws.board /\ ws'.pipes = ws.pipes
        /\ ws'.stamp = ws.stamp /\ ws'.versioned = ws.versioned /\ ws'.base = ws.base
        /\ ws'.marks = (ws.marks \ BoardMarks) \cup (Known(proc[p].v) \cap BoardMarks)
        /\ ws'.cards = proc[p].mem \cup {"new"} /\ Yours(ws, ws')
    BY <1>1, <1>2, <2>1, <2>2 DEF Folders, Yours
  <2>4. /\ proc'[p] = [proc[p] EXCEPT !.mem = @ \cup {"new"}]
        /\ \A q \in Procs \ {p} : proc'[q] = proc[q]
    BY <1>1, <2>1
  <2>5. /\ proc'[p] \in Process /\ proc'[p].pc = "serving" /\ proc'[p].v = proc[p].v
        /\ proc'[p].mem = proc[p].mem \cup {"new"}
    BY <1>1, <2>2, <2>4 DEF Process
  <2>6. proc' \in [Procs -> Process]
    BY <1>1, <2>1, <2>5
  <2>7. \A D : D \subseteq Known(proc[p].v) /\ Holds(ws, D) => Holds(ws', D)
    BY <2>3, HoldsSaved, Zenon
  <2>8. born' \subseteq proc'[p].mem /\ proc'[p].mem \subseteq ws'.cards
    BY <1>1, <2>1, <2>3, <2>5
  <2> QED BY <1>1, <2>1, <2>3, <2>4, <2>5, <2>6, <2>7, <2>8, ServingWrites
<1> QED BY <1>3, <1>4, <1>5

\* Processes that end, or that count on nothing yet.
LEMMA Closes ==
    ASSUME UpgradeInv, proc' \in [Procs -> Process],
           \A q \in Procs : \/ proc'[q] = proc[q]
                            \/ proc'[q].pc \notin Past \cup {"serving"}
                            \/ /\ proc'[q].pc = "serving" /\ proc[q].pc = "serving"
                               /\ proc'[q].v = proc[q].v,
           \A q \in Procs : Fits(proc'[q], ws, code, old, born),
           UNCHANGED <<code, ws, old, born, edited, pulls>>, kills' \in Nat
    PROVE  StepGood
<1>1. Typed'
  BY DEF UpgradeInv, Typed
<1>2. \A q \in Serving' : q \in Serving /\ proc'[q].v = proc[q].v
  BY DEF Serving
<1>3. \A q \in Procs : /\ proc'[q].pc \in Past => proc[q].pc \in Past
                       /\ proc'[q].pc \in Newborn => proc[q].pc \in Newborn
                       /\ proc'[q].pc \in Migrating => proc[q].pc \in Migrating
  BY DEF Past, Newborn, Migrating, Later
<1>4. Servers'
  BY <1>2, <1>3 DEF UpgradeInv, Servers
<1> QED BY <1>1, <1>4 DEF UpgradeInv, StepGood, Yours

\* A process that ends, or becomes one that counts on nothing yet.
LEMMA Resets ==
    ASSUME UpgradeInv, NEW p \in Procs, NEW r \in Process, proc' = [proc EXCEPT ![p] = r],
           r.pc \in {"off", "probe", "bind", "ask"}, r.pc # "off" => r.v = code,
           UNCHANGED <<code, ws, old, born, edited, pulls>>, kills' \in Nat
    PROVE  StepGood
<1>1. proc \in [Procs -> Process]
  BY DEF UpgradeInv, Typed
<1>2. /\ proc'[p] = r /\ \A q \in Procs \ {p} : proc'[q] = proc[q]
      /\ proc' \in [Procs -> Process]
  BY <1>1
<1>3. Fits(r, ws, code, old, born) /\ r.pc \notin Past /\ r.pc # "serving"
  BY FitsEasily, NotPast
<1>4. \A q \in Procs : Fits(proc'[q], ws, code, old, born)
  BY <1>2, <1>3 DEF UpgradeInv
<1> QED BY <1>2, <1>3, <1>4, Closes

\* A board that serves is told how it will end.
LEMMA Marked ==
    ASSUME NEW r \in Process, NEW n \in {"stay", "exit", "again"}, NEW f, NEW c, NEW o, NEW b,
           Fits(r, f, c, o, b), NEW q, q = [r EXCEPT !.next = n]
    PROVE  q \in Process /\ q.pc = r.pc /\ q.v = r.v /\ Fits(q, f, c, o, b)
<1>1. /\ q \in Process /\ q.pc = r.pc /\ q.v = r.v /\ q.at = r.at /\ q.part = r.part
      /\ q.left = r.left /\ q.mem = r.mem
  BY DEF Process
<1>2. Needs(q) = Needs(r)
  BY <1>1 DEF Needs
<1>3. Fits(q, f, c, o, b)
  BY <1>1, <1>2 DEF Fits
<1> QED BY <1>1, <1>3

LEMMA StepStop == ASSUME UpgradeInv, NEW p \in Procs, Stop(p) PROVE StepGood
<1>1. /\ proc[p].pc = "stop" /\ UNCHANGED rest /\ proc \in [Procs -> Process]
      /\ proc[p] \in Process /\ proc[p].v = code
  BY DEF Stop, UpgradeInv, Typed, Fits
<1>2. CASE Ends(p)
  BY <1>1, <1>2, StepEnds
<1>3. ASSUME NEW q \in Serving, NEW next \in {"exit", proc[q].next} \ {"stay"},
             proc' = [proc EXCEPT ![q].next = next, ![p].pc = "gone"]
      PROVE  StepGood
  <2>1. /\ q \in Procs /\ proc[q].pc = "serving" /\ q # p /\ proc[q] \in Process
        /\ Fits(proc[q], ws, code, old, born) /\ next \in {"stay", "exit", "again"}
    BY <1>1, <1>3 DEF Serving, UpgradeInv, Typed, Process
  <2>2. /\ proc'[q] = [proc[q] EXCEPT !.next = next] /\ proc'[p] = [proc[p] EXCEPT !.pc = "gone"]
        /\ \A r \in Procs \ {p, q} : proc'[r] = proc[r]
        /\ DOMAIN proc' = Procs
        /\ proc' = [r \in Procs |-> proc'[r]]
    BY <1>1, <1>3, <2>1
  <2>3. /\ proc'[q] \in Process /\ proc'[q].pc = "serving" /\ proc'[q].v = proc[q].v
        /\ Fits(proc'[q], ws, code, old, born)
    BY <2>1, <2>2, Marked
  <2>4. /\ proc'[p] \in Process /\ proc'[p].pc = "gone" /\ proc'[p].v = code
    BY <1>1, <2>2 DEF Process, PCs
  <2>5. Fits(proc'[p], ws, code, old, born) /\ proc'[p].pc \notin Past \cup {"serving"}
    BY <2>4, FitsEasily, NotPast
  <2>6. proc' \in [Procs -> Process]
    <3>1. \A r \in Procs : proc'[r] \in Process
      BY <1>1, <2>2, <2>3, <2>4
    <3> QED BY <2>2, <3>1
  <2>7. \A r \in Procs : Fits(proc'[r], ws, code, old, born)
    BY <2>2, <2>3, <2>5 DEF UpgradeInv
  <2>8. UNCHANGED <<code, ws, old, born, edited, pulls>> /\ kills' \in Nat
    BY <1>1 DEF rest, world, UpgradeInv, Typed
  <2> QED BY <2>1, <2>2, <2>3, <2>5, <2>6, <2>7, <2>8, Closes
<1> QED BY <1>2, <1>3 DEF Stop

LEMMA StepRestarts == ASSUME UpgradeInv, NEW p \in Procs, Restarts(p) PROVE StepGood
<1>1. /\ proc[p].pc = "serving" /\ UNCHANGED rest /\ proc \in [Procs -> Process]
      /\ proc[p] \in Process /\ Fits(proc[p], ws, code, old, born)
      /\ proc' = [proc EXCEPT ![p].next = "again"]
  BY DEF Restarts, UpgradeInv, Typed
<1>2. /\ proc'[p] = [proc[p] EXCEPT !.next = "again"]
      /\ \A q \in Procs \ {p} : proc'[q] = proc[q]
  BY <1>1
<1>3. /\ proc'[p] \in Process /\ proc'[p].pc = "serving" /\ proc'[p].v = proc[p].v
      /\ Fits(proc'[p], ws, code, old, born)
  BY <1>1, <1>2, Marked
<1>4. proc' \in [Procs -> Process]
  BY <1>1, <1>3
<1>5. \A q \in Procs : Fits(proc'[q], ws, code, old, born)
  BY <1>2, <1>3 DEF UpgradeInv
<1>6. UNCHANGED <<code, ws, old, born, edited, pulls>> /\ kills' \in Nat
  BY <1>1 DEF rest, world, UpgradeInv, Typed
<1> QED BY <1>1, <1>2, <1>3, <1>4, <1>5, <1>6, Closes

LEMMA StepShips == ASSUME UpgradeInv, NEW p \in Procs, Ships(p) PROVE StepGood
<1>1. CASE Ask(p)
  <2>1. proc[p].pc = "ask" /\ UNCHANGED rest /\ (Goes(p, "probe") \/ Goes(p, "wait"))
    BY <1>1 DEF Ask
  <2> QED BY <2>1, StepEasy
<1>2. CASE Wait(p)
  <2>1. proc[p].pc = "wait" /\ UNCHANGED rest /\ (Goes(p, "stop") \/ Ends(p))
    BY <1>2 DEF Wait
  <2> QED BY <2>1, StepEasy, StepEnds
<1>3. CASE Stop(p)
  BY <1>3, StepStop
<1>4. CASE Gone(p)
  <2>1. proc[p].pc = "gone" /\ UNCHANGED rest /\ (Goes(p, "probe") \/ Ends(p))
    BY <1>4 DEF Gone
  <2> QED BY <2>1, StepEasy, StepEnds
<1>5. CASE Restarts(p)
  BY <1>5, StepRestarts
<1>6. CASE Leaves(p)
  <2>1. /\ UNCHANGED <<code, ws, old, born, edited, pulls>> /\ kills' \in Nat /\ code \in 0..7
    BY <1>6, UpgradeConstants, Latest DEF Leaves, rest, world, UpgradeInv, Typed
  <2>2. CASE proc' = [proc EXCEPT ![p] = Off]
    <3>1. Off \in Process /\ Off.pc = "off"
      BY Latest DEF Off, Process, PCs
    <3> QED BY <2>1, <2>2, <3>1, Resets
  <2>3. CASE proc' = [proc EXCEPT ![p] = Started("serve")]
    <3>1. /\ Started("serve") \in Process /\ Started("serve").v = code
          /\ Started("serve").pc \in {"bind", "ask", "probe"}
      BY <2>1, StartedProcess
    <3> QED BY <2>1, <2>3, <3>1, Resets
  <2> QED BY <1>6, <2>2, <2>3 DEF Leaves
<1> QED BY <1>1, <1>2, <1>3, <1>4, <1>5, <1>6 DEF Ships

-----------------------------------------------------------------------------
(* The human and the machine *)

LEMMA StepDies == ASSUME UpgradeInv, NEW p \in Procs, Dies(p) PROVE StepGood
<1>1. /\ proc' = [proc EXCEPT ![p] = Off] /\ kills' \in Nat
      /\ UNCHANGED <<code, ws, old, born, edited, pulls>>
  BY DEF Dies, Ends, UpgradeInv, Typed
<1>2. Off \in Process /\ Off.pc = "off"
  BY Latest DEF Off, Process, PCs
<1> QED BY <1>1, <1>2, Resets

LEMMA StepPull == ASSUME UpgradeInv, NEW v \in Pulled, Pull(v) PROVE StepGood
<1>1. /\ code' = v /\ v > code /\ v \in 0..7 /\ code \in 0..7 /\ pulls' \in Nat
      /\ UNCHANGED <<ws, old, proc, born, edited, kills>>
      /\ \A p \in Procs : proc[p].pc \in {"off", "serving"}
  BY UpgradeConstants, Latest DEF Pull, UpgradeInv, Typed
<1>2. Typed' /\ Serving' = Serving
  BY <1>1 DEF UpgradeInv, Typed, Serving
<1>3. Servers'
  BY <1>1, <1>2, NotPast DEF UpgradeInv, Servers
<1>4. Sane(ws, v, old, born)
  <2>1. ws.stamp \in 0..7 /\ ws.stamp <= code
    BY Latest DEF UpgradeInv, Typed, Folders, Sane
  <2>2. ws.stamp <= v
    BY <1>1, <2>1
  <2> QED BY <2>2 DEF UpgradeInv, Sane
<1>5. ASSUME NEW p \in Procs PROVE Fits(proc[p], ws, v, old, born)
  <2>1. /\ Fits(proc[p], ws, code, old, born) /\ proc[p] \in Process
        /\ proc[p].pc \in {"off", "serving"}
    BY <1>1 DEF UpgradeInv, Typed
  <2>2. proc[p].v \in 0..7
    BY <2>1, Latest DEF Process
  <2>3. proc[p].pc = "serving" => proc[p].v <= v
    BY <1>1, <2>1, <2>2 DEF Fits
  <2> QED BY <2>1, <2>3 DEF Fits, Newborn
<1> QED BY <1>1, <1>2, <1>3, <1>4, <1>5 DEF UpgradeInv, StepGood, Yours

LEMMA StepEdits == ASSUME UpgradeInv, Edits PROVE StepGood
<1>1. /\ UNCHANGED <<code, old, proc, born, pulls, kills>> /\ edited' = TRUE
      /\ ws' = [ws EXCEPT !.prompt.body = MINE, !.policy = "mine"]
      /\ ws.policy # "none" /\ ws \in Folders /\ MINE \in 0..LATEST + 2
  BY Latest DEF Edits, UpgradeInv, Typed, MINE
<1> DEFINE t == [ws.prompt EXCEPT !.body = MINE]
<1>2. t \in Text
  BY <1>1 DEF Folders, Text
<1>3. ws' = [ws EXCEPT !.prompt = t, !.policy = "mine"]
  BY <1>1 DEF Folders
<1> HIDE DEF t
<1>4. /\ ws' \in Folders /\ ws'.board = ws.board /\ ws'.pipes = ws.pipes /\ ws'.marks = ws.marks
      /\ ws'.cards = ws.cards /\ ws'.stamp = ws.stamp /\ ws'.versioned = ws.versioned
      /\ ws'.base = ws.base /\ ws'.policy = "mine" /\ ws'.prompt = t
  BY <1>1, <1>2, <1>3 DEF Folders
<1>5. ~Untold(ws) /\ \A D : Holds(ws', D) <=> Holds(ws, D)
  BY <1>1, <1>4 DEF Untold, Holds
<1>6. Typed' /\ Serving' = Serving
  BY <1>1, <1>4 DEF UpgradeInv, Typed, Serving
<1>7. Servers'
  BY <1>1, <1>6 DEF UpgradeInv, Servers
<1>8. Sane(ws', code, old, born)
  BY <1>4, <1>5 DEF UpgradeInv, Sane
<1>9. \A p \in Procs : Fits(proc[p], ws', code, old, born)
  <2> TAKE p \in Procs
  <2>1. Fits(proc[p], ws, code, old, born)
    BY DEF UpgradeInv
  <2> QED BY <1>4, <1>5, <2>1 DEF Fits
<1>10. Yours(ws, ws')
  <2>1. t.body = MINE
    BY <1>1 DEF t, Folders, Text
  <2> QED BY <1>4, <2>1 DEF Yours
<1> QED BY <1>1, <1>6, <1>7, <1>8, <1>9, <1>10 DEF UpgradeInv, StepGood

-----------------------------------------------------------------------------
(* The theorems *)

LEMMA UpgradeSteps == ASSUME UpgradeInv, Next PROVE StepGood
<1>1. ASSUME NEW p \in Procs, NEW cmd \in {"serve", "migrate", "ship"}, Start(p, cmd)
      PROVE  StepGood
  BY <1>1, StepStart
<1>2. ASSUME NEW p \in Procs, Migrates(p) PROVE StepGood
  <2>1. ASSUME NEW item \in Items, Adopt(p, item) PROVE StepGood
    BY <2>1, StepAdopt
  <2> QED BY <1>2, <2>1, StepProbe, StepEnsure, StepAdoptNothing, StepMoveAside,
             StepSettlePolicy, StepBornCurrent, StepBackup,
             StepApply, StepStamp, StepReconcile, StepSync, StepRebase, Zenon
          DEF Migrates, Items
<1>3. ASSUME NEW p \in Procs, Serves(p) PROVE StepGood
  BY <1>3, StepBind, StepServes, Zenon DEF Serves
<1>4. ASSUME NEW p \in Procs, Ships(p) PROVE StepGood
  BY <1>4, StepShips
<1>5. ASSUME NEW p \in Procs, Dies(p) PROVE StepGood
  BY <1>5, StepDies
<1>6. ASSUME NEW v \in Pulled, Pull(v) PROVE StepGood
  BY <1>6, StepPull
<1> QED BY <1>1, <1>2, <1>3, <1>4, <1>5, <1>6, StepEdits, Zenon DEF Next

LEMMA BuiltFolder ==
    ASSUME NEW v \in 0..7, NEW t \in Text
    PROVE  LET f == Built(v, t)
           IN  /\ f \in Folders /\ f.board /\ f.stamp = v /\ (~f.versioned => v = 0)
               /\ f.marks = Known(v) /\ f.cards = {"his"} /\ f.base.body # MINE
<1> DEFINE base == IF v > 0 THEN Default(v) ELSE NoFile
<1>1. base \in Text /\ base.body # MINE
  BY DefaultText, Latest DEF NoFile, Text, MINE
<1>2. Built(v, t) = [board |-> TRUE, pipes |-> TRUE, marks |-> Known(v), cards |-> {"his"},
                     stamp |-> v, versioned |-> v > 0, schema |-> v,
                     policy |-> IF v >= 2 THEN "default" ELSE "none", prompt |-> t, base |-> base]
  BY DEF Built
<1> HIDE DEF base
<1>3. Known(v) \subseteq Marks
  BY KnownMarks
<1>4. /\ v \in 0..LATEST /\ {"his"} \in SUBSET Cards /\ (v > 0) \in BOOLEAN
      /\ (IF v >= 2 THEN "default" ELSE "none") \in {"none", "default", "mine"}
  BY Latest DEF Cards
<1>5. /\ Built(v, t).board /\ Built(v, t).stamp = v /\ Built(v, t).versioned = (v > 0)
      /\ Built(v, t).marks = Known(v) /\ Built(v, t).cards = {"his"} /\ Built(v, t).base = base
  BY <1>2
<1>6. Built(v, t) \in Folders
  BY <1>1, <1>2, <1>3, <1>4 DEF Folders
<1>7. ~(v > 0) => v = 0
  OBVIOUS
<1>8. ~Built(v, t).versioned => v = 0
  BY <1>5, <1>7, Zenon
<1> QED BY <1>1, <1>5, <1>6, <1>8, Zenon

LEMMA UpgradeBegins == Init => UpgradeInv
<1> SUFFICES ASSUME Init PROVE UpgradeInv
  OBVIOUS
<1>1. /\ code \in Pulled /\ code \in 0..7 /\ old \in {"none", "data"}
      /\ pulls = 0 /\ kills = 0 /\ edited \in BOOLEAN
      /\ born = ws.cards \cup (IF old = "data" THEN {"old"} ELSE {})
      /\ proc = [p \in Procs |-> Off]
  BY UpgradeConstants, Latest DEF Init
<1>2. /\ Default(code) \in Text /\ Default(0) \in Text /\ Mine("stale") \in Text
      /\ Mine(Default(code).path) \in Text /\ NoFile \in Text
  <2>1. Default(code) \in Text /\ Default(0) \in Text
    BY <1>1, DefaultText
  <2> QED BY <2>1, Latest DEF Text, Mine, MINE, NoFile
<1>3. ws \in Folders /\ Sane(ws, code, old, born)
  <2>1. CASE ws = Nothing
    <3>1. /\ ws \in Folders /\ ws.stamp = 0 /\ ~ws.pipes /\ ws.cards = {} /\ ~ws.board
          /\ ~ws.versioned /\ ws.policy = "none" /\ ws.prompt = NoFile /\ ws.base = NoFile
      BY <1>2, <2>1, Latest DEF Nothing, Folders
    <3>2. NoFile.body # MINE
      BY Latest DEF NoFile, MINE
    <3> QED BY <1>1, <3>1, <3>2, HoldsNothing DEF Sane, Untold
  <2>2. ASSUME NEW t \in Text, ws = Built(code, t) PROVE ws \in Folders /\ Sane(ws, code, old, born)
    <3>1. /\ ws \in Folders /\ ws.board /\ ws.stamp = code /\ (~ws.versioned => code = 0)
          /\ ws.marks = Known(code) /\ ws.base.body # MINE
      BY <1>1, <2>2, BuiltFolder
    <3>2. Holds(ws, Known(code))
      BY <3>1, HoldsKnown
    <3> QED BY <1>1, <3>1, <3>2 DEF Sane
  <2>3. ASSUME NEW t \in Text, ws = [Built(0, t) EXCEPT !.marks = {}]
        PROVE  ws \in Folders /\ Sane(ws, code, old, born)
    <3>1. /\ ws \in Folders /\ ws.board /\ ws.stamp = 0 /\ ws.base.body # MINE
      BY <2>3, BuiltFolder DEF Folders
    <3> QED BY <1>1, <3>1, HoldsNothing DEF Sane
  <2> QED BY <1>2, <2>1, <2>2, <2>3 DEF Init
<1>4. \A p \in Procs : proc[p] = Off /\ Off \in Process /\ Off.pc = "off"
  BY <1>1, Latest DEF Off, Process, PCs
<1>5. Serving = {}
  BY <1>4 DEF Serving
<1>6. Typed
  BY <1>1, <1>3, <1>4 DEF Typed, Folders, Cards
<1>7. Servers
  BY <1>1, <1>4, <1>5 DEF Servers, Past, Later, Newborn
<1>8. \A p \in Procs : Fits(proc[p], ws, code, old, born)
  BY <1>4, FitsEasily
<1> QED BY <1>3, <1>6, <1>7, <1>8 DEF UpgradeInv

\* A step that does nothing.
LEMMA UpgradeStutters == ASSUME UpgradeInv, UNCHANGED vars PROVE StepGood
  BY DEF UpgradeInv, vars, Typed, Servers, Serving, StepGood, Yours

LEMMA UpgradeInvAlways == Spec => []UpgradeInv
<1>1. UpgradeInv /\ [Next]_vars => UpgradeInv'
  BY UpgradeSteps, UpgradeStutters DEF StepGood
<1> QED BY <1>1, UpgradeBegins, PTL DEF Spec

\* However many processes serve, migrate and ship over one folder, in whatever
\* order their writes fall and wherever one of them dies, the files have what
\* the folder's version says they have, and a board that serves has what its
\* release needs (migrations/__init__.py:8-14, update.py:109, __main__.py:155-158).
THEOREM NeverHalfMigratedAlways == Spec => []NeverHalfMigrated
<1>1. UpgradeInv => NeverHalfMigrated
  <2> SUFFICES ASSUME UpgradeInv PROVE NeverHalfMigrated
    OBVIOUS
  <2>1. Has(ws.stamp)
    BY DEF UpgradeInv, Sane, Holds, Has
  <2>2. ASSUME NEW p \in Serving PROVE Has(proc[p].v) /\ ws.board /\ ws.pipes
    <3>1. p \in Procs /\ proc[p].pc = "serving" /\ Fits(proc[p], ws, code, old, born)
      BY DEF Serving, UpgradeInv
    <3>2. Needs(proc[p]) = Known(proc[p].v)
      BY <3>1 DEF Needs
    <3> QED BY <3>1, <3>2 DEF Fits, Holds, Has
  <2> QED BY <2>1, <2>2 DEF NeverHalfMigrated
<1> QED BY <1>1, UpgradeInvAlways, PTL

\* A board that serves has every card somebody made, those of an old board that
\* lay inside the system folder included: none is stranded by an adoption that
\* was cut short or raced (workspace.py:163-170).
THEOREM AllCardsServedAlways == Spec => []AllCardsServed
<1>1. UpgradeInv => AllCardsServed
  BY DEF UpgradeInv, AllCardsServed, Serving, Fits
<1> QED BY <1>1, UpgradeInvAlways, PTL

\* A prompt and standing orders that the human wrote are never written over, by
\* any migration, merge, adoption or start (prompts.py:25, policy.py:60).
THEOREM YoursAreKept == Spec => YoursKept
<1>1. UpgradeInv /\ [Next]_vars => [/\ ws.prompt.body = MINE => ws'.prompt.body = MINE
                                    /\ ws.policy = "mine" => ws'.policy = "mine"]_vars
  BY UpgradeSteps, UpgradeStutters DEF StepGood, Yours
<1> QED BY <1>1, UpgradeInvAlways, PTL DEF Spec, YoursKept

=============================================================================
