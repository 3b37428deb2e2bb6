----------------------------- MODULE BoardProofs ------------------------------
(***************************************************************************)
(* Board implements CardLife, for any columns, cards, managers and bounds: *)
(* its first state is one of a life that has not begun, and each of its    *)
(* steps is a step of one card's life or none.  The argument is that the   *)
(* folders of a card are only ever moved or merged, never overwritten, and *)
(* that a worker or a turn belongs to a card that was born.                *)
(*                                                                         *)
(* And the folder tree mirrors the board, and cards are routed right: what *)
(* is kept, PlaceInv, says of every column, card, folder and turn where it *)
(* may be, also while the process is down with an operation half done; and *)
(* FilesInv, that the files of a card are where the board says its folder  *)
(* is or where the next start will look, unless the card is adrift.        *)
(***************************************************************************)
EXTENDS Board, FiniteSetTheorems, FunctionTheorems, WellFoundedInduction, TLAPS

Held(d) == UNION {d[x] : x \in DOMAIN d}

-----------------------------------------------------------------------------
(* The folder tree.                                                        *)

LEMMA MoveDirHolds ==
    ASSUME NEW d, NEW src \in DOMAIN d, NEW dst, src # dst
    PROVE  Held(MoveDir(d, src, dst)) = Held(d)
<1>1. CASE dst \notin DOMAIN d
  <2> DEFINE e == [x \in (DOMAIN d \ {src}) \cup {dst} |-> IF x = dst THEN d[src] ELSE d[x]]
  <2>1. MoveDir(d, src, dst) = e
    BY <1>1 DEF MoveDir
  <2>2. Held(e) = Held(d)
    BY <1>1 DEF Held
  <2> QED BY <2>1, <2>2
<1>2. CASE dst \in DOMAIN d
  <2> DEFINE both == d[src] \cap d[dst]
             keep == IF both = {} THEN DOMAIN d \ {src} ELSE DOMAIN d
             e == [x \in keep |-> CASE x = dst -> d[src] \cup d[dst]
                                    [] x = src -> both
                                    [] OTHER -> d[x]]
  <2>1. MoveDir(d, src, dst) = e
    BY <1>2 DEF MoveDir
  <2>2. DOMAIN e = keep /\ dst \in keep /\ e[dst] = d[src] \cup d[dst]
    BY <1>2
  <2>3. src \in keep => e[src] = both
    BY <2>2
  <2>4. \A x \in keep \ {src, dst} : e[x] = d[x]
    BY <2>2
  <2>5. keep \subseteq DOMAIN d /\ DOMAIN d \subseteq keep \cup {src}
    OBVIOUS
  <2>6. both \subseteq d[src]
    OBVIOUS
  <2> HIDE DEF e, keep, both
  <2>7. Held(e) \subseteq Held(d)
    BY <1>2, <2>2, <2>3, <2>4, <2>5, <2>6 DEF Held
  <2>8. Held(d) \subseteq Held(e)
    BY <1>2, <2>2, <2>3, <2>4, <2>5, <2>6 DEF Held
  <2> QED BY <2>1, <2>7, <2>8
<1> QED BY <1>1, <1>2

LEMMA MadeHolds == ASSUME NEW d, NEW x PROVE Held(Made(d, x)) = Held(d)
  BY DEF Held, Made, With

\* A card that is moved, renamed or brought home loses no file.
LEMMA FollowHolds ==
    ASSUME NEW d, NEW have, NEW want PROVE Held(Follow(d, have, want)) = Held(d)
  BY MoveDirHolds, MadeHolds DEF Follow

LEMMA CarriedHolds ==
    ASSUME NEW d, NEW old, NEW new PROVE Held(Carried(d, old, new)) = Held(d)
  BY MoveDirHolds DEF Carried

LEMMA PutHolds ==
    ASSUME NEW d, NEW x, NEW f PROVE Held(Put(d, x, f)) = Held(d) \cup {f}
<1> DEFINE m == Made(d, x)
<1>1. Held(m) = Held(d)
  BY MadeHolds
<1>2. x \in DOMAIN m
  BY DEF Made, With
<1> HIDE DEF m
<1>3. Held([m EXCEPT ![x] = @ \cup {f}]) = Held(m) \cup {f}
  BY <1>2 DEF Held
<1> QED BY <1>1, <1>3 DEF Put, m

-----------------------------------------------------------------------------
(* What the steps of a life rest on.                                       *)

CardFields == {"pipeline", "column", "kind", "trashed", "from", "dir", "owner",
               "planned", "free"}

Sound(rec) == DOMAIN rec = CardFields /\ rec.trashed \in BOOLEAN

\* Cards that were born, and who works on them.
Born == DOMAIN cards \cup gone

LifeInv ==
    /\ DOMAIN cards \subseteq Cards
    /\ DOMAIN cards \cap gone = {}
    /\ DOMAIN disk = Cards /\ DOMAIN turn = Cards /\ DOMAIN at = Cards
    /\ \A k \in DOMAIN cards : Sound(cards[k])
    /\ \A k \in Cards : at[k] # Nowhere \/ turn[k].pc # "idle" => k \in Born

LEMMA LifeBegins == Init => LifeInv
<1> SUFFICES ASSUME Init PROVE LifeInv
  OBVIOUS
<1>1. DOMAIN cards = {}
  BY DEF Init
<1> QED BY <1>1 DEF Init, LifeInv, Born, Idle, Nowhere

\* A step of the board in which every card stays what it was and keeps what it had.
Stays(k) == StageOf(k)' = StageOf(k) /\ Held(disk'[k]) = Held(disk[k])

LEMMA AllStay ==
    ASSUME \A k \in Cards : Stays(k)
    PROVE  UNCHANGED Life!vars
<1>1. [k \in Cards |-> StageOf(k)]' = [k \in Cards |-> StageOf(k)]
  BY DEF Stays
<1>2. [k \in Cards |-> UNION {disk[k][x] : x \in DOMAIN disk[k]}]'
        = [k \in Cards |-> UNION {disk[k][x] : x \in DOMAIN disk[k]}]
  BY DEF Stays, Held
<1> QED BY <1>1, <1>2 DEF Life!vars

\* A step in which one card goes from one stage to another, and keeps what it had.
LEMMA OneGoes ==
    ASSUME NEW k \in Cards, NEW from, NEW to,
           StageOf(k) = from, StageOf(k)' = to,
           \A j \in Cards \ {k} : StageOf(j)' = StageOf(j)
    PROVE  Life!Goes(k, from, to)
<1> DEFINE S == [j \in Cards |-> StageOf(j)]
<1>1. S' = [S EXCEPT ![k] = to]
  OBVIOUS
<1>2. S[k] = from
  OBVIOUS
<1> QED BY <1>1, <1>2 DEF Life!Goes

LEMMA AllKeep ==
    ASSUME \A k \in Cards : Held(disk'[k]) = Held(disk[k])
    PROVE  UNCHANGED [k \in Cards |-> UNION {disk[k][x] : x \in DOMAIN disk[k]}]
  BY DEF Held

LEMMA StageIs ==
    ASSUME LifeInv, NEW k \in Cards
    PROVE  /\ k \in gone => StageOf(k) = "gone"
           /\ k \in DOMAIN cards => StageOf(k) = IF cards[k].trashed THEN "trash" ELSE "board"
           /\ k \notin Born => StageOf(k) = "unborn"
  BY DEF LifeInv, StageOf, Born

Lives == Life!Next \/ UNCHANGED Life!vars

LEMMA Goes == ASSUME NEW k \in Cards,
                     Life!Born(k) \/ Life!Archive(k) \/ Life!Return(k)
              PROVE  Lives
  BY DEF Lives, Life!Next

\* A card is written to board.json, new or not, in the trash or out of it.
LEMMA CardSaved ==
    ASSUME LifeInv, NEW k \in Cards, NEW rec, Sound(rec), k \notin gone,
           k \notin DOMAIN cards => ~rec.trashed,
           cards' = With(cards, k, rec), UNCHANGED gone,
           \A j \in Cards : Held(disk'[j]) = Held(disk[j])
    PROVE  Lives
<1> DEFINE was == StageOf(k)
           is == IF rec.trashed THEN "trash" ELSE "board"
<1>1. DOMAIN cards' = DOMAIN cards \cup {k} /\ cards'[k] = rec
      /\ \A j \in DOMAIN cards \ {k} : cards'[j] = cards[j]
  BY DEF With
<1>2. \A j \in Cards \ {k} : StageOf(j)' = StageOf(j)
  BY <1>1 DEF StageOf
<1>3. StageOf(k)' = is
  BY <1>1 DEF StageOf
<1>4. UNCHANGED [j \in Cards |-> UNION {disk[j][x] : x \in DOMAIN disk[j]}]
  BY AllKeep
<1>5. \/ was = is
      \/ was = "unborn" /\ is = "board"
      \/ was = "board" /\ is = "trash"
      \/ was = "trash" /\ is = "board"
  BY StageIs DEF Born, Sound, LifeInv
<1> HIDE DEF was, is
<1>6. CASE was = is
  <2>1. \A j \in Cards : Stays(j)
    BY <1>2, <1>3, <1>6 DEF Stays, was
  <2> QED BY <2>1, AllStay DEF Lives
<1>7. CASE was = "unborn" /\ is = "board"
  <2>1. Life!Goes(k, "unborn", "board")
    BY <1>2, <1>3, <1>7, OneGoes DEF was
  <2> QED BY <1>4, <2>1, Goes DEF Life!Born
<1>8. CASE was = "board" /\ is = "trash"
  <2>1. Life!Goes(k, "board", "trash")
    BY <1>2, <1>3, <1>8, OneGoes DEF was
  <2> QED BY <1>4, <2>1, Goes DEF Life!Archive
<1>9. CASE was = "trash" /\ is = "board"
  <2>1. Life!Goes(k, "trash", "board")
    BY <1>2, <1>3, <1>9, OneGoes DEF was
  <2> QED BY <1>4, <2>1, Goes DEF Life!Return
<1> QED BY <1>5, <1>6, <1>7, <1>8, <1>9

\* A turn begins, goes on or ends on a card that there is, or is about to be.
TurnOk(tn, k) ==
    /\ DOMAIN tn = Cards
    /\ \A j \in Cards : tn[j].pc # "idle" => j \in Born \cup {k}

LEMMA SavedInv ==
    ASSUME LifeInv, NEW k \in Cards, NEW rec, Sound(rec), k \notin gone,
           cards' = With(cards, k, rec), UNCHANGED <<gone, at>>, TurnOk(turn', k),
           DOMAIN disk' = Cards
    PROVE  LifeInv'
<1>1. DOMAIN cards' = DOMAIN cards \cup {k} /\ cards'[k] = rec
      /\ \A j \in DOMAIN cards \ {k} : cards'[j] = cards[j]
  BY DEF With
<1> QED BY <1>1 DEF LifeInv, TurnOk, Born

\* The process dies: the folders may have moved, the board has not.
LEMMA DiesInv ==
    ASSUME LifeInv, Dies, DOMAIN disk' = Cards
    PROVE  LifeInv'
  BY DEF LifeInv, Dies, Born, Idle, Nowhere

LEMMA DiesLives ==
    ASSUME Dies, \A j \in Cards : Held(disk'[j]) = Held(disk[j])
    PROVE  Lives
<1>1. \A j \in Cards : Stays(j)
  BY DEF Dies, Stays, StageOf
<1> QED BY <1>1, AllStay DEF Lives

\* One folder moves, and the card is written, or the process dies between the two.
LEMMA PlacedLives ==
    ASSUME LifeInv, NEW k \in Cards, NEW rec, Sound(rec), k \notin gone,
           k \notin DOMAIN cards => ~rec.trashed,
           NEW tn, TurnOk(tn, k), NEW have, NEW want,
           disk' = [disk EXCEPT ![k] = Follow(@, have, want)],
           Recorded(With(cards, k, rec), tn)
    PROVE  LifeInv' /\ Lives
<1>1. DOMAIN disk' = Cards /\ \A j \in Cards : Held(disk'[j]) = Held(disk[j])
  BY FollowHolds DEF LifeInv
<1>2. CASE Dies
  BY <1>1, <1>2, DiesInv, DiesLives
<1>3. CASE Saved(With(cards, k, rec), chats, managers, gone, tn)
  BY <1>1, <1>3, CardSaved, SavedInv DEF Saved
<1> QED BY <1>2, <1>3 DEF Recorded, DiesAdrift

LEMMA SettleLives ==
    ASSUME LifeInv, NEW k \in Cards, NEW rec, Sound(rec), ~rec.trashed, k \notin gone,
           NEW tn, TurnOk(tn, k), Settle(k, rec, tn)
    PROVE  LifeInv' /\ Lives
<1> DEFINE home == HomeOf(rec, cols, slug)
           put == [rec EXCEPT !.dir = home]
<1>1. Sound(put) /\ ~put.trashed
  <2> HIDE DEF home
  <2> QED BY DEF Sound, CardFields
<1>2. /\ disk' = [disk EXCEPT ![k] = Follow(@, rec.dir, home)]
      /\ Recorded(With(cards, k, put), tn)
  BY DEF Settle
<1> HIDE DEF home, put
<1> QED BY <1>1, <1>2, PlacedLives

LEMMA AmendLives ==
    ASSUME LifeInv, NEW k \in Cards, NEW rec, Sound(rec), k \in DOMAIN cards,
           NEW tn, TurnOk(tn, k), Amend(k, rec, tn)
    PROVE  LifeInv' /\ Lives
<1>1. /\ cards' = With(cards, k, rec) /\ UNCHANGED <<gone, disk, at>> /\ turn' = tn
      /\ k \notin gone
  BY DEF Amend, Saved, LifeInv
<1> QED BY <1>1, CardSaved, SavedInv DEF LifeInv

\* What leaves the cards and the folders alone.
LEMMA IdleLives ==
    ASSUME LifeInv, UNCHANGED <<cards, disk, gone>>, DOMAIN turn' = Cards, DOMAIN at' = Cards,
           \A k \in Cards : at'[k] # Nowhere \/ turn'[k].pc # "idle" => k \in Born
    PROVE  LifeInv' /\ Lives
<1>1. \A j \in Cards : Stays(j)
  BY DEF Stays, StageOf
<1>2. LifeInv'
  BY DEF LifeInv, Born
<1> QED BY <1>1, <1>2, AllStay DEF Lives

-----------------------------------------------------------------------------
(* The steps of one card.                                                  *)

LEMMA SameTurn == ASSUME LifeInv, NEW k \in Cards PROVE TurnOk(turn, k)
  BY DEF LifeInv, TurnOk

LEMMA NextTurn == ASSUME LifeInv, NEW k \in Cards, NEW t PROVE TurnOk(To(k, t), k)
  BY DEF LifeInv, TurnOk, To

LEMMA PresentIs ==
    ASSUME LifeInv, NEW k, Present(k)
    PROVE  k \in DOMAIN cards /\ k \in Cards /\ k \notin gone /\ Sound(cards[k])
  BY DEF Present, LifeInv

LEMMA MovedSound ==
    ASSUME NEW rec, DOMAIN rec = CardFields, NEW c
    PROVE  Sound(Moved(rec, c)) /\ ~Moved(rec, c).trashed
<1> DEFINE p == PipelineOf(cols, c)
           kind == IF p = rec.pipeline THEN rec.kind ELSE KindForPipeline(p, rec.kind)
           planned == rec.planned \/ p \in ORIGIN_PIPELINES
<1>1. Moved(rec, c) = [rec EXCEPT !.kind = kind, !.pipeline = p, !.column = c,
                                  !.trashed = FALSE, !.from = NoColumn, !.planned = planned]
  BY DEF Moved
<1> HIDE DEF p, kind, planned
<1> QED BY <1>1 DEF Sound, CardFields

LEMMA MoveLives ==
    ASSUME LifeInv, NEW k, Present(k), NEW c, NEW tn, TurnOk(tn, k), MoveCard(k, c, tn)
    PROVE  LifeInv' /\ Lives
<1>1. Sound(Moved(cards[k], c)) /\ ~Moved(cards[k], c).trashed
  BY PresentIs, MovedSound DEF Sound
<1> QED BY <1>1, PresentIs, SettleLives DEF MoveCard

LEMMA PromoteLives ==
    ASSUME LifeInv, NEW k \in Cards, NEW tn, TurnOk(tn, k), PromoteToBuild(k, tn)
    PROVE  LifeInv' /\ Lives
  BY MoveLives DEF PromoteToBuild

LEMMA RouteLives ==
    ASSUME LifeInv, NEW k \in Cards, NEW p, NEW tn, TurnOk(tn, k), RouteCard(k, p, tn)
    PROVE  LifeInv' /\ Lives
  BY MoveLives DEF RouteCard

LEMMA AddLives ==
    ASSUME LifeInv, NEW k \in Cards, NEW p, NEW kind, NEW m, AddCard(k, p, kind, m)
    PROVE  LifeInv' /\ Lives
<1> DEFINE rec == Newborn(IF p \in ROUTABLE THEN p ELSE "backlog", kind,
                          IF m \in Range(managers) THEN m ELSE Head(managers))
           asked == [turn EXCEPT ![k] = [Idle EXCEPT !.pc = "asked", !.say = "triage"]]
           tn == IF rec.kind \in KINDS \/ ~mock THEN turn ELSE asked
<1>1. Settle(k, rec, tn) /\ k \notin gone
  BY DEF AddCard, Fresh
<1>2. Sound(rec) /\ ~rec.trashed
  BY DEF Newborn, Sound, CardFields
<1>3. TurnOk(tn, k)
  <2>1. TurnOk(turn, k)
    BY SameTurn
  <2>2. TurnOk(asked, k)
    BY NextTurn DEF To
  <2> HIDE DEF asked, rec
  <2> QED BY <2>1, <2>2
<1> HIDE DEF rec, tn
<1> QED BY <1>1, <1>2, <1>3, SettleLives

LEMMA PutInLives ==
    ASSUME LifeInv, NEW k \in Cards, NEW c, PutIn(k, c)
    PROVE  LifeInv' /\ Lives
<1> DEFINE rec == [Moved(cards[k], c) EXCEPT !.free = TRUE]
<1>1. Sound(Moved(cards[k], c)) /\ ~Moved(cards[k], c).trashed
  BY PresentIs, MovedSound DEF PutIn, Sound
<1>2. Sound(rec) /\ ~rec.trashed
  BY <1>1 DEF Sound, CardFields
<1>3. Settle(k, rec, turn) /\ k \notin gone
  BY PresentIs DEF PutIn
<1> HIDE DEF rec
<1> QED BY <1>2, <1>3, SameTurn, SettleLives

LEMMA BacklogLives ==
    ASSUME LifeInv, NEW k \in Cards, SendToBacklog(k)
    PROVE  LifeInv' /\ Lives
<1> DEFINE rec == [cards[k] EXCEPT !.pipeline = "backlog", !.column = NoColumn,
                                   !.trashed = FALSE, !.from = NoColumn]
<1>1. Settle(k, rec, turn) /\ k \notin gone /\ Sound(cards[k])
  BY PresentIs DEF SendToBacklog
<1>2. Sound(rec) /\ ~rec.trashed
  BY <1>1 DEF Sound, CardFields
<1> HIDE DEF rec
<1> QED BY <1>1, <1>2, SameTurn, SettleLives

LEMMA RestoreLives ==
    ASSUME LifeInv, NEW k \in Cards, RestoreCard(k)
    PROVE  LifeInv' /\ Lives
<1>1. Present(k) /\ Sound(cards[k]) /\ k \notin gone
  BY PresentIs DEF RestoreCard
<1>2. PICK p, c, kind :
          Settle(k, [cards[k] EXCEPT !.pipeline = p, !.column = c, !.kind = kind,
                                     !.trashed = FALSE, !.from = NoColumn], turn)
          \/ Settle(k, [cards[k] EXCEPT !.pipeline = p, !.column = c,
                                        !.trashed = FALSE, !.from = NoColumn], turn)
  BY Zenon DEF RestoreCard
<1> DEFINE rec1 == [cards[k] EXCEPT !.pipeline = p, !.column = c, !.kind = kind,
                                    !.trashed = FALSE, !.from = NoColumn]
           rec2 == [cards[k] EXCEPT !.pipeline = p, !.column = c,
                                    !.trashed = FALSE, !.from = NoColumn]
<1>3. Sound(rec1) /\ ~rec1.trashed /\ Sound(rec2) /\ ~rec2.trashed
  BY <1>1 DEF Sound, CardFields
<1>4. Settle(k, rec1, turn) \/ Settle(k, rec2, turn)
  BY <1>2
<1> HIDE DEF rec1, rec2
<1> QED BY <1>1, <1>3, <1>4, SameTurn, SettleLives

LEMMA FieldLives ==
    ASSUME LifeInv, NEW k \in Cards, NEW kind, NEW m, SetCardKind(k, kind) \/ AssignCard(k, m)
    PROVE  LifeInv' /\ Lives
<1>1. Present(k)
  BY DEF SetCardKind, AssignCard
<1>2. Sound([cards[k] EXCEPT !.kind = kind]) /\ Sound([cards[k] EXCEPT !.owner = m])
  BY <1>1, PresentIs DEF Sound, CardFields
<1> QED BY <1>1, <1>2, PresentIs, SameTurn, AmendLives DEF SetCardKind, AssignCard

LEMMA TrashLives ==
    ASSUME LifeInv, NEW k \in Cards, TrashCard(k)
    PROVE  LifeInv' /\ Lives
<1> DEFINE rec == [cards[k] EXCEPT !.from = cards[k].column, !.trashed = TRUE, !.dir = Trash]
<1>1. /\ Present(k)
      /\ disk' = [disk EXCEPT ![k] = Follow(@, cards[k].dir, Trash)]
      /\ Recorded(With(cards, k, rec), turn)
  BY DEF TrashCard
<1>2. Sound(rec)
  BY <1>1, PresentIs DEF Sound, CardFields
<1> HIDE DEF rec
<1> QED BY <1>1, <1>2, PresentIs, SameTurn, PlacedLives

\* The folder goes first and the card after it: a death in between leaves a card in the
\* trash with nothing to its name.
LEMMA PurgeLives ==
    ASSUME LifeInv, NEW k \in Cards, PurgeCard(k)
    PROVE  LifeInv' /\ Lives
<1> DEFINE K == [j \in Cards |-> UNION {disk[j][x] : x \in DOMAIN disk[j]}]
           d == Restrict(disk[k], DOMAIN disk[k] \ {cards[k].dir})
<1>1. k \in DOMAIN cards /\ cards[k].trashed /\ k \notin gone
  BY PresentIs DEF PurgeCard
<1>2. disk' = [disk EXCEPT ![k] = d]
  BY DEF PurgeCard
<1>3. Held(d) \subseteq Held(disk[k])
  BY DEF Restrict, Held
<1>4. StageOf(k) = "trash"
  BY <1>1, StageIs
<1>5. K' = [K EXCEPT ![k] = Held(d)] /\ Held(d) \in SUBSET K[k]
  <2> HIDE DEF d
  <2> QED BY <1>2, <1>3 DEF Held, LifeInv
<1>6. Life!Destroys(k)
  <2>1. [j \in Cards |-> StageOf(j)][k] = "trash"
    BY <1>4
  <2> QED BY <1>5, <2>1 DEF Life!Destroys
<1>7. DOMAIN disk' = Cards
  BY <1>2 DEF LifeInv
<1>8. CASE Dies
  <2>1. \A j \in Cards : StageOf(j)' = StageOf(j)
    BY <1>8 DEF Dies, StageOf
  <2>2. Life!Shred(k)
    BY <1>6, <2>1 DEF Life!Shred
  <2> QED BY <1>7, <1>8, <2>2, DiesInv DEF Lives, Life!Next
<1>9. CASE Saved(Restrict(cards, DOMAIN cards \ {k}), chats, managers, gone \cup {k}, turn)
  <2>1. /\ cards' = [j \in DOMAIN cards \ {k} |-> cards[j]]
        /\ gone' = gone \cup {k} /\ UNCHANGED <<turn, at>>
    BY <1>9 DEF Saved, Restrict
  <2>2. /\ DOMAIN cards' = DOMAIN cards \ {k}
        /\ \A j \in DOMAIN cards \ {k} : cards'[j] = cards[j]
    BY <2>1
  <2>3. StageOf(k)' = "gone" /\ \A j \in Cards \ {k} : StageOf(j)' = StageOf(j)
    BY <2>1, <2>2 DEF StageOf
  <2>4. Life!Goes(k, "trash", "gone")
    BY <1>4, <2>3, OneGoes
  <2>5. Life!Forget(k)
    BY <1>6, <2>4 DEF Life!Forget
  <2>6. LifeInv'
    BY <1>1, <1>7, <2>1, <2>2 DEF LifeInv, Born
  <2> QED BY <2>5, <2>6 DEF Lives, Life!Next
<1> QED BY <1>8, <1>9 DEF PurgeCard, Written

LEMMA CardLives ==
    ASSUME LifeInv, NEW k \in Cards, CardSteps(k)
    PROVE  LifeInv' /\ Lives
  BY AddLives, PutInLives, RouteLives, SameTurn, BacklogLives, TrashLives, RestoreLives,
     PurgeLives, FieldLives DEF CardSteps, Drag

-----------------------------------------------------------------------------
(* The agent, the workers and the mock manager.                            *)

\* A file lands where a worker was told to put it: the card was born, and has one more.
LEMMA LandsLives ==
    ASSUME LifeInv, NEW k \in Cards, k \in Born, NEW x, NEW f \in Files, Lands(k, x, f),
           UNCHANGED <<cards, gone>>
    PROVE  DOMAIN disk' = Cards /\ Lives
<1> DEFINE K == [j \in Cards |-> UNION {disk[j][y] : y \in DOMAIN disk[j]}]
           d == Put(disk[k], x, f)
<1>1. disk' = [disk EXCEPT ![k] = d]
  BY DEF Lands
<1>2. Held(d) = Held(disk[k]) \cup {f}
  BY PutHolds
<1> HIDE DEF d
<1>3. K' = [K EXCEPT ![k] = @ \cup {f}]
  <2>1. disk'[k] = d /\ \A j \in Cards \ {k} : disk'[j] = disk[j]
    BY <1>1 DEF LifeInv
  <2>2. K'[k] = Held(d) /\ K[k] = Held(disk[k])
    BY <2>1 DEF Held
  <2>3. \A j \in Cards \ {k} : K'[j] = K[j]
    BY <2>1
  <2>4. K' = [j \in Cards |-> K'[j]] /\ DOMAIN K = Cards
    OBVIOUS
  <2> HIDE DEF K
  <2> QED BY <1>2, <2>2, <2>3, <2>4
<1>4. \A j \in Cards : StageOf(j)' = StageOf(j)
  BY DEF StageOf
<1>5. [j \in Cards |-> StageOf(j)][k] # "unborn"
  BY StageIs DEF Born
<1>6. UNCHANGED [j \in Cards |-> StageOf(j)]
  BY <1>4
<1>7. Life!Filed(k, f)
  BY <1>3, <1>5, <1>6 DEF Life!Filed
<1> QED BY <1>1, <1>7 DEF Lives, Life!Next, LifeInv

LEMMA WriteLives ==
    ASSUME LifeInv, NEW k \in Cards, NEW f \in Files, WorkerWrites(k, f)
    PROVE  LifeInv' /\ Lives
<1>1. k \in Born
  BY DEF WorkerWrites, LifeInv
<1>2. DOMAIN disk' = Cards /\ Lives
  BY <1>1, LandsLives DEF WorkerWrites
<1> QED BY <1>2 DEF WorkerWrites, LifeInv, Born

LEMMA AgentLives ==
    ASSUME LifeInv, NEW k \in Cards, AgentSteps(k)
    PROVE  LifeInv' /\ Lives
<1>1. CASE MoveNext(k) \/ AgentPromotes(k) \/ \E c \in Columns : MoveWithin(k, c)
  BY <1>1, SameTurn, MoveLives, PromoteLives DEF MoveNext, AgentPromotes, MoveWithin, Busy
<1>2. CASE \E c \in Columns : ChatMoves(k, c)
  BY <1>2, PutInLives DEF ChatMoves
<1>3. CASE \E p \in PIPELINES, m \in Managers : ChatCreates(k, p, m)
  BY <1>3, AddLives DEF ChatCreates
<1>4. CASE \E kind \in KINDS : AgentTypes(k, kind)
  BY <1>4, FieldLives DEF AgentTypes
<1>5. CASE \E p \in PIPELINES : AgentRoutes(k, p)
  BY <1>5, SameTurn, RouteLives DEF AgentRoutes
<1>6. CASE Delegate(k)
  <2>1. k \in Born
    BY <1>6, PresentIs DEF Delegate, Busy, Born
  <2> QED BY <1>6, <2>1, IdleLives DEF Delegate, LifeInv
<1>7. CASE WorkerReports(k)
  BY <1>7, IdleLives DEF WorkerReports, LifeInv, Nowhere
<1>8. CASE \E f \in Files : WorkerWrites(k, f)
  BY <1>8, WriteLives
<1> QED BY <1>1, <1>2, <1>3, <1>4, <1>5, <1>6, <1>7, <1>8 DEF AgentSteps

LEMMA OnlyTurnLives ==
    ASSUME LifeInv, NEW k \in Cards, NEW tn, TurnOk(tn, k), k \in Born, OnlyTurn(tn)
    PROVE  LifeInv' /\ Lives
<1>1. \A j \in Cards : at'[j] # Nowhere \/ turn'[j].pc # "idle" => j \in Born
  BY DEF OnlyTurn, TurnOk, LifeInv
<1> QED BY <1>1, IdleLives DEF OnlyTurn, TurnOk, LifeInv

LEMMA HearsLives ==
    ASSUME LifeInv, NEW k \in Cards, NEW say, MockHears(k, say)
    PROVE  LifeInv' /\ Lives
<1> DEFINE route == [Idle EXCEPT !.pc = "route", !.say = say]
<1>1. Present(k) /\ k \in DOMAIN cards /\ k \in Born /\ Sound(cards[k])
  BY PresentIs DEF MockHears, Born
<1>2. TurnOk(To(k, route), k) /\ TurnOk(To(k, Walks), k) /\ TurnOk(To(k, Idle), k)
  BY NextTurn
<1>3. \/ OnlyTurn(To(k, route)) \/ OnlyTurn(To(k, Walks)) \/ OnlyTurn(To(k, Idle))
      \/ \E kind \in KINDS : Amend(k, [cards[k] EXCEPT !.kind = kind], To(k, route))
      \/ MoveCard(k, NextColumn(cards[k].column), To(k, Walks))
      \/ PromoteToBuild(k, To(k, Walks))
  BY Zenon DEF MockHears
<1> HIDE DEF route
<1>4. \A kind : Sound([cards[k] EXCEPT !.kind = kind])
  BY <1>1 DEF Sound, CardFields
<1>5. CASE \E kind \in KINDS : Amend(k, [cards[k] EXCEPT !.kind = kind], To(k, route))
  BY <1>1, <1>2, <1>4, <1>5, AmendLives
<1> QED BY <1>1, <1>2, <1>3, <1>5, OnlyTurnLives, MoveLives, PromoteLives

LEMMA MockLives ==
    ASSUME LifeInv, NEW k \in Cards, MockSteps(k)
    PROVE  LifeInv' /\ Lives
<1>0. turn[k].pc # "idle" => k \in Born
  BY DEF LifeInv
<1>1. CASE \E say \in Says : MockHears(k, say)
  BY <1>1, HearsLives
<1>2. CASE MockRoutes(k)
  <2>1. k \in Born /\ TurnOk(To(k, Idle), k)
    BY <1>0, <1>2, NextTurn DEF MockRoutes
  <2>2. OnlyTurn(To(k, Idle)) \/ \E p : RouteCard(k, p, To(k, Idle))
    BY <1>2, Zenon DEF MockRoutes
  <2> QED BY <2>1, <2>2, OnlyTurnLives, RouteLives
<1>3. CASE MockWorks(k)
  <2>1. k \in Born
    BY <1>0, <1>3 DEF MockWorks
  <2>2. \E t : OnlyTurn(To(k, t))
    BY <1>3, Zenon DEF MockWorks
  <2> QED BY <2>1, <2>2, NextTurn, OnlyTurnLives
<1>4. CASE MockJudges(k)
  <2>1. k \in Born /\ TurnOk(To(k, Idle), k) /\ TurnOk(To(k, Walks), k)
    BY <1>0, <1>4, NextTurn DEF MockJudges
  <2>2. \/ OnlyTurn(To(k, Idle))
        \/ k \in DOMAIN cards /\ up /\ MoveCard(k, NextColumn(turn[k].col), To(k, Walks))
    BY <1>4, Zenon DEF MockJudges
  <2> QED BY <2>1, <2>2, OnlyTurnLives, MoveLives DEF Present
<1>5. ASSUME NEW f \in Files, MockWrites(k, f) PROVE LifeInv' /\ Lives
  <2>1. k \in Born
    BY <1>0, <1>5 DEF MockWrites
  <2>2. DOMAIN disk' = Cards /\ Lives
    BY <1>5, <2>1, LandsLives DEF MockWrites
  <2>3. DOMAIN turn' = Cards /\ \A j \in Cards \ {k} : turn'[j] = turn[j]
    BY <1>5 DEF MockWrites, LifeInv
  <2> QED BY <1>5, <2>1, <2>2, <2>3 DEF MockWrites, LifeInv, Born
<1> QED BY <1>1, <1>2, <1>3, <1>4, <1>5 DEF MockSteps

-----------------------------------------------------------------------------
(* The columns, the managers and the process.                              *)

\* Every card stays in its stage, whatever else is written on it.
LEMMA AllLives ==
    ASSUME LifeInv, NEW cd, DOMAIN cd = DOMAIN cards, NEW ch, NEW mg,
           \A k \in DOMAIN cards : Sound(cd[k]) /\ cd[k].trashed = cards[k].trashed,
           Saved(cd, ch, mg, gone, turn) \/ Dies,
           DOMAIN disk' = Cards, \A k \in Cards : Held(disk'[k]) = Held(disk[k])
    PROVE  LifeInv' /\ Lives
<1>1. CASE Dies
  BY <1>1, DiesInv, DiesLives
<1>2. CASE Saved(cd, ch, mg, gone, turn)
  <2>1. cards' = cd /\ UNCHANGED <<gone, turn, at>>
    BY <1>2 DEF Saved
  <2>2. \A k \in Cards : StageOf(k)' = StageOf(k)
    BY <2>1 DEF StageOf
  <2>3. LifeInv'
    BY <2>1 DEF LifeInv, Born
  <2> QED BY <2>2, <2>3, AllStay DEF Lives, Stays
<1> QED BY <1>1, <1>2

LEMMA SameCards == LifeInv => \A k \in DOMAIN cards : Sound(cards[k])
  BY DEF LifeInv

LEMMA RenameLives ==
    ASSUME LifeInv, NEW c, NEW title, RenameColumn(c, title)
    PROVE  LifeInv' /\ Lives
<1> DEFINE old == KeyOf(cols, slug, c)
           new == KeyOf(cols, slug', c)
           in(k) == k \in DOMAIN cards /\ cards[k].column = c /\ ~cards[k].trashed
           moved == [k \in Cards |-> Carried(disk[k], old, new)]
           cd == [k \in DOMAIN cards |->
                     IF in(k) THEN [cards[k] EXCEPT !.dir = new] ELSE cards[k]]
<1>1. \/ /\ disk' = [k \in Cards |-> IF in(k) THEN Follow(moved[k], cards[k].dir, new)
                                     ELSE moved[k]]
         /\ Written(cd, ReKeyed(chats, old, new), managers, gone, turn)
      \/ Dies /\ UNCHANGED disk
  BY Zenon DEF RenameColumn
<1>2. CASE Dies /\ UNCHANGED disk
  BY <1>2, DiesInv, DiesLives DEF LifeInv
<1>3. CASE /\ disk' = [k \in Cards |-> IF in(k) THEN Follow(moved[k], cards[k].dir, new)
                                       ELSE moved[k]]
           /\ Written(cd, ReKeyed(chats, old, new), managers, gone, turn)
  <2> HIDE DEF old, new
  <2>1. \A k \in Cards : Held(moved[k]) = Held(disk[k])
    BY CarriedHolds
  <2> HIDE DEF moved, in
  <2>2. DOMAIN disk' = Cards /\ \A k \in Cards : Held(disk'[k]) = Held(disk[k])
    BY <1>3, <2>1, FollowHolds
  <2>3. DOMAIN cd = DOMAIN cards
        /\ \A k \in DOMAIN cards : Sound(cd[k]) /\ cd[k].trashed = cards[k].trashed
    BY SameCards DEF Sound, CardFields
  <2> HIDE DEF cd
  <2> QED BY <1>3, <2>2, <2>3, AllLives DEF Written
<1> QED BY <1>1, <1>2, <1>3

LEMMA DeleteLives ==
    ASSUME LifeInv, NEW c, DeleteColumn(c)
    PROVE  LifeInv' /\ Lives
<1> DEFINE stranded(k) == k \in DOMAIN cards /\ cards[k].column = c /\ ~cards[k].trashed
           p == PipelineOf(cols, c)
           i == Position(cols[p], c)
           fallback == cols[p][IF i > 1 THEN i - 1 ELSE i + 1]
           home == KeyOf(cols, slug, fallback)
           cd == [k \in DOMAIN cards |->
                     IF stranded(k) THEN [cards[k] EXCEPT !.column = fallback, !.dir = home]
                     ELSE cards[k]]
<1>1. /\ disk' = [k \in Cards |-> IF stranded(k) THEN Follow(disk[k], cards[k].dir, home)
                                  ELSE disk[k]]
      /\ Saved(cd, chats, managers, gone, turn) \/ Dies
  BY Zenon DEF DeleteColumn, Recorded, DiesAdrift
<1> HIDE DEF fallback, home
<1>2. DOMAIN cd = DOMAIN cards
      /\ \A k \in DOMAIN cards : Sound(cd[k]) /\ cd[k].trashed = cards[k].trashed
  <2> HIDE DEF stranded
  <2> QED BY SameCards DEF Sound, CardFields
<1> HIDE DEF stranded, cd
<1>3. DOMAIN disk' = Cards /\ \A k \in Cards : Held(disk'[k]) = Held(disk[k])
  BY <1>1, FollowHolds
<1> QED BY <1>1, <1>2, <1>3, AllLives, DiesInv, DiesLives

LEMMA ManagersLive ==
    ASSUME LifeInv, NEW m, AddManager(m) \/ RemoveManager(m)
    PROVE  LifeInv' /\ Lives
<1>1. CASE AddManager(m)
  BY <1>1, SameCards, AllLives DEF AddManager, LifeInv
<1>2. CASE RemoveManager(m)
  <2> DEFINE rest == RemoveAt(managers, Position(managers, m))
             cd == [k \in DOMAIN cards |->
                       IF cards[k].owner = m THEN [cards[k] EXCEPT !.owner = Head(rest)]
                       ELSE cards[k]]
  <2>1. Saved(cd, chats, rest, gone, turn) /\ UNCHANGED disk
    BY <1>2, Zenon DEF RemoveManager
  <2> HIDE DEF rest
  <2>2. DOMAIN cd = DOMAIN cards
        /\ \A k \in DOMAIN cards : Sound(cd[k]) /\ cd[k].trashed = cards[k].trashed
    BY SameCards DEF Sound, CardFields
  <2> HIDE DEF cd
  <2> QED BY <2>1, <2>2, AllLives DEF LifeInv
<1> QED BY <1>1, <1>2

LEMMA ColumnsLive ==
    ASSUME LifeInv, ColumnSteps
    PROVE  LifeInv' /\ Lives
<1>1. CASE \E m \in Managers : AddManager(m) \/ RemoveManager(m)
  BY <1>1, ManagersLive
<1>2. ASSUME NEW p, NEW t, NEW gate, AddColumn(p, t, gate) PROVE LifeInv' /\ Lives
  <2>1. UNCHANGED disk /\ (Written(cards, chats, managers, gone, turn) \/ Dies)
    BY <1>2 DEF AddColumn
  <2>2. CASE Dies
    BY <2>1, <2>2, DiesInv, DiesLives DEF LifeInv
  <2>3. CASE Written(cards, chats, managers, gone, turn)
    BY <2>1, <2>3, SameCards, AllLives DEF LifeInv, Written
  <2> QED BY <2>1, <2>2, <2>3
<1>3. CASE \E c \in Columns, t \in Titles : RenameColumn(c, t)
  BY <1>3, RenameLives
<1>4. ASSUME NEW c, NEW i, ReorderColumn(c, i) \/ SetColumnGate(c) PROVE LifeInv' /\ Lives
  BY <1>4, IdleLives DEF ReorderColumn, SetColumnGate, LifeInv
<1>5. CASE \E c \in Columns : DeleteColumn(c)
  BY <1>5, DeleteLives
<1>6. ASSUME NEW c, OpenWorkerChat(c) PROVE LifeInv' /\ Lives
  BY <1>6, SameCards, AllLives DEF OpenWorkerChat, LifeInv
<1> QED BY <1>1, <1>2, <1>3, <1>4, <1>5, <1>6 DEF ColumnSteps

\* What was saved before a death is brought home, file by file.
LEMMA BootLives ==
    ASSUME LifeInv, Boot
    PROVE  LifeInv' /\ Lives
<1> DEFINE lost(k) == ~cards[k].trashed /\ cards[k].pipeline # "backlog"
                         /\ cards[k].column \notin InUse(cols)
           placed == [k \in DOMAIN cards |->
                         IF lost(k) THEN [cards[k] EXCEPT !.pipeline = "backlog", !.column = NoColumn]
                         ELSE cards[k]]
           stays(k) == k \notin DOMAIN cards \/ placed[k].trashed
           home(k) == HomeOf(placed[k], cols, slug)
           cd == [k \in DOMAIN cards |-> IF stays(k) THEN placed[k]
                                         ELSE [placed[k] EXCEPT !.dir = home(k)]]
<1>1. /\ disk' = [k \in Cards |-> IF stays(k) THEN disk[k]
                                  ELSE Follow(disk[k], placed[k].dir, home(k))]
      /\ Dies \/ (cards' = cd /\ UNCHANGED <<gone, turn, at>>)
  BY Zenon DEF Boot
<1>2. DOMAIN placed = DOMAIN cards
      /\ \A k \in DOMAIN cards : Sound(placed[k]) /\ placed[k].trashed = cards[k].trashed
  <2> HIDE DEF lost
  <2> QED BY SameCards DEF Sound, CardFields
<1> HIDE DEF placed, home
<1>3. DOMAIN cd = DOMAIN cards
      /\ \A k \in DOMAIN cards : Sound(cd[k]) /\ cd[k].trashed = cards[k].trashed
  <2> HIDE DEF stays
  <2> QED BY <1>2 DEF Sound, CardFields
<1> HIDE DEF cd, stays
<1>4. DOMAIN disk' = Cards /\ \A k \in Cards : Held(disk'[k]) = Held(disk[k])
  BY <1>1, FollowHolds
<1>5. CASE Dies
  BY <1>4, <1>5, DiesInv, DiesLives
<1>6. CASE cards' = cd /\ UNCHANGED <<gone, turn, at>>
  <2>1. \A k \in Cards : StageOf(k)' = StageOf(k)
    BY <1>3, <1>6 DEF StageOf
  <2>2. LifeInv'
    BY <1>3, <1>4, <1>6 DEF LifeInv, Born
  <2> QED BY <1>4, <2>1, <2>2, AllStay DEF Lives, Stays
<1> QED BY <1>1, <1>5, <1>6

LEMMA NextLives ==
    ASSUME LifeInv, [Next]_vars
    PROVE  LifeInv' /\ Lives
<1>1. CASE \E k \in Cards : CardSteps(k) \/ AgentSteps(k) \/ MockSteps(k)
  BY <1>1, CardLives, AgentLives, MockLives
<1>2. CASE ColumnSteps
  BY <1>2, ColumnsLive
<1>3. CASE Killed
  BY <1>3, DiesInv, DiesLives DEF Killed, LifeInv
<1>4. CASE Boot
  BY <1>4, BootLives
<1>5. CASE UNCHANGED vars
  BY <1>5, IdleLives DEF vars, LifeInv
<1> QED BY <1>1, <1>2, <1>3, <1>4, <1>5 DEF Next

\* The board implements the life of a card: whatever is dragged, renamed, deleted or
\* merged and wherever the process dies, no card is born twice or leaves for good from
\* anywhere but the trash, and no file of a card is lost before it is purged.
THEOREM BoardImplementsLife == Spec => LivesItsLife
<1>1. Init => LifeInv
  BY LifeBegins
<1>2. Init => Life!Init
  <2> SUFFICES ASSUME Init PROVE Life!Init
    OBVIOUS
  <2>1. \A k \in Cards : StageOf(k) = "unborn" /\ Held(disk[k]) = {}
    BY DEF Init, StageOf, Held
  <2> QED BY <2>1 DEF Life!Init, Held
<1>3. LifeInv /\ [Next]_vars => LifeInv' /\ [Life!Next]_(Life!vars)
  BY NextLives DEF Lives
<1> QED BY <1>1, <1>2, <1>3, PTL DEF Spec, LivesItsLife, Life!Spec

-----------------------------------------------------------------------------
(* Sequences whose elements differ, as columns of a pipeline do.           *)

Distinct(s) == \A i, j \in DOMAIN s : s[i] = s[j] => i = j

LEMMA RangeIs == ASSUME NEW S, NEW s \in Seq(S)
                 PROVE  /\ DOMAIN s = 1..Len(s) /\ Len(s) \in Nat
                        /\ \A x : x \in Range(s) <=> \E i \in 1..Len(s) : s[i] = x
                        /\ Range(s) \subseteq S
  BY DEF Range

LEMMA HeadIn == ASSUME NEW S, NEW s \in Seq(S), s # <<>>
                PROVE  Head(s) \in Range(s) /\ Head(s) \in S
<1>1. Len(s) > 0 /\ Len(s) \in Nat /\ Head(s) = s[1]
  OBVIOUS
<1> QED BY <1>1, RangeIs

LEMMA PositionIs ==
    ASSUME NEW s, NEW c \in Range(s)
    PROVE  Position(s, c) \in DOMAIN s /\ s[Position(s, c)] = c
<1>1. \E i \in DOMAIN s : s[i] = c
  BY DEF Range
<1> QED BY <1>1, Zenon DEF Position

LEMMA RemovedAt ==
    ASSUME NEW S, NEW s \in Seq(S), NEW i \in 1..Len(s)
    PROVE  /\ RemoveAt(s, i) \in Seq(S) /\ Len(RemoveAt(s, i)) = Len(s) - 1
           /\ \A j \in 1..(Len(s) - 1) :
                 RemoveAt(s, i)[j] = IF j < i THEN s[j] ELSE s[j + 1]
<1> DEFINE a == SubSeq(s, 1, i - 1)  b == SubSeq(s, i + 1, Len(s))
<1>0. Len(s) \in Nat /\ DOMAIN s = 1..Len(s) /\ i \in Nat
  OBVIOUS
<1>1. a \in Seq(S) /\ Len(a) = i - 1 /\ \A j \in 1..(i - 1) : a[j] = s[j]
  BY <1>0
<1>2. b \in Seq(S) /\ Len(b) = Len(s) - i /\ \A j \in 1..(Len(s) - i) : b[j] = s[i + j]
  <2>1. i + 1 \in Nat /\ i + 1 >= 1 /\ \A j \in (i + 1)..Len(s) : s[j] \in S
    BY <1>0
  <2>2. b = [j \in 1..(Len(s) - i) |-> s[i + j]]
    BY <1>0, <2>1
  <2>3. \A j \in 1..(Len(s) - i) : s[i + j] \in S
    BY <1>0, <2>1
  <2>4. Len(s) - i \in Nat
    BY <1>0
  <2> HIDE DEF b
  <2> QED BY <2>2, <2>3, <2>4
<1>3. RemoveAt(s, i) = a \o b
  BY DEF RemoveAt
<1> HIDE DEF a, b
<1>4. a \o b \in Seq(S) /\ Len(a \o b) = Len(s) - 1
  <2>0. a \in Seq(S) /\ b \in Seq(S)
    BY <1>1, <1>2
  <2>1. a \o b \in Seq(S) /\ Len(a \o b) = Len(a) + Len(b)
    BY <2>0
  <2> QED BY <1>0, <1>1, <1>2, <2>1
<1>5. ASSUME NEW j \in 1..(Len(s) - 1) PROVE (a \o b)[j] = IF j < i THEN s[j] ELSE s[j + 1]
  <2>1. CASE j < i
    BY <1>0, <1>1, <1>2, <2>1
  <2>2. CASE ~(j < i)
    <3>1. (a \o b)[j] = b[j - (i - 1)]
      BY <1>0, <1>1, <1>2, <2>2
    <3>2. j - (i - 1) \in 1..(Len(s) - i) /\ i + (j - (i - 1)) = j + 1
      BY <1>0, <2>2
    <3> QED BY <1>2, <2>2, <3>1, <3>2
  <2> QED BY <2>1, <2>2
<1> QED BY <1>3, <1>4, <1>5

LEMMA InsertedAt ==
    ASSUME NEW S, NEW s \in Seq(S), NEW i \in 1..(Len(s) + 1), NEW e \in S
    PROVE  /\ InsertAt(s, i, e) \in Seq(S) /\ Len(InsertAt(s, i, e)) = Len(s) + 1
           /\ \A j \in 1..(Len(s) + 1) :
                 InsertAt(s, i, e)[j] = IF j < i THEN s[j] ELSE IF j = i THEN e ELSE s[j - 1]
<1> DEFINE a == SubSeq(s, 1, i - 1)  b == SubSeq(s, i, Len(s))  c == a \o <<e>>
<1>0. Len(s) \in Nat /\ DOMAIN s = 1..Len(s) /\ i \in Nat
  OBVIOUS
<1>1. a \in Seq(S) /\ Len(a) = i - 1 /\ \A j \in 1..(i - 1) : a[j] = s[j]
  BY <1>0
<1>2. b \in Seq(S) /\ Len(b) = Len(s) + 1 - i
      /\ \A j \in 1..(Len(s) + 1 - i) : b[j] = s[i + j - 1]
  BY <1>0
<1>3. InsertAt(s, i, e) = c \o b
  BY DEF InsertAt
<1> HIDE DEF a, b
<1>4. c \in Seq(S) /\ Len(c) = i /\ c[i] = e /\ \A j \in 1..(i - 1) : c[j] = s[j]
  BY <1>0, <1>1
<1> HIDE DEF c
<1>5. c \o b \in Seq(S) /\ Len(c \o b) = Len(s) + 1
  BY <1>0, <1>2, <1>4
<1>6. ASSUME NEW j \in 1..(Len(s) + 1)
      PROVE  (c \o b)[j] = IF j < i THEN s[j] ELSE IF j = i THEN e ELSE s[j - 1]
  <2>1. CASE j <= i
    BY <1>0, <1>2, <1>4, <2>1
  <2>2. CASE ~(j <= i)
    <3>1. (c \o b)[j] = b[j - i]
      BY <1>0, <1>2, <1>4, <2>2
    <3>2. j - i \in 1..(Len(s) + 1 - i) /\ i + (j - i) - 1 = j - 1
      BY <1>0, <2>2
    <3> QED BY <1>2, <2>2, <3>1, <3>2
  <2> QED BY <2>1, <2>2
<1> QED BY <1>3, <1>5, <1>6

\* Without one of its elements a sequence keeps the others, and their order.
LEMMA Removed ==
    ASSUME NEW S, NEW s \in Seq(S), NEW c \in Range(s)
    PROVE  LET r == RemoveAt(s, Position(s, c)) IN
           /\ r \in Seq(S) /\ Len(r) = Len(s) - 1
           /\ Range(r) \subseteq Range(s) /\ Range(s) \ {c} \subseteq Range(r)
           /\ Distinct(s) => Distinct(r) /\ c \notin Range(r)
<1> DEFINE i == Position(s, c)  r == RemoveAt(s, i)
<1>1. i \in 1..Len(s) /\ s[i] = c /\ Len(s) \in Nat /\ DOMAIN s = 1..Len(s)
  BY PositionIs, RangeIs
<1> HIDE DEF i
<1>2. /\ r \in Seq(S) /\ Len(r) = Len(s) - 1
      /\ \A j \in 1..(Len(s) - 1) : r[j] = IF j < i THEN s[j] ELSE s[j + 1]
  BY <1>1, RemovedAt
<1> HIDE DEF r
<1>3. DOMAIN r = 1..(Len(s) - 1)
  BY <1>1, <1>2
<1>4. ASSUME NEW j \in 1..(Len(s) - 1)
      PROVE  \E m \in 1..Len(s) : m # i /\ r[j] = s[m] /\ (m = j \/ m = j + 1)
                                  /\ (m = j <=> j < i)
  <2>1. CASE j < i
    <3>1. j \in 1..Len(s) /\ j # i /\ r[j] = s[j]
      BY <1>1, <1>2, <2>1
    <3> QED BY <2>1, <3>1
  <2>2. CASE ~(j < i)
    <3>1. j + 1 \in 1..Len(s) /\ j + 1 # i /\ r[j] = s[j + 1]
      BY <1>1, <1>2, <2>2
    <3> QED BY <2>2, <3>1
  <2> QED BY <2>1, <2>2
<1>5. ASSUME NEW m \in 1..Len(s), m # i
      PROVE  \E j \in 1..(Len(s) - 1) : r[j] = s[m]
  <2>1. CASE m < i
    <3>1. m \in 1..(Len(s) - 1) /\ r[m] = s[m]
      BY <1>1, <1>2, <2>1
    <3> QED BY <3>1
  <2>2. CASE ~(m < i)
    <3> DEFINE n == m - 1
    <3>1. n \in 1..(Len(s) - 1) /\ ~(n < i) /\ n + 1 = m
      BY <1>1, <1>5, <2>2
    <3> QED BY <1>2, <3>1
  <2> QED BY <2>1, <2>2
<1>6. Range(r) \subseteq Range(s)
  BY <1>1, <1>3, <1>4 DEF Range
<1>7. Range(s) \ {c} \subseteq Range(r)
  BY <1>1, <1>3, <1>5 DEF Range
<1>8. ASSUME Distinct(s) PROVE Distinct(r) /\ c \notin Range(r)
  <2>1. c \notin Range(r)
    BY <1>1, <1>3, <1>4, <1>8 DEF Range, Distinct
  <2>2. ASSUME NEW j \in 1..(Len(s) - 1), NEW k \in 1..(Len(s) - 1), r[j] = r[k] PROVE j = k
    <3>1. PICK m \in 1..Len(s) : m # i /\ r[j] = s[m] /\ (m = j \/ m = j + 1) /\ (m = j <=> j < i)
      BY <1>4
    <3>2. PICK n \in 1..Len(s) : n # i /\ r[k] = s[n] /\ (n = k \/ n = k + 1) /\ (n = k <=> k < i)
      BY <1>4
    <3>3. m = n
      BY <1>1, <1>8, <2>2, <3>1, <3>2 DEF Distinct
    <3> QED BY <1>1, <3>1, <3>2, <3>3
  <2> QED BY <1>3, <2>1, <2>2 DEF Distinct
<1> QED BY <1>2, <1>6, <1>7, <1>8 DEF r, i

LEMMA Inserted ==
    ASSUME NEW S, NEW s \in Seq(S), NEW i \in 1..(Len(s) + 1), NEW e \in S, e \notin Range(s)
    PROVE  LET r == InsertAt(s, i, e) IN
           /\ r \in Seq(S) /\ Len(r) = Len(s) + 1 /\ Range(r) = Range(s) \cup {e}
           /\ Distinct(s) => Distinct(r)
<1>0. /\ InsertAt(s, i, e) \in Seq(S) /\ Len(InsertAt(s, i, e)) = Len(s) + 1
      /\ \A j \in 1..(Len(s) + 1) :
            InsertAt(s, i, e)[j] = IF j < i THEN s[j] ELSE IF j = i THEN e ELSE s[j - 1]
  BY InsertedAt
<1> DEFINE r == InsertAt(s, i, e)
<1>1. Len(s) \in Nat /\ DOMAIN s = 1..Len(s) /\ i \in Nat
  OBVIOUS
<1>2. /\ r \in Seq(S) /\ Len(r) = Len(s) + 1
      /\ \A j \in 1..(Len(s) + 1) : r[j] = IF j < i THEN s[j] ELSE IF j = i THEN e ELSE s[j - 1]
  BY <1>0
<1> HIDE DEF r
<1>3. DOMAIN r = 1..(Len(s) + 1)
  BY <1>1, <1>2
<1>4. ASSUME NEW j \in 1..(Len(s) + 1), j # i
      PROVE  \E m \in 1..Len(s) : r[j] = s[m] /\ (m = j \/ m = j - 1) /\ (m = j <=> j < i)
  <2>1. CASE j < i
    <3>1. j \in 1..Len(s) /\ r[j] = s[j]
      BY <1>1, <1>2, <2>1
    <3> QED BY <2>1, <3>1
  <2>2. CASE ~(j < i)
    <3>1. j - 1 \in 1..Len(s) /\ r[j] = s[j - 1] /\ j - 1 # j
      BY <1>1, <1>2, <1>4, <2>2
    <3> QED BY <2>2, <3>1
  <2> QED BY <2>1, <2>2
<1>5. i \in 1..(Len(s) + 1) /\ r[i] = e
  BY <1>1, <1>2
<1>6. ASSUME NEW m \in 1..Len(s) PROVE \E j \in 1..(Len(s) + 1) : r[j] = s[m]
  <2>1. CASE m < i
    <3>1. m \in 1..(Len(s) + 1) /\ r[m] = s[m]
      BY <1>1, <1>2, <2>1
    <3> QED BY <3>1
  <2>2. CASE ~(m < i)
    <3> DEFINE n == m + 1
    <3>1. n \in 1..(Len(s) + 1) /\ ~(n < i) /\ n # i /\ n - 1 = m
      BY <1>1, <2>2
    <3> QED BY <1>2, <3>1
  <2> QED BY <2>1, <2>2
<1>7. Range(r) \subseteq Range(s) \cup {e}
  BY <1>1, <1>3, <1>4, <1>5 DEF Range
<1>8. Range(s) \cup {e} \subseteq Range(r)
  BY <1>1, <1>3, <1>5, <1>6 DEF Range
<1>9. ASSUME Distinct(s) PROVE Distinct(r)
  <2>1. ASSUME NEW j \in 1..(Len(s) + 1), NEW k \in 1..(Len(s) + 1), r[j] = r[k], j # i, k # i
        PROVE  j = k
    <3>1. PICK m \in 1..Len(s) : r[j] = s[m] /\ (m = j \/ m = j - 1) /\ (m = j <=> j < i)
      BY <1>4, <2>1
    <3>2. PICK n \in 1..Len(s) : r[k] = s[n] /\ (n = k \/ n = k - 1) /\ (n = k <=> k < i)
      BY <1>4, <2>1
    <3>3. m = n
      BY <1>1, <1>9, <2>1, <3>1, <3>2 DEF Distinct
    <3> QED BY <1>1, <2>1, <3>1, <3>2, <3>3
  <2>2. ASSUME NEW j \in 1..(Len(s) + 1), j # i PROVE r[j] # e
    BY <1>1, <1>4, <2>2 DEF Range
  <2> QED BY <1>3, <1>5, <2>1, <2>2 DEF Distinct
<1> QED BY <1>2, <1>7, <1>8, <1>9 DEF r

LEMMA AppendedTo ==
    ASSUME NEW S, NEW s \in Seq(S), NEW e \in S, e \notin Range(s), Distinct(s)
    PROVE  /\ Append(s, e) \in Seq(S) /\ Append(s, e) # <<>>
           /\ Range(Append(s, e)) = Range(s) \cup {e} /\ Distinct(Append(s, e))
<1> DEFINE r == Append(s, e)  n == Len(s) + 1
<1>1. r \in Seq(S) /\ r # <<>> /\ Len(s) \in Nat /\ n \in Nat
      /\ DOMAIN s = 1..Len(s) /\ DOMAIN r = 1..n
      /\ r[n] = e /\ \A i \in 1..Len(s) : r[i] = s[i]
  OBVIOUS
<1>2. 1..n = (1..Len(s)) \cup {n}
  BY <1>1
<1> HIDE DEF r, n
<1>3. Range(r) = Range(s) \cup {e}
  <2>1. Range(s) \cup {e} \subseteq Range(r)
    BY <1>1, <1>2 DEF Range
  <2>2. Range(r) \subseteq Range(s) \cup {e}
    BY <1>1, <1>2 DEF Range
  <2> QED BY <2>1, <2>2
<1>4. Distinct(r)
  BY <1>1, <1>2 DEF Range, Distinct
<1> QED BY <1>1, <1>3, <1>4 DEF r

-----------------------------------------------------------------------------
(* Where everything is.                                                    *)

Places == PIPELINES \cup {"backlog"}

\* A column that is, or was, in the configuration: its slug is never unset.
Named(c, sl) == c \in Columns /\ sl[c] # NoSlug

\* Each column is once in one pipeline, none is left without a column, and no
\* two of a pipeline have one name on the disk.
ColumnsOk(cl, sl) ==
    /\ cl \in [PIPELINES -> Seq(Columns)]
    /\ \A p \in PIPELINES : cl[p] # <<>>
    /\ \A p \in PIPELINES : Distinct(cl[p])
    /\ \A p, q \in PIPELINES : p # q => Range(cl[p]) \cap Range(cl[q]) = {}
    /\ sl \in [Columns -> (Titles \X Nat) \cup {NoSlug}]
    /\ \A c \in InUse(cl) : sl[c] # NoSlug
    /\ \A p \in PIPELINES : \A c, d \in Range(cl[p]) : sl[c] = sl[d] => c = d

ManagersOk(mg) == mg \in Seq(Managers) /\ mg # <<>>

\* What a card says of a column: there was one, and if there still is, it is
\* one of the card's own pipeline.
Known(c, p, cl, sl) ==
    c = NoColumn \/ (Named(c, sl) /\ (c \in InUse(cl) => p \in PIPELINES /\ c \in Range(cl[p])))

\* A card may be in pipeline p: it was typed, and for the build planned, or a
\* call that asks nothing has put it somewhere.
Rights(r, p) ==
    r.free \/ /\ p # "backlog" => r.kind \in KINDS
              /\ p \in ORIGIN_PIPELINES \cup {"build"} => r.planned

\* A card that is not in the trash is somewhere, at the latest when the board is up.
Somewhere(r, cl, u) ==
    \/ r.pipeline = "backlog" /\ r.column = NoColumn
    \/ r.pipeline \in PIPELINES /\ r.column \in Range(cl[r.pipeline])
    \/ ~u /\ r.pipeline # "backlog" /\ r.column \notin InUse(cl)

CardOk(r, cl, sl, mg, u) ==
    /\ Sound(r) /\ r.pipeline \in Places
    /\ Known(r.column, r.pipeline, cl, sl) /\ Known(r.from, r.pipeline, cl, sl)
    /\ Rights(r, r.pipeline)
    /\ r.owner \in Range(mg)
    /\ IF r.trashed THEN r.dir = Trash ELSE r.from = NoColumn /\ Somewhere(r, cl, u)

\* Its folder is where it is.
Housed(r, d, cl, sl) == r.trashed \/ (r.dir = HomeOf(r, cl, sl) /\ r.dir \in DOMAIN d)

\* What the mock manager has in hand: a column, and a card that may be there.
TurnFits(t, sl) == t.col = NoColumn \/ Named(t.col, sl)
Entitled(r, t, cl) ==
    \A p \in PIPELINES : t.pc \in {"work", "judge"} /\ t.col \in Range(cl[p]) => Rights(r, p)

PlaceInv ==
    /\ ColumnsOk(cols, slug) /\ ManagersOk(managers)
    /\ \A k \in DOMAIN cards :
          /\ CardOk(cards[k], cols, slug, managers, up)
          /\ up => Housed(cards[k], disk[k], cols, slug)
          /\ Entitled(cards[k], turn[k], cols)
    /\ \A k \in Cards : TurnFits(turn[k], slug)

-----------------------------------------------------------------------------
(* Columns and their names on the disk.                                    *)

LEMMA Smallest ==
    ASSUME NEW T \in SUBSET Nat, T # {}
    PROVE  \E x \in T : \A y \in T : x <= y
<1>1. PICK x \in T : \A y \in T : ~(<<y, x>> \in OpToRel(<, Nat))
  BY NatLessThanWellFounded, WFMin
<1>2. \A y \in T : ~(y < x)
  BY <1>1 DEF OpToRel
<1> QED BY <1>2

\* A column's name on the disk is one that no other of its pipeline has: there
\* are more numbers to try than there are columns.
LEMMA SlugIsFree ==
    ASSUME NEW cl, NEW sl, ColumnsOk(cl, sl), NEW p \in PIPELINES, NEW title \in Titles, NEW c
    PROVE  /\ UniqueSlug(cl, sl, p, title, c) \in Titles \X Nat
           /\ \A d \in Range(cl[p]) \ {c} : sl[d] # UniqueSlug(cl, sl, p, title, c)
<1> DEFINE taken == {sl[d] : d \in Range(cl[p]) \ {c}}
           N == Cardinality(Columns) + 1
           free == {n \in 1..N : <<title, n>> \notin taken}
<1>1. IsFiniteSet(Columns) /\ Cardinality(Columns) \in Nat /\ N \in Nat
  BY ConstantsOK, FS_CardinalityType
<1>2. free # {}
  <2> SUFFICES ASSUME free = {} PROVE FALSE
    OBVIOUS
  <2> DEFINE f == [n \in 1..N |-> CHOOSE d \in Columns : sl[d] = <<title, n>>]
  <2>0. Range(cl[p]) \subseteq Columns /\ \A n \in 1..N : <<title, n>> \in taken
    BY RangeIs DEF ColumnsOk
  <2>1. \A n \in 1..N : \E d \in Columns : sl[d] = <<title, n>>
    BY <2>0, Zenon
  <2>2. \A n \in 1..N : f[n] \in Columns /\ sl[f[n]] = <<title, n>>
    BY <2>1
  <2>3. f \in [1..N -> Columns]
    BY <2>2
  <2> HIDE DEF f
  <2>4. IsFiniteSet(1..N) /\ Cardinality(1..N) = N
    BY <1>1, FS_Interval
  <2> HIDE DEF N
  <2>5. Cardinality(Columns) < Cardinality(1..N)
    BY <1>1, <2>4 DEF N
  <2>6. PICK x, y \in 1..N : x # y /\ f[x] = f[y]
    BY <1>1, <2>3, <2>4, <2>5, FS_PigeonHole
  <2>7. <<title, x>> = <<title, y>>
    BY <2>2, <2>6
  <2> QED BY <2>6, <2>7
<1>3. free \in SUBSET Nat
  BY <1>1
<1> DEFINE least(n) == n \in free /\ \A m \in free : n <= m
<1>4. \E n : least(n)
  BY <1>2, <1>3, Smallest
<1> DEFINE n == CHOOSE n \in free : \A m \in free : n <= m
<1>5. n \in free
  BY <1>4
<1>6. UniqueSlug(cl, sl, p, title, c) = <<title, n>>
  BY DEF UniqueSlug
<1> HIDE DEF n
<1>7. n \in Nat /\ <<title, n>> \notin taken
  BY <1>3, <1>5
<1> QED BY <1>6, <1>7

LEMMA PipelineIs ==
    ASSUME NEW cl, NEW sl, ColumnsOk(cl, sl), NEW p \in PIPELINES, NEW c \in Range(cl[p])
    PROVE  PipelineOf(cl, c) = p /\ c \in Columns /\ c \in InUse(cl)
<1>1. \A q \in PIPELINES : c \in Range(cl[q]) => q = p
  BY DEF ColumnsOk
<1>2. c \in Columns
  BY RangeIs DEF ColumnsOk
<1> QED BY <1>1, <1>2 DEF PipelineOf, InUse

LEMMA InUseIs ==
    ASSUME NEW cl, NEW sl, ColumnsOk(cl, sl), NEW c \in InUse(cl)
    PROVE  /\ PipelineOf(cl, c) \in PIPELINES /\ c \in Range(cl[PipelineOf(cl, c)])
           /\ c \in Columns /\ sl[c] # NoSlug
<1>1. PICK p \in PIPELINES : c \in Range(cl[p])
  BY DEF InUse
<1>2. sl[c] # NoSlug
  BY DEF ColumnsOk
<1> QED BY <1>1, <1>2, PipelineIs

LEMMA FirstColumn ==
    ASSUME NEW cl, NEW sl, ColumnsOk(cl, sl), NEW p \in PIPELINES
    PROVE  Head(cl[p]) \in Range(cl[p])
<1>1. cl[p] \in Seq(Columns) /\ cl[p] # <<>>
  BY DEF ColumnsOk
<1> QED BY <1>1, HeadIn

LEMMA NextIs ==
    ASSUME ColumnsOk(cols, slug), NEW c, NextColumn(c) # NoColumn
    PROVE  /\ c \in InUse(cols) /\ PipelineOf(cols, c) \in PIPELINES
           /\ NextColumn(c) \in Range(cols[PipelineOf(cols, c)])
<1>1. c \in InUse(cols)
  BY DEF NextColumn
<1> DEFINE p == PipelineOf(cols, c)  s == cols[p]  i == Position(s, c)
<1>2. p \in PIPELINES /\ c \in Range(s)
  BY <1>1, InUseIs
<1>3. s \in Seq(Columns)
  BY <1>2 DEF ColumnsOk
<1>4. i \in DOMAIN s
  BY <1>2, PositionIs
<1>5. NextColumn(c) = IF i < Len(s) THEN s[i + 1] ELSE NoColumn
  BY <1>1 DEF NextColumn
<1> HIDE DEF i
<1>6. i < Len(s) /\ NextColumn(c) = s[i + 1]
  BY <1>5
<1> HIDE DEF s
<1>7. i + 1 \in 1..Len(s)
  BY <1>3, <1>4, <1>6
<1>8. s[i + 1] \in Range(s)
  BY <1>3, <1>7, RangeIs
<1> QED BY <1>1, <1>2, <1>6, <1>8 DEF s

LEMMA Prefixed ==
    ASSUME NEW x, NEW y, NEW z
    PROVE  LET r == <<x>> \o <<y, z>> IN r[1] = x /\ r[2] = y /\ r[3] = z /\ Len(r) = 3
<1> DEFINE U == {x, y, z}
<1>1. <<x>> \in Seq(U) /\ <<y, z>> \in Seq(U) /\ Len(<<x>>) = 1 /\ Len(<<y, z>>) = 2
  OBVIOUS
<1> QED BY <1>1

\* Two columns of one folder are one column, and no column's folder is the backlog.
LEMMA KeysDiffer ==
    ASSUME NEW p, NEW q, NEW s \in Titles \X Nat, NEW t \in Titles \X Nat,
           <<p>> \o s = <<q>> \o t
    PROVE  p = q /\ s = t
<1>1. PICK a \in Titles, m \in Nat : s = <<a, m>>
  OBVIOUS
<1>2. PICK b \in Titles, n \in Nat : t = <<b, n>>
  OBVIOUS
<1> DEFINE r == <<p>> \o <<a, m>>  u == <<q>> \o <<b, n>>
<1>3. r[1] = p /\ r[2] = a /\ r[3] = m
  BY Prefixed
<1>4. u[1] = q /\ u[2] = b /\ u[3] = n
  BY Prefixed
<1>5. r = u
  BY <1>1, <1>2, Zenon
<1> HIDE DEF r, u
<1> QED BY <1>1, <1>2, <1>3, <1>4, <1>5

LEMMA KeyIsColumn ==
    ASSUME NEW p, NEW s \in Titles \X Nat
    PROVE  <<p>> \o s # Backlog /\ <<p>> \o s # Trash /\ <<p>> \o s # Nowhere
<1>1. PICK a \in Titles, m \in Nat : s = <<a, m>>
  OBVIOUS
<1> DEFINE r == <<p>> \o s
<1>2. Len(r) = 3
  BY <1>1, Prefixed
<1> HIDE DEF r
<1>3. Len(Backlog) = 1 /\ Len(Trash) = 1 /\ Len(Nowhere) = 0
  BY DEF Backlog, Trash, Nowhere
<1> QED BY <1>2, <1>3 DEF r

LEMMA KeyIs ==
    ASSUME NEW cl, NEW sl, ColumnsOk(cl, sl), NEW c \in InUse(cl)
    PROVE  /\ \A d \in InUse(cl) : KeyOf(cl, sl, c) = KeyOf(cl, sl, d) => c = d
           /\ KeyOf(cl, sl, c) # Backlog /\ KeyOf(cl, sl, c) # Trash
<1>1. \A d \in InUse(cl) : sl[d] \in Titles \X Nat
  BY InUseIs DEF ColumnsOk
<1>2. ASSUME NEW d \in InUse(cl), KeyOf(cl, sl, c) = KeyOf(cl, sl, d) PROVE c = d
  <2>1. PipelineOf(cl, c) = PipelineOf(cl, d) /\ sl[c] = sl[d]
    <3>1. sl[c] \in Titles \X Nat /\ sl[d] \in Titles \X Nat
      BY <1>1
    <3>2. <<PipelineOf(cl, c)>> \o sl[c] = <<PipelineOf(cl, d)>> \o sl[d]
      BY <1>2, Zenon DEF KeyOf
    <3> QED BY <3>1, <3>2, KeysDiffer
  <2> QED BY <2>1, InUseIs DEF ColumnsOk
<1> QED BY <1>1, <1>2, KeyIsColumn DEF KeyOf

-----------------------------------------------------------------------------
(* Changes of the columns.                                                 *)

\* A column that there was is not put into another pipeline, nor its name unset.
Follows(cl, sl, cl2, sl2) ==
    /\ ColumnsOk(cl, sl) /\ ColumnsOk(cl2, sl2)
    /\ \A c : Named(c, sl) => Named(c, sl2)
    /\ \A p \in PIPELINES : \A c \in Range(cl2[p]) : Named(c, sl) => c \in Range(cl[p])

LEMMA KnownStays ==
    ASSUME NEW cl, NEW sl, NEW cl2, NEW sl2, Follows(cl, sl, cl2, sl2), NEW c, NEW p,
           Known(c, p, cl, sl)
    PROVE  Known(c, p, cl2, sl2)
<1> SUFFICES ASSUME c # NoColumn, c \in InUse(cl2)
             PROVE  p \in PIPELINES /\ c \in Range(cl2[p])
  BY DEF Known, Follows
<1>1. PICK q \in PIPELINES : c \in Range(cl2[q])
  BY DEF InUse
<1>2. c \in Range(cl[q])
  BY <1>1 DEF Known, Follows
<1>3. c \in InUse(cl)
  BY <1>2 DEF InUse
<1>4. p \in PIPELINES /\ c \in Range(cl[p])
  BY <1>3 DEF Known
<1>5. p = q
  BY <1>2, <1>4 DEF Follows, ColumnsOk
<1> QED BY <1>1, <1>5

LEMMA CardStays ==
    ASSUME NEW cl, NEW sl, NEW cl2, NEW sl2, Follows(cl, sl, cl2, sl2),
           NEW r, NEW mg, NEW u, NEW u2, CardOk(r, cl, sl, mg, u),
           r.trashed \/ Somewhere(r, cl2, u2)
    PROVE  CardOk(r, cl2, sl2, mg, u2)
  BY KnownStays DEF CardOk

LEMMA TurnStays ==
    ASSUME NEW cl, NEW sl, NEW cl2, NEW sl2, Follows(cl, sl, cl2, sl2), NEW t, TurnFits(t, sl)
    PROVE  TurnFits(t, sl2) /\ \A r : Entitled(r, t, cl) => Entitled(r, t, cl2)
<1>1. TurnFits(t, sl2)
  BY DEF TurnFits, Follows
<1>2. ASSUME NEW p \in PIPELINES, t.col \in Range(cl2[p]) PROVE t.col \in Range(cl[p])
  <2>1. t.col \in Columns
    BY <1>2, PipelineIs DEF Follows
  <2>2. Named(t.col, sl)
    BY <2>1, ConstantsOK DEF TurnFits
  <2> QED BY <1>2, <2>2 DEF Follows
<1> QED BY <1>1, <1>2 DEF Entitled

LEMMA HomeStays ==
    ASSUME NEW cl, NEW sl, NEW cl2, NEW sl2, ColumnsOk(cl, sl), ColumnsOk(cl2, sl2), NEW r,
           \/ r.column \notin InUse(cl) /\ r.column \notin InUse(cl2)
           \/ \E p \in PIPELINES : /\ r.column \in Range(cl[p]) /\ r.column \in Range(cl2[p])
                                   /\ sl2[r.column] = sl[r.column]
    PROVE  HomeOf(r, cl2, sl2) = HomeOf(r, cl, sl)
<1>1. CASE r.column \notin InUse(cl) /\ r.column \notin InUse(cl2)
  BY <1>1 DEF HomeOf
<1>2. CASE \E p \in PIPELINES : /\ r.column \in Range(cl[p]) /\ r.column \in Range(cl2[p])
                                /\ sl2[r.column] = sl[r.column]
  <2>1. PICK p \in PIPELINES : /\ r.column \in Range(cl[p]) /\ r.column \in Range(cl2[p])
                               /\ sl2[r.column] = sl[r.column]
    BY <1>2
  <2>2. PipelineOf(cl, r.column) = p /\ r.column \in InUse(cl)
        /\ PipelineOf(cl2, r.column) = p /\ r.column \in InUse(cl2)
    BY <2>1, PipelineIs
  <2> QED BY <2>1, <2>2 DEF HomeOf, KeyOf
<1> QED BY <1>1, <1>2

\* A slug nobody else in the pipeline has is given to one of its columns.
LEMMA NamedOk ==
    ASSUME NEW cl, NEW sl, ColumnsOk(cl, sl), NEW p \in PIPELINES, NEW title \in Titles,
           NEW c \in Columns, c \in InUse(cl) => c \in Range(cl[p])
    PROVE  LET sl2 == [sl EXCEPT ![c] = UniqueSlug(cl, sl, p, title, c)] IN
           /\ sl2 \in [Columns -> (Titles \X Nat) \cup {NoSlug}]
           /\ sl2[c] # NoSlug /\ \A d \in Columns : d # c => sl2[d] = sl[d]
           /\ \A d \in Range(cl[p]) : d # c => sl2[d] # sl2[c]
           /\ ColumnsOk(cl, sl2)
<1> DEFINE new == UniqueSlug(cl, sl, p, title, c)  sl2 == [sl EXCEPT ![c] = new]
<1>1. new \in Titles \X Nat /\ \A d \in Range(cl[p]) \ {c} : sl[d] # new
  BY SlugIsFree
<1>2. new # NoSlug
  <2> HIDE DEF new
  <2>1. PICK a \in Titles, n \in Nat : new = <<a, n>>
    BY <1>1
  <2> QED BY <2>1 DEF NoSlug
<1> HIDE DEF new
<1>3. sl2 \in [Columns -> (Titles \X Nat) \cup {NoSlug}] /\ sl2[c] = new
      /\ \A d \in Columns : d # c => sl2[d] = sl[d]
  BY <1>1 DEF ColumnsOk
<1> HIDE DEF sl2
<1>4. \A q \in PIPELINES : Range(cl[q]) \subseteq Columns
  BY PipelineIs
<1>5. \A d \in Range(cl[p]) : d # c => sl2[d] # sl2[c]
  BY <1>1, <1>3, <1>4
<1>6. \A d \in InUse(cl) : sl2[d] # NoSlug
  BY <1>2, <1>3, InUseIs
<1>7. ASSUME NEW q \in PIPELINES, NEW d \in Range(cl[q]), NEW e \in Range(cl[q]),
             sl2[d] = sl2[e]
      PROVE  d = e
  <2>1. CASE d # c /\ e # c
    BY <1>3, <1>4, <1>7, <2>1 DEF ColumnsOk
  <2>2. CASE d = c \/ e = c
    <3>1. c \in Range(cl[p]) /\ q = p
      BY <1>7, <2>2, PipelineIs
    <3> QED BY <1>5, <1>7, <2>2, <3>1
  <2> QED BY <2>1, <2>2
<1>8. ColumnsOk(cl, sl2)
  BY <1>3, <1>6, <1>7 DEF ColumnsOk
<1> QED BY <1>2, <1>3, <1>5, <1>8 DEF sl2, new

LEMMA RenamedOk ==
    ASSUME NEW cl, NEW sl, ColumnsOk(cl, sl), NEW c \in InUse(cl), NEW title \in Titles
    PROVE  LET sl2 == [sl EXCEPT ![c] = UniqueSlug(cl, sl, PipelineOf(cl, c), title, c)] IN
           Follows(cl, sl, cl, sl2) /\ \A d \in Columns : d # c => sl2[d] = sl[d]
<1> DEFINE p == PipelineOf(cl, c)
           sl2 == [sl EXCEPT ![c] = UniqueSlug(cl, sl, p, title, c)]
<1>1. p \in PIPELINES /\ c \in Range(cl[p]) /\ c \in Columns
  BY InUseIs
<1> HIDE DEF p
<1>2. ColumnsOk(cl, sl2) /\ sl2[c] # NoSlug /\ \A d \in Columns : d # c => sl2[d] = sl[d]
  BY <1>1, NamedOk
<1> HIDE DEF sl2
<1>3. Follows(cl, sl, cl, sl2)
  BY <1>2 DEF Follows, Named
<1> QED BY <1>2, <1>3 DEF sl2, p

\* One pipeline's columns become others, of which every one was its own or new.
LEMMA RowOk ==
    ASSUME NEW cl, NEW sl, ColumnsOk(cl, sl), NEW p \in PIPELINES, NEW s \in Seq(Columns),
           s # <<>>, Distinct(s), Range(s) \subseteq Range(cl[p])
    PROVE  Follows(cl, sl, [cl EXCEPT ![p] = s], sl)
<1> DEFINE cl2 == [cl EXCEPT ![p] = s]
<1>1. cl2 \in [PIPELINES -> Seq(Columns)] /\ \A q \in PIPELINES : q # p => cl2[q] = cl[q]
  BY DEF ColumnsOk
<1>2. cl2[p] = s
  BY DEF ColumnsOk
<1> HIDE DEF cl2
<1>3. \A q \in PIPELINES : Range(cl2[q]) \subseteq Range(cl[q])
  BY <1>1, <1>2
<1>4. \A c \in InUse(cl2) : c \in InUse(cl)
  BY <1>3 DEF InUse
<1>5. ColumnsOk(cl2, sl)
  <2>1. /\ \A q \in PIPELINES : cl2[q] # <<>>
        /\ \A q \in PIPELINES : Distinct(cl2[q])
    BY <1>1, <1>2 DEF ColumnsOk
  <2>2. \A q, r \in PIPELINES : q # r => Range(cl2[q]) \cap Range(cl2[r]) = {}
    BY <1>3 DEF ColumnsOk
  <2>3. \A q \in PIPELINES : \A c, d \in Range(cl2[q]) : sl[c] = sl[d] => c = d
    BY <1>3 DEF ColumnsOk
  <2> QED BY <1>1, <1>4, <2>1, <2>2, <2>3 DEF ColumnsOk
<1> QED BY <1>3, <1>5 DEF Follows, cl2

LEMMA WithoutOk ==
    ASSUME NEW cl, NEW sl, ColumnsOk(cl, sl), NEW c \in InUse(cl), Len(cl[PipelineOf(cl, c)]) > 1
    PROVE  /\ Follows(cl, sl, Without(cl, c), sl)
           /\ c \notin InUse(Without(cl, c))
           /\ \A q \in PIPELINES : Range(cl[q]) \ {c} \subseteq Range(Without(cl, c)[q])
<1> DEFINE p == PipelineOf(cl, c)  s == cl[p]  r == RemoveAt(s, Position(s, c))
<1>1. p \in PIPELINES /\ c \in Range(s) /\ s \in Seq(Columns) /\ Distinct(s) /\ Len(s) > 1
  BY InUseIs DEF ColumnsOk
<1>2. Without(cl, c) = [cl EXCEPT ![p] = r]
  BY DEF Without
<1> HIDE DEF p
<1>3. /\ r \in Seq(Columns) /\ Len(r) = Len(s) - 1
      /\ Range(r) \subseteq Range(s) /\ Range(s) \ {c} \subseteq Range(r)
      /\ Distinct(r) /\ c \notin Range(r)
  BY <1>1, Removed
<1> HIDE DEF r
<1>4. r # <<>>
  BY <1>1, <1>3
<1>5. Follows(cl, sl, Without(cl, c), sl)
  <2>1. Range(r) \subseteq Range(cl[p])
    BY <1>3
  <2>2. Follows(cl, sl, [cl EXCEPT ![p] = r], sl)
    BY <1>1, <1>3, <1>4, <2>1, RowOk
  <2> QED BY <1>2, <2>2
<1>6. \A q \in PIPELINES : Range(cl[q]) \ {c} \subseteq Range(Without(cl, c)[q])
  BY <1>1, <1>2, <1>3 DEF ColumnsOk
<1>7. c \notin InUse(Without(cl, c))
  BY <1>1, <1>2, <1>3 DEF ColumnsOk, InUse
<1> QED BY <1>5, <1>6, <1>7

LEMMA ReorderedOk ==
    ASSUME NEW cl, NEW sl, ColumnsOk(cl, sl), NEW c \in InUse(cl),
           NEW i \in 1..Len(cl[PipelineOf(cl, c)])
    PROVE  /\ Follows(cl, sl, Reordered(cl, c, i), sl)
           /\ \A q \in PIPELINES : Range(Reordered(cl, c, i)[q]) = Range(cl[q])
<1> DEFINE p == PipelineOf(cl, c)  s == cl[p]
           r == RemoveAt(s, Position(s, c))  t == InsertAt(r, i, c)
<1>0. i \in 1..Len(s)
  OBVIOUS
<1>1. p \in PIPELINES /\ c \in Range(s) /\ s \in Seq(Columns) /\ Distinct(s) /\ c \in Columns
      /\ i \in 1..Len(s) /\ Len(s) \in Nat
  <2>1. p \in PIPELINES /\ c \in Range(s) /\ c \in Columns
    BY InUseIs
  <2> HIDE DEF p
  <2>2. s \in Seq(Columns) /\ Distinct(s)
    BY <2>1 DEF ColumnsOk
  <2> QED BY <1>0, <2>1, <2>2
<1>2. Reordered(cl, c, i) = [cl EXCEPT ![p] = t]
  BY DEF Reordered
<1> HIDE DEF p
<1>3. /\ r \in Seq(Columns) /\ Len(r) = Len(s) - 1
      /\ Range(r) \subseteq Range(s) /\ Range(s) \ {c} \subseteq Range(r)
      /\ Distinct(r) /\ c \notin Range(r)
  BY <1>1, Removed
<1> HIDE DEF r
<1>4. i \in 1..(Len(r) + 1)
  BY <1>1, <1>3
<1>5. /\ t \in Seq(Columns) /\ Len(t) = Len(r) + 1 /\ Range(t) = Range(r) \cup {c} /\ Distinct(t)
  BY <1>1, <1>3, <1>4, Inserted
<1> HIDE DEF t
<1>6. t # <<>> /\ Range(t) = Range(s)
  BY <1>1, <1>3, <1>5
<1>7. Follows(cl, sl, Reordered(cl, c, i), sl)
  <2>1. Range(t) \subseteq Range(cl[p])
    BY <1>6
  <2>2. Follows(cl, sl, [cl EXCEPT ![p] = t], sl)
    BY <1>1, <1>5, <1>6, <2>1, RowOk
  <2> QED BY <1>2, <2>2
<1>8. \A q \in PIPELINES : Range(Reordered(cl, c, i)[q]) = Range(cl[q])
  BY <1>1, <1>2, <1>6 DEF ColumnsOk
<1> QED BY <1>7, <1>8

LEMMA AppendedOk ==
    ASSUME NEW cl, NEW sl, ColumnsOk(cl, sl), NEW p \in PIPELINES, NEW c \in Columns,
           sl[c] = NoSlug, NEW title \in Titles
    PROVE  LET cl2 == Appended(cl, p, c)
               sl2 == [sl EXCEPT ![c] = UniqueSlug(cl, sl, p, title, c)]
           IN  /\ Follows(cl, sl, cl2, sl2)
               /\ \A q \in PIPELINES : Range(cl[q]) \subseteq Range(cl2[q])
               /\ InUse(cl2) = InUse(cl) \cup {c}
               /\ \A d \in Columns : d # c => sl2[d] = sl[d]
<1> DEFINE cl2 == Appended(cl, p, c)  t == Append(cl[p], c)
           sl2 == [sl EXCEPT ![c] = UniqueSlug(cl, sl, p, title, c)]
<1>1. c \notin InUse(cl)
  BY InUseIs
<1>2. \A q \in PIPELINES : c \notin Range(cl[q])
  BY <1>1 DEF InUse
<1>3. /\ sl2 \in [Columns -> (Titles \X Nat) \cup {NoSlug}]
      /\ sl2[c] # NoSlug /\ \A d \in Columns : d # c => sl2[d] = sl[d]
      /\ \A d \in Range(cl[p]) : d # c => sl2[d] # sl2[c]
      /\ ColumnsOk(cl, sl2)
  BY <1>1, NamedOk
<1>4. /\ t \in Seq(Columns) /\ t # <<>> /\ Range(t) = Range(cl[p]) \cup {c} /\ Distinct(t)
  BY <1>2, AppendedTo DEF ColumnsOk
<1>5. cl2 = [cl EXCEPT ![p] = t]
  BY DEF Appended
<1> HIDE DEF t, sl2
<1>6. /\ cl2 \in [PIPELINES -> Seq(Columns)] /\ \A q \in PIPELINES : q # p => cl2[q] = cl[q]
      /\ cl2[p] = t
  BY <1>4, <1>5 DEF ColumnsOk
<1> HIDE DEF cl2
<1>7. \A q \in PIPELINES : Range(cl[q]) \subseteq Range(cl2[q])
  BY <1>4, <1>6
<1>8. InUse(cl2) = InUse(cl) \cup {c}
  <2>1. \A d : d \in InUse(cl2) <=> \E q \in PIPELINES : d \in Range(cl2[q])
    BY DEF InUse
  <2>2. \A d : d \in InUse(cl) <=> \E q \in PIPELINES : d \in Range(cl[q])
    BY DEF InUse
  <2>3. \A d : (\E q \in PIPELINES : d \in Range(cl2[q])) <=>
               d = c \/ \E q \in PIPELINES : d \in Range(cl[q])
    BY <1>4, <1>6
  <2> QED BY <2>1, <2>2, <2>3
<1>9. ColumnsOk(cl2, sl2)
  <2>1. /\ \A q \in PIPELINES : cl2[q] # <<>>
        /\ \A q \in PIPELINES : Distinct(cl2[q])
    BY <1>4, <1>6 DEF ColumnsOk
  <2>2. ASSUME NEW q \in PIPELINES, NEW r \in PIPELINES, q # r
        PROVE  Range(cl2[q]) \cap Range(cl2[r]) = {}
    <3>1. Range(cl[q]) \cap Range(cl[r]) = {}
      BY <2>2 DEF ColumnsOk
    <3>2. \A o \in PIPELINES : o # p => Range(cl2[o]) = Range(cl[o])
      BY <1>6
    <3>3. Range(cl2[p]) = Range(cl[p]) \cup {c}
      BY <1>4, <1>6
    <3>4. c \notin Range(cl[q]) /\ c \notin Range(cl[r])
      BY <1>2
    <3> QED BY <2>2, <3>1, <3>2, <3>3, <3>4
  <2>3. \A d \in InUse(cl2) : sl2[d] # NoSlug
    BY <1>3, <1>8 DEF ColumnsOk
  <2>4. ASSUME NEW q \in PIPELINES, NEW d \in Range(cl2[q]), NEW e \in Range(cl2[q]),
               sl2[d] = sl2[e]
        PROVE  d = e
    <3>1. CASE q # p
      BY <1>3, <1>6, <2>4, <3>1 DEF ColumnsOk
    <3>2. CASE q = p
      <4>1. d \in Range(cl[p]) \cup {c} /\ e \in Range(cl[p]) \cup {c}
        BY <1>4, <1>6, <3>2
      <4>2. CASE d \in Range(cl[p]) /\ e \in Range(cl[p])
        BY <1>3, <2>4, <4>2 DEF ColumnsOk
      <4> QED BY <1>3, <2>4, <4>1, <4>2
    <3> QED BY <3>1, <3>2
  <2> QED BY <1>3, <1>6, <2>1, <2>2, <2>3, <2>4 DEF ColumnsOk
<1>10. \A q \in PIPELINES : \A d \in Range(cl2[q]) : Named(d, sl) => d \in Range(cl[q])
  BY <1>4, <1>6 DEF Named
<1>11. \A d : Named(d, sl) => Named(d, sl2)
  BY <1>3 DEF Named
<1>12. Follows(cl, sl, cl2, sl2)
  BY <1>9, <1>10, <1>11 DEF Follows
<1> QED BY <1>3, <1>7, <1>8, <1>12 DEF cl2, sl2

-----------------------------------------------------------------------------
(* The folders of a card.                                                  *)

LEMMA MoveDirHas ==
    ASSUME NEW d, NEW src \in DOMAIN d, NEW dst, src # dst
    PROVE  dst \in DOMAIN MoveDir(d, src, dst)
           /\ \A x \in DOMAIN d : x # src => x \in DOMAIN MoveDir(d, src, dst)
<1>1. CASE dst \notin DOMAIN d
  BY <1>1 DEF MoveDir
<1>2. CASE dst \in DOMAIN d
  <2> DEFINE both == d[src] \cap d[dst]
             left == IF both = {} THEN DOMAIN d \ {src} ELSE DOMAIN d
  <2>1. DOMAIN MoveDir(d, src, dst) = left
    BY <1>2 DEF MoveDir
  <2> QED BY <1>2, <2>1
<1> QED BY <1>1, <1>2

LEMMA FollowHas ==
    ASSUME NEW d, NEW have, NEW want
    PROVE  want \in DOMAIN Follow(d, have, want)
<1>1. CASE have \in DOMAIN d /\ have # want
  BY <1>1, MoveDirHas DEF Follow
<1>2. CASE ~(have \in DOMAIN d /\ have # want)
  BY <1>2 DEF Follow, Made, With
<1> QED BY <1>1, <1>2

LEMMA CarriedKeeps ==
    ASSUME NEW d, NEW old, NEW new, NEW x \in DOMAIN d, x # old
    PROVE  x \in DOMAIN Carried(d, old, new)
  BY MoveDirHas DEF Carried

LEMMA PutKeeps ==
    ASSUME NEW d, NEW x, NEW f, NEW y \in DOMAIN d
    PROVE  y \in DOMAIN Put(d, x, f)
  BY DEF Put, Made, With

-----------------------------------------------------------------------------
(* One card is written.                                                    *)

\* What a card may become: nothing it was allowed is taken back.
Grants(r, rec) ==
    /\ r.free => rec.free
    /\ r.planned => rec.planned
    /\ r.kind \in KINDS => rec.kind \in KINDS

LEMMA GrantsRights ==
    ASSUME NEW r, NEW rec, Grants(r, rec)
    PROVE  /\ \A p : Rights(r, p) => Rights(rec, p)
           /\ \A t, cl : Entitled(r, t, cl) => Entitled(rec, t, cl)
  BY DEF Grants, Rights, Entitled

CardGood(k) ==
    /\ CardOk(cards[k], cols, slug, managers, up)
    /\ up => Housed(cards[k], disk[k], cols, slug)
    /\ Entitled(cards[k], turn[k], cols)

LEMMA GoodCards ==
    PlaceInv <=> /\ ColumnsOk(cols, slug) /\ ManagersOk(managers)
                 /\ \A k \in DOMAIN cards : CardGood(k)
                 /\ \A k \in Cards : TurnFits(turn[k], slug)
  BY DEF PlaceInv, CardGood

LEMMA OnePlaced ==
    ASSUME LifeInv, PlaceInv, NEW k \in Cards, NEW rec,
           cards' = With(cards, k, rec), UNCHANGED <<cols, slug, managers, up>>,
           CardOk(rec, cols, slug, managers, up),
           up => Housed(rec, disk'[k], cols, slug),
           \A j \in Cards \ {k} : disk'[j] = disk[j] /\ turn'[j] = turn[j],
           Entitled(rec, turn'[k], cols), TurnFits(turn'[k], slug)
    PROVE  PlaceInv'
<1>1. DOMAIN cards' = DOMAIN cards \cup {k} /\ cards'[k] = rec
      /\ \A j \in DOMAIN cards \ {k} : cards'[j] = cards[j]
  BY DEF With
<1>2. CardGood(k)'
  BY <1>1 DEF CardGood
<1>3. ASSUME NEW j \in DOMAIN cards \ {k} PROVE CardGood(j)'
  <2>1. CardGood(j) /\ j \in Cards
    BY <1>3, GoodCards DEF LifeInv
  <2>2. cards'[j] = cards[j] /\ disk'[j] = disk[j] /\ turn'[j] = turn[j]
    BY <1>1, <1>3, <2>1
  <2> QED BY <2>1, <2>2 DEF CardGood
<1>4. ColumnsOk(cols', slug') /\ ManagersOk(managers')
  BY GoodCards
<1>5. \A j \in Cards : TurnFits(turn'[j], slug')
  BY GoodCards
<1> QED BY <1>1, <1>2, <1>3, <1>4, <1>5 DEF PlaceInv, CardGood

LEMMA IdleFits ==
    /\ \A sl : TurnFits(Idle, sl) /\ TurnFits(Walks, sl)
    /\ \A r, cl : Entitled(r, Idle, cl) /\ Entitled(r, Walks, cl)
  BY DEF Idle, Walks, TurnFits, Entitled

LEMMA WaitFits ==
    ASSUME NEW say
    PROVE  /\ \A sl : /\ TurnFits([Idle EXCEPT !.pc = "asked", !.say = say], sl)
                      /\ TurnFits([Idle EXCEPT !.pc = "route", !.say = say], sl)
           /\ \A r, cl : /\ Entitled(r, [Idle EXCEPT !.pc = "asked", !.say = say], cl)
                         /\ Entitled(r, [Idle EXCEPT !.pc = "route", !.say = say], cl)
  BY DEF Idle, TurnFits, Entitled

\* The process dies with the columns as they were, or as they were made.
LEMMA DeadPlaced ==
    ASSUME LifeInv, PlaceInv, Dies, Follows(cols, slug, cols', slug'),
           \A k \in DOMAIN cards :
              cards[k].trashed \/ Somewhere(cards[k], cols', FALSE)
    PROVE  PlaceInv'
<1>1. cards' = cards /\ managers' = managers /\ up' = FALSE /\ turn' = [k \in Cards |-> Idle]
  BY DEF Dies
<1>2. ASSUME NEW k \in DOMAIN cards
      PROVE  CardOk(cards[k], cols', slug', managers, FALSE) /\ turn'[k] = Idle
  <2>1. CardOk(cards[k], cols, slug, managers, up) /\ k \in Cards
    BY GoodCards DEF CardGood, LifeInv
  <2> QED BY <1>1, <2>1, CardStays
<1> QED BY <1>1, <1>2, IdleFits DEF PlaceInv, Follows

LEMMA SameColumns == ASSUME PlaceInv, UNCHANGED <<cols, slug>>
                     PROVE  Follows(cols, slug, cols', slug')
  BY DEF PlaceInv, Follows

LEMMA DeadAsItWas ==
    ASSUME LifeInv, PlaceInv, Dies, UNCHANGED <<cols, slug>> PROVE PlaceInv'
<1>1. \A k \in DOMAIN cards : cards[k].trashed \/ Somewhere(cards[k], cols', FALSE)
  BY DEF PlaceInv, CardOk, Somewhere
<1> QED BY <1>1, SameColumns, DeadPlaced

\* A turn goes on in step with its card.
TurnGoes(tn, k, rec) ==
    /\ \A j \in Cards \ {k} : tn[j] = turn[j]
    /\ TurnFits(tn[k], slug) /\ Entitled(rec, tn[k], cols)

Placeable(rec) == ~rec.trashed /\ CardOk(rec, cols, slug, managers, TRUE)

LEMMA SettlePlaced ==
    ASSUME LifeInv, PlaceInv, up, NEW k \in Cards, NEW rec, Placeable(rec),
           NEW tn, TurnGoes(tn, k, rec), Settle(k, rec, tn)
    PROVE  PlaceInv'
<1> DEFINE home == HomeOf(rec, cols, slug)
           put == [rec EXCEPT !.dir = home]
<1>1. /\ disk' = [disk EXCEPT ![k] = Follow(@, rec.dir, home)]
      /\ Recorded(With(cards, k, put), tn)
      /\ UNCHANGED <<cols, slug>>
  BY DEF Settle, config
<1>2. DOMAIN rec = CardFields
  BY DEF Placeable, CardOk, Sound
<1>3. /\ DOMAIN put = CardFields /\ put.dir = home
      /\ put.pipeline = rec.pipeline /\ put.column = rec.column /\ put.kind = rec.kind
      /\ put.trashed = rec.trashed /\ put.from = rec.from /\ put.owner = rec.owner
      /\ put.planned = rec.planned /\ put.free = rec.free
  <2> HIDE DEF home
  <2> QED BY <1>2 DEF CardFields
<1>4. HomeOf(put, cols, slug) = home
  BY <1>3 DEF HomeOf
<1> HIDE DEF home, put
<1>5. CardOk(put, cols, slug, managers, TRUE)
  BY <1>3 DEF Placeable, CardOk, Sound, Rights, Somewhere
<1>6. Entitled(put, tn[k], cols)
  BY <1>3 DEF TurnGoes, Entitled, Rights
<1>7. disk'[k] = Follow(disk[k], rec.dir, home) /\ \A j \in Cards \ {k} : disk'[j] = disk[j]
  BY <1>1 DEF LifeInv
<1>8. Housed(put, disk'[k], cols, slug)
  BY <1>3, <1>4, <1>7, FollowHas DEF Housed
<1>9. CASE Dies
  BY <1>1, <1>9, DeadAsItWas
<1>10. CASE Saved(With(cards, k, put), chats, managers, gone, tn)
  <2>1. cards' = With(cards, k, put) /\ UNCHANGED <<managers, up>> /\ turn' = tn
    BY <1>10 DEF Saved
  <2> QED BY <1>1, <1>5, <1>6, <1>7, <1>8, <2>1, OnePlaced DEF TurnGoes
<1> QED BY <1>1, <1>9, <1>10 DEF Recorded, DiesAdrift

-----------------------------------------------------------------------------
(* The steps of one card.                                                  *)

LEMMA KindIs ==
    ASSUME NEW p, NEW kind
    PROVE  /\ kind \in KINDS => KindForPipeline(p, kind) \in KINDS
           /\ p \in ORIGIN_PIPELINES => KindForPipeline(p, kind) \in KINDS
<1>1. p = "plan" => KindForPipeline(p, kind) = "feature"
  BY DEF KindForPipeline
<1>2. p = "maint" => KindForPipeline(p, kind) = "maintenance"
  BY DEF KindForPipeline
<1>3. p \notin {"plan", "maint"} => KindForPipeline(p, kind) = kind
  BY DEF KindForPipeline
<1> QED BY <1>1, <1>2, <1>3 DEF KINDS, ORIGIN_PIPELINES

LEMMA PlacesAre ==
    /\ PIPELINES \subseteq Places /\ ORIGIN_PIPELINES \subseteq PIPELINES
    /\ ROUTABLE \subseteq PIPELINES /\ "build" \in PIPELINES /\ "backlog" \in Places
    /\ "backlog" \notin PIPELINES /\ "build" \notin ORIGIN_PIPELINES
    /\ "build" \notin ROUTABLE
  BY DEF Places, PIPELINES, ROUTABLE, ORIGIN_PIPELINES

\* The fields of a card that was moved.
IsMoved(m, rec, c, q) ==
    /\ DOMAIN m = CardFields /\ m.pipeline = q /\ m.column = c /\ m.trashed = FALSE
    /\ m.from = NoColumn /\ m.owner = rec.owner
    /\ m.free <=> rec.free
    /\ m.planned <=> rec.planned \/ q \in ORIGIN_PIPELINES
    /\ m.kind = IF q = rec.pipeline THEN rec.kind ELSE KindForPipeline(q, rec.kind)

LEMMA MovedIs ==
    ASSUME NEW rec, DOMAIN rec = CardFields, NEW c
    PROVE  IsMoved(Moved(rec, c), rec, c, PipelineOf(cols, c))
<1> DEFINE q == PipelineOf(cols, c)
           kind == IF q = rec.pipeline THEN rec.kind ELSE KindForPipeline(q, rec.kind)
           planned == rec.planned \/ q \in ORIGIN_PIPELINES
<1>1. Moved(rec, c) = [rec EXCEPT !.kind = kind, !.pipeline = q, !.column = c,
                                  !.trashed = FALSE, !.from = NoColumn, !.planned = planned]
  BY DEF Moved
<1> HIDE DEF kind, planned, q
<1>2. LET m == Moved(rec, c) IN
      /\ DOMAIN m = CardFields /\ m.pipeline = q /\ m.column = c /\ m.trashed = FALSE
      /\ m.from = NoColumn /\ m.owner = rec.owner /\ (m.free <=> rec.free)
      /\ m.planned = planned /\ m.kind = kind
  BY <1>1 DEF CardFields
<1> QED BY <1>2 DEF kind, planned, q, IsMoved

\* A card goes into a column of pipeline q, which it is entitled to or which
\* stamps it.
LEMMA MovedPlaceable ==
    ASSUME LifeInv, PlaceInv, NEW k \in DOMAIN cards, NEW q \in PIPELINES, NEW c \in Range(cols[q]),
           q \in ORIGIN_PIPELINES \/ Rights(cards[k], q)
    PROVE  Placeable(Moved(cards[k], c)) /\ Grants(cards[k], Moved(cards[k], c))
<1> DEFINE r == cards[k]  m == Moved(r, c)
<1>1. ColumnsOk(cols, slug) /\ CardOk(r, cols, slug, managers, up)
  BY GoodCards DEF CardGood
<1>2. PipelineOf(cols, c) = q /\ c \in Columns /\ c \in InUse(cols)
  BY <1>1, PipelineIs
<1>3. slug[c] # NoSlug
  BY <1>1, <1>2, InUseIs
<1>4. DOMAIN r = CardFields
  BY <1>1 DEF CardOk, Sound
<1> HIDE DEF r
<1>5. IsMoved(m, r, c, q)
  BY <1>2, <1>4, MovedIs
<1> HIDE DEF m
<1>6. r.kind \in KINDS => m.kind \in KINDS
  BY <1>5, KindIs DEF IsMoved
<1>7. Grants(r, m)
  BY <1>5, <1>6 DEF Grants, IsMoved
<1>8. Rights(m, q)
  <2>1. CASE q \in ORIGIN_PIPELINES
    <3>1. m.free \/ m.kind \in KINDS
      <4>1. CASE q = r.pipeline
        <5>1. r.free \/ r.kind \in KINDS
          BY <1>1, <2>1, <4>1, PlacesAre DEF CardOk, Rights
        <5> QED BY <1>5, <1>6, <5>1 DEF IsMoved
      <4>2. CASE q # r.pipeline
        BY <1>5, <2>1, <4>2, KindIs DEF IsMoved
      <4> QED BY <4>1, <4>2
    <3>2. m.planned
      BY <1>5, <2>1 DEF IsMoved
    <3> QED BY <3>1, <3>2 DEF Rights
  <2>2. CASE Rights(r, q)
    BY <1>7, <2>2, GrantsRights
  <2> QED BY <2>1, <2>2 DEF r
<1>9. Known(c, q, cols, slug) /\ Known(NoColumn, q, cols, slug)
  BY <1>2, <1>3 DEF Known, Named
<1>10. r.owner \in Range(managers)
  BY <1>1 DEF CardOk
<1>11. Somewhere(m, cols, TRUE)
  BY <1>5 DEF Somewhere, IsMoved
<1>12. CardOk(m, cols, slug, managers, TRUE)
  BY <1>5, <1>8, <1>9, <1>10, <1>11, PlacesAre DEF CardOk, Sound, IsMoved
<1> QED BY <1>5, <1>7, <1>12 DEF Placeable, IsMoved, m, r

\* The turn that has nothing in hand suits every card.
EmptyHanded(tn, k) ==
    /\ \A j \in Cards \ {k} : tn[j] = turn[j]
    /\ tn[k] = turn[k]
       \/ (TurnFits(tn[k], slug) /\ \A r : Entitled(r, tn[k], cols))

LEMMA EmptyGoes ==
    ASSUME PlaceInv, LifeInv, NEW k \in DOMAIN cards, NEW tn, EmptyHanded(tn, k),
           NEW rec, Grants(cards[k], rec)
    PROVE  TurnGoes(tn, k, rec)
<1>1. k \in Cards /\ TurnFits(turn[k], slug) /\ Entitled(cards[k], turn[k], cols)
  BY GoodCards DEF CardGood, LifeInv
<1>2. Entitled(rec, turn[k], cols)
  BY <1>1, GrantsRights
<1> QED BY <1>1, <1>2 DEF TurnGoes, EmptyHanded

LEMMA SameIsEmpty == ASSUME NEW k \in Cards PROVE EmptyHanded(turn, k)
  BY DEF EmptyHanded

LEMMA ToIsEmpty ==
    ASSUME LifeInv, NEW k \in Cards, NEW t, TurnFits(t, slug), \A r : Entitled(r, t, cols)
    PROVE  EmptyHanded(To(k, t), k)
  BY DEF EmptyHanded, To, LifeInv

LEMMA MovePlaced ==
    ASSUME LifeInv, PlaceInv, up, NEW k \in DOMAIN cards, NEW q \in PIPELINES, NEW c \in Range(cols[q]),
           q \in ORIGIN_PIPELINES \/ Rights(cards[k], q),
           NEW tn, EmptyHanded(tn, k), MoveCard(k, c, tn)
    PROVE  PlaceInv'
<1>1. Placeable(Moved(cards[k], c)) /\ Grants(cards[k], Moved(cards[k], c))
  BY MovedPlaceable
<1>2. TurnGoes(tn, k, Moved(cards[k], c))
  BY <1>1, EmptyGoes
<1>3. Settle(k, Moved(cards[k], c), tn) /\ k \in Cards
  BY DEF MoveCard, LifeInv
<1> QED BY <1>1, <1>2, <1>3, SettlePlaced

LEMMA CardHere ==
    ASSUME LifeInv, PlaceInv, NEW k, Present(k)
    PROVE  /\ k \in DOMAIN cards /\ k \in Cards /\ up
           /\ ColumnsOk(cols, slug) /\ CardOk(cards[k], cols, slug, managers, TRUE)
           /\ DOMAIN cards[k] = CardFields
<1>1. k \in DOMAIN cards /\ k \in Cards /\ up
  BY DEF Present, LifeInv
<1>2. ColumnsOk(cols, slug) /\ CardOk(cards[k], cols, slug, managers, up)
  BY <1>1, GoodCards DEF CardGood
<1>3. CardOk(cards[k], cols, slug, managers, TRUE)
  BY <1>1, <1>2 DEF CardOk, Somewhere
<1> QED BY <1>1, <1>2, <1>3 DEF CardOk, Sound

LEMMA RoutePlaced ==
    ASSUME LifeInv, PlaceInv, NEW k, NEW p, NEW tn, EmptyHanded(tn, k), RouteCard(k, p, tn)
    PROVE  PlaceInv'
<1>1. Present(k) /\ p \in ROUTABLE /\ cards[k].kind \in KINDS /\ MoveCard(k, Head(cols[p]), tn)
  BY DEF RouteCard
<1>2. k \in DOMAIN cards /\ up /\ p \in PIPELINES /\ Head(cols[p]) \in Range(cols[p])
  BY <1>1, CardHere, FirstColumn, PlacesAre
<1>3. p \in ORIGIN_PIPELINES \/ Rights(cards[k], p)
  BY <1>1 DEF Rights, ROUTABLE, ORIGIN_PIPELINES
<1> QED BY <1>1, <1>2, <1>3, MovePlaced

LEMMA PromotePlaced ==
    ASSUME LifeInv, PlaceInv, NEW k, NEW tn, EmptyHanded(tn, k), PromoteToBuild(k, tn)
    PROVE  PlaceInv'
<1>1. /\ Present(k) /\ cards[k].pipeline \in ORIGIN_PIPELINES
      /\ MoveCard(k, Head(cols["build"]), tn)
  BY DEF PromoteToBuild
<1>2. k \in DOMAIN cards /\ up /\ "build" \in PIPELINES /\ Head(cols["build"]) \in Range(cols["build"])
      /\ CardOk(cards[k], cols, slug, managers, TRUE)
  BY <1>1, CardHere, FirstColumn, PlacesAre
<1>3. Rights(cards[k], "build")
  BY <1>1, <1>2, PlacesAre DEF CardOk, Rights
<1> QED BY <1>1, <1>2, <1>3, MovePlaced

\* Along its own pipeline a card goes where it may be.
LEMMA WithinPlaced ==
    ASSUME LifeInv, PlaceInv, NEW k, Present(k), NEW tn, EmptyHanded(tn, k), NEW c,
           cards[k].pipeline \in PIPELINES, c \in Range(cols[cards[k].pipeline]),
           MoveCard(k, c, tn)
    PROVE  PlaceInv'
<1>1. k \in DOMAIN cards /\ up /\ Rights(cards[k], cards[k].pipeline)
  BY CardHere DEF CardOk
<1> QED BY <1>1, MovePlaced

LEMMA OnwardPlaced ==
    ASSUME LifeInv, PlaceInv, NEW k, Present(k), NEW tn, EmptyHanded(tn, k),
           NextColumn(cards[k].column) # NoColumn, MoveCard(k, NextColumn(cards[k].column), tn)
    PROVE  PlaceInv'
<1> DEFINE c == cards[k].column  q == PipelineOf(cols, c)  p == cards[k].pipeline
<1>1. /\ ColumnsOk(cols, slug) /\ CardOk(cards[k], cols, slug, managers, TRUE)
  BY CardHere
<1>2. c \in InUse(cols) /\ q \in PIPELINES /\ NextColumn(c) \in Range(cols[q])
  BY <1>1, NextIs
<1>3. c \in Columns
  BY <1>1, <1>2, InUseIs
<1>4. c # NoColumn
  BY <1>3, ConstantsOK
<1>5. p \in PIPELINES /\ c \in Range(cols[p])
  BY <1>1, <1>2, <1>4 DEF CardOk, Known
<1>6. q = p
  BY <1>1, <1>5, PipelineIs
<1> QED BY <1>2, <1>5, <1>6, WithinPlaced

LEMMA AddPlaced ==
    ASSUME LifeInv, PlaceInv, NEW k \in Cards, NEW p, NEW kind, NEW m, AddCard(k, p, kind, m)
    PROVE  PlaceInv'
<1> DEFINE q == IF p \in ROUTABLE THEN p ELSE "backlog"
           o == IF m \in Range(managers) THEN m ELSE Head(managers)
           rec == Newborn(q, kind, o)
           asked == [turn EXCEPT ![k] = [Idle EXCEPT !.pc = "asked", !.say = "triage"]]
           tn == IF rec.kind \in KINDS \/ ~mock THEN turn ELSE asked
<1>1. Settle(k, rec, tn) /\ up /\ k \notin Born
  BY DEF AddCard, Fresh, Born
<1>2. o \in Range(managers)
  BY HeadIn DEF PlaceInv, ManagersOk
<1>3. q \in ROUTABLE \cup {"backlog"}
  OBVIOUS
<1> HIDE DEF o, q
<1>4. /\ rec.pipeline = q /\ rec.column = (IF q = "backlog" THEN NoColumn ELSE Head(cols[q]))
      /\ rec.kind = (IF kind \in KINDS THEN kind ELSE KindForPipeline(q, "unset"))
      /\ rec.trashed = FALSE /\ rec.from = NoColumn /\ rec.owner = o
      /\ (rec.planned <=> q \in ORIGIN_PIPELINES)
      /\ (rec.free <=> q = "exped" /\ kind \notin KINDS)
      /\ DOMAIN rec = CardFields
  BY DEF Newborn, CardFields
<1>5. TurnGoes(tn, k, rec)
  <2>1. TurnFits(turn[k], slug) /\ turn[k].pc = "idle"
    BY <1>1 DEF PlaceInv, LifeInv
  <2>2. Entitled(rec, turn[k], cols)
    BY <2>1 DEF Entitled
  <2>3. asked[k] = [Idle EXCEPT !.pc = "asked", !.say = "triage"]
        /\ \A j \in Cards \ {k} : asked[j] = turn[j]
    BY DEF LifeInv
  <2>4. TurnFits(asked[k], slug) /\ Entitled(rec, asked[k], cols)
    <3> DEFINE t == [Idle EXCEPT !.pc = "asked", !.say = "triage"]
    <3>1. TurnFits(t, slug) /\ \A r : Entitled(r, t, cols)
      BY WaitFits
    <3>2. asked[k] = t
      BY <2>3
    <3> HIDE DEF t, asked, rec
    <3> QED BY <3>1, <3>2
  <2> HIDE DEF asked, rec
  <2> QED BY <2>1, <2>2, <2>3, <2>4 DEF TurnGoes
<1> HIDE DEF rec
<1>6. Rights(rec, q)
  <2>1. CASE q = "backlog"
    BY <2>1 DEF Rights, ORIGIN_PIPELINES
  <2>2. CASE q \in ORIGIN_PIPELINES
    <3>1. rec.kind \in KINDS /\ rec.planned
      BY <1>4, <2>2, KindIs
    <3> QED BY <3>1 DEF Rights
  <2>3. CASE q = "exped"
    BY <1>4, <2>3 DEF Rights, ORIGIN_PIPELINES
  <2> QED BY <1>3, <2>1, <2>2, <2>3 DEF ROUTABLE, ORIGIN_PIPELINES
<1>7. /\ Known(rec.column, q, cols, slug) /\ Known(rec.from, q, cols, slug)
      /\ Somewhere(rec, cols, TRUE) /\ q \in Places
  <2>1. CASE q = "backlog"
    BY <1>4, <2>1 DEF Known, Somewhere, Places
  <2>2. CASE q # "backlog"
    <3>1. q \in PIPELINES /\ ColumnsOk(cols, slug)
      BY <1>3, <2>2, PlacesAre DEF PlaceInv
    <3>2. rec.column \in Range(cols[q])
      BY <1>4, <2>2, <3>1, FirstColumn
    <3>3. rec.column \in Columns /\ rec.column \in InUse(cols)
      BY <3>1, <3>2, PipelineIs
    <3>4. Named(rec.column, slug)
      BY <3>1, <3>3, InUseIs DEF Named
    <3> QED BY <1>4, <3>1, <3>2, <3>4 DEF Known, Somewhere, Places
  <2> QED BY <2>1, <2>2
<1>8. Placeable(rec)
  BY <1>2, <1>4, <1>6, <1>7 DEF Placeable, CardOk, Sound
<1> HIDE DEF tn
<1> QED BY <1>1, <1>5, <1>8, SettlePlaced

LEMMA PutInPlaced ==
    ASSUME LifeInv, PlaceInv, NEW k, NEW c, PutIn(k, c)
    PROVE  PlaceInv'
<1> DEFINE m == Moved(cards[k], c)  rec == [m EXCEPT !.free = TRUE]
           q == PipelineOf(cols, c)
<1>1. Present(k) /\ c \in InUse(cols) /\ Settle(k, rec, turn)
  BY DEF PutIn
<1>2. /\ k \in DOMAIN cards /\ k \in Cards /\ up
      /\ ColumnsOk(cols, slug) /\ CardOk(cards[k], cols, slug, managers, TRUE)
      /\ DOMAIN cards[k] = CardFields
  BY <1>1, CardHere
<1>3. q \in PIPELINES /\ c \in Range(cols[q]) /\ c \in Columns /\ slug[c] # NoSlug
  BY <1>1, <1>2, InUseIs
<1>4. IsMoved(m, cards[k], c, q)
  BY <1>2, MovedIs
<1> HIDE DEF m, q
<1>5. /\ DOMAIN rec = CardFields /\ rec.pipeline = q /\ rec.column = c /\ rec.trashed = FALSE
      /\ rec.from = NoColumn /\ rec.owner = cards[k].owner
      /\ rec.free = TRUE /\ (rec.planned <=> m.planned) /\ rec.kind = m.kind
  BY <1>4 DEF IsMoved, CardFields
<1> HIDE DEF rec
<1>6. Grants(cards[k], rec)
  BY <1>4, <1>5, KindIs DEF Grants, IsMoved
<1>7. TurnGoes(turn, k, rec)
  BY <1>2, <1>6, SameIsEmpty, EmptyGoes
<1>8. Known(c, q, cols, slug) /\ Known(NoColumn, q, cols, slug)
  BY <1>3 DEF Known, Named
<1>9. Rights(rec, q) /\ Somewhere(rec, cols, TRUE) /\ q \in Places
  BY <1>3, <1>5 DEF Rights, Somewhere, Places
<1>10. Placeable(rec)
  BY <1>2, <1>5, <1>8, <1>9 DEF Placeable, CardOk, Sound
<1> QED BY <1>1, <1>2, <1>7, <1>10, SettlePlaced

LEMMA BacklogPlaced ==
    ASSUME LifeInv, PlaceInv, NEW k, Present(k),
           Settle(k, [cards[k] EXCEPT !.pipeline = "backlog", !.column = NoColumn,
                                      !.trashed = FALSE, !.from = NoColumn], turn)
    PROVE  PlaceInv'
<1> DEFINE rec == [cards[k] EXCEPT !.pipeline = "backlog", !.column = NoColumn,
                                   !.trashed = FALSE, !.from = NoColumn]
<1>1. /\ k \in DOMAIN cards /\ k \in Cards /\ up
      /\ ColumnsOk(cols, slug) /\ CardOk(cards[k], cols, slug, managers, TRUE)
      /\ DOMAIN cards[k] = CardFields
  BY CardHere
<1>2. /\ DOMAIN rec = CardFields /\ rec.pipeline = "backlog" /\ rec.column = NoColumn
      /\ rec.trashed = FALSE /\ rec.from = NoColumn /\ rec.owner = cards[k].owner
      /\ rec.kind = cards[k].kind
      /\ (rec.planned <=> cards[k].planned) /\ (rec.free <=> cards[k].free)
  BY <1>1 DEF CardFields
<1>3. Settle(k, rec, turn)
  OBVIOUS
<1> HIDE DEF rec
<1>4. Grants(cards[k], rec)
  BY <1>2 DEF Grants
<1>5. TurnGoes(turn, k, rec)
  BY <1>1, <1>4, SameIsEmpty, EmptyGoes
<1>6. Placeable(rec)
  BY <1>1, <1>2, PlacesAre DEF Placeable, CardOk, Sound, Known, Rights, Somewhere, ORIGIN_PIPELINES
<1> QED BY <1>1, <1>3, <1>5, <1>6, SettlePlaced

\* From the trash a card goes back to its column if there is one, and that is
\* of the pipeline it left.
LEMMA RestorePlaced ==
    ASSUME LifeInv, PlaceInv, NEW k, RestoreCard(k)
    PROVE  PlaceInv'
<1> DEFINE c == cards[k].from  q == PipelineOf(cols, c)
           kind == KindForPipeline(q, cards[k].kind)
           rec == [cards[k] EXCEPT !.pipeline = q, !.column = c, !.kind = kind,
                                   !.trashed = FALSE, !.from = NoColumn]
<1>0. Present(k)
  BY DEF RestoreCard
<1>1. /\ k \in DOMAIN cards /\ k \in Cards /\ up
      /\ ColumnsOk(cols, slug) /\ CardOk(cards[k], cols, slug, managers, TRUE)
      /\ DOMAIN cards[k] = CardFields
  BY <1>0, CardHere
<1>2. CASE c \notin InUse(cols)
  <2>1. Settle(k, [cards[k] EXCEPT !.pipeline = "backlog", !.column = NoColumn,
                                   !.trashed = FALSE, !.from = NoColumn], turn)
    BY <1>2, Zenon DEF RestoreCard
  <2> QED BY <1>0, <2>1, BacklogPlaced
<1>3. CASE c \in InUse(cols)
  <2>1. Settle(k, rec, turn)
    BY <1>3, Zenon DEF RestoreCard
  <2>2. q \in PIPELINES /\ c \in Range(cols[q]) /\ c \in Columns /\ slug[c] # NoSlug
    BY <1>1, <1>3, InUseIs
  <2>3. c # NoColumn
    BY <2>2, ConstantsOK
  <2>4. cards[k].pipeline \in PIPELINES /\ c \in Range(cols[cards[k].pipeline])
    BY <1>1, <1>3, <2>3 DEF CardOk, Known
  <2>5. cards[k].pipeline = q
    BY <1>1, <2>4, PipelineIs
  <2>6. cards[k].kind \in KINDS => kind \in KINDS
    BY KindIs
  <2> HIDE DEF c, q, kind
  <2>7. /\ DOMAIN rec = CardFields /\ rec.pipeline = q /\ rec.column = c
        /\ rec.trashed = FALSE /\ rec.from = NoColumn /\ rec.owner = cards[k].owner
        /\ rec.kind = kind
        /\ (rec.planned <=> cards[k].planned) /\ (rec.free <=> cards[k].free)
    BY <1>1 DEF CardFields
  <2> HIDE DEF rec
  <2>8. Grants(cards[k], rec)
    BY <2>6, <2>7 DEF Grants
  <2>9. TurnGoes(turn, k, rec)
    BY <1>1, <2>8, SameIsEmpty, EmptyGoes
  <2>10. Rights(rec, q)
    BY <1>1, <2>5, <2>8, GrantsRights DEF CardOk
  <2>11. Known(c, q, cols, slug) /\ Known(NoColumn, q, cols, slug) /\ Somewhere(rec, cols, TRUE)
    BY <2>2, <2>7 DEF Known, Named, Somewhere
  <2>12. Placeable(rec)
    BY <1>1, <2>2, <2>7, <2>10, <2>11, PlacesAre DEF Placeable, CardOk, Sound
  <2> QED BY <1>1, <2>1, <2>9, <2>12, SettlePlaced
<1> QED BY <1>2, <1>3

LEMMA AmendPlaced ==
    ASSUME LifeInv, PlaceInv, NEW k, Present(k), NEW rec, DOMAIN rec = CardFields,
           rec.pipeline = cards[k].pipeline, rec.column = cards[k].column,
           rec.from = cards[k].from, rec.dir = cards[k].dir, rec.trashed = cards[k].trashed,
           rec.owner \in Range(managers), Grants(cards[k], rec),
           NEW tn, EmptyHanded(tn, k), Amend(k, rec, tn)
    PROVE  PlaceInv'
<1>1. /\ k \in DOMAIN cards /\ k \in Cards /\ up
      /\ ColumnsOk(cols, slug) /\ CardOk(cards[k], cols, slug, managers, TRUE)
      /\ DOMAIN cards[k] = CardFields
  BY CardHere
<1>2. Housed(cards[k], disk[k], cols, slug)
  BY <1>1, GoodCards DEF CardGood
<1>3. Housed(rec, disk[k], cols, slug)
  BY <1>2 DEF Housed, HomeOf
<1>4. Rights(rec, rec.pipeline)
  BY <1>1, GrantsRights DEF CardOk
<1>5. CardOk(rec, cols, slug, managers, up)
  BY <1>1, <1>4 DEF CardOk, Sound, Somewhere
<1>6. TurnGoes(tn, k, rec)
  BY <1>1, EmptyGoes
<1>7. cards' = With(cards, k, rec) /\ UNCHANGED <<cols, slug, managers, up, disk>> /\ turn' = tn
  BY DEF Amend, Saved, config
<1> QED BY <1>1, <1>3, <1>5, <1>6, <1>7, OnePlaced DEF TurnGoes

LEMMA TypedPlaced ==
    ASSUME LifeInv, PlaceInv, NEW k, Present(k), NEW kind \in KINDS,
           NEW tn, EmptyHanded(tn, k), Amend(k, [cards[k] EXCEPT !.kind = kind], tn)
    PROVE  PlaceInv'
<1> DEFINE rec == [cards[k] EXCEPT !.kind = kind]
<1>1. DOMAIN cards[k] = CardFields /\ cards[k].owner \in Range(managers)
  BY CardHere DEF CardOk
<1>2. /\ DOMAIN rec = CardFields /\ rec.pipeline = cards[k].pipeline
      /\ rec.column = cards[k].column /\ rec.from = cards[k].from /\ rec.dir = cards[k].dir
      /\ rec.trashed = cards[k].trashed /\ rec.owner = cards[k].owner /\ rec.kind = kind
      /\ (rec.planned <=> cards[k].planned) /\ (rec.free <=> cards[k].free)
  BY <1>1 DEF CardFields
<1>3. Grants(cards[k], rec)
  BY <1>2 DEF Grants
<1>4. Amend(k, rec, tn)
  OBVIOUS
<1> HIDE DEF rec
<1> QED BY <1>1, <1>2, <1>3, <1>4, AmendPlaced

LEMMA AssignPlaced ==
    ASSUME LifeInv, PlaceInv, NEW k, NEW m, AssignCard(k, m)
    PROVE  PlaceInv'
<1> DEFINE rec == [cards[k] EXCEPT !.owner = m]
<1>1. Present(k) /\ m \in Range(managers) /\ Amend(k, rec, turn)
  BY DEF AssignCard
<1>2. DOMAIN cards[k] = CardFields /\ k \in Cards
  BY <1>1, CardHere
<1>3. /\ DOMAIN rec = CardFields /\ rec.pipeline = cards[k].pipeline
      /\ rec.column = cards[k].column /\ rec.from = cards[k].from /\ rec.dir = cards[k].dir
      /\ rec.trashed = cards[k].trashed /\ rec.owner = m /\ rec.kind = cards[k].kind
      /\ (rec.planned <=> cards[k].planned) /\ (rec.free <=> cards[k].free)
  BY <1>2 DEF CardFields
<1>4. Grants(cards[k], rec)
  BY <1>3 DEF Grants
<1> HIDE DEF rec
<1>5. EmptyHanded(turn, k)
  BY <1>2, SameIsEmpty
<1> QED BY <1>1, <1>3, <1>4, <1>5, AmendPlaced

LEMMA TrashPlaced ==
    ASSUME LifeInv, PlaceInv, NEW k, TrashCard(k)
    PROVE  PlaceInv'
<1> DEFINE rec == [cards[k] EXCEPT !.from = cards[k].column, !.trashed = TRUE, !.dir = Trash]
<1>1. /\ Present(k) /\ disk' = [disk EXCEPT ![k] = Follow(@, cards[k].dir, Trash)]
      /\ Recorded(With(cards, k, rec), turn)
      /\ UNCHANGED <<cols, slug>>
  BY DEF TrashCard, config
<1>2. /\ k \in DOMAIN cards /\ k \in Cards /\ up
      /\ ColumnsOk(cols, slug) /\ CardOk(cards[k], cols, slug, managers, TRUE)
      /\ DOMAIN cards[k] = CardFields
  BY <1>1, CardHere
<1>3. /\ DOMAIN rec = CardFields /\ rec.pipeline = cards[k].pipeline
      /\ rec.column = cards[k].column /\ rec.from = cards[k].column /\ rec.dir = Trash
      /\ rec.trashed = TRUE /\ rec.owner = cards[k].owner /\ rec.kind = cards[k].kind
      /\ (rec.planned <=> cards[k].planned) /\ (rec.free <=> cards[k].free)
  BY <1>2 DEF CardFields
<1> HIDE DEF rec
<1>4. Grants(cards[k], rec)
  BY <1>3 DEF Grants
<1>5. TurnGoes(turn, k, rec)
  BY <1>2, <1>4, SameIsEmpty, EmptyGoes
<1>6. Rights(rec, rec.pipeline)
  BY <1>2, <1>3, <1>4, GrantsRights DEF CardOk
<1>7. CardOk(rec, cols, slug, managers, up)
  BY <1>2, <1>3, <1>6 DEF CardOk, Sound
<1>8. Housed(rec, disk'[k], cols, slug)
  BY <1>3 DEF Housed
<1>9. CASE Dies
  BY <1>1, <1>9, DeadAsItWas
<1>10. CASE Saved(With(cards, k, rec), chats, managers, gone, turn)
  <2>1. \A j \in Cards \ {k} : disk'[j] = disk[j] /\ turn'[j] = turn[j]
    BY <1>1, <1>10 DEF LifeInv, Saved
  <2>2. cards' = With(cards, k, rec) /\ UNCHANGED <<managers, up, turn>>
    BY <1>10 DEF Saved
  <2> QED BY <1>1, <1>2, <1>5, <1>7, <1>8, <2>1, <2>2, OnePlaced DEF TurnGoes
<1> QED BY <1>1, <1>9, <1>10 DEF Recorded, DiesAdrift

\* Some cards go, the others and the columns stay.
LEMMA FewerPlaced ==
    ASSUME LifeInv, PlaceInv, UNCHANGED <<cols, slug, managers, up, turn>>,
           DOMAIN cards' \subseteq DOMAIN cards,
           \A j \in DOMAIN cards' : cards'[j] = cards[j] /\ disk'[j] = disk[j]
    PROVE  PlaceInv'
<1>1. \A j \in DOMAIN cards' : CardGood(j)'
  BY GoodCards DEF CardGood
<1> QED BY <1>1 DEF PlaceInv, CardGood

LEMMA PurgePlaced ==
    ASSUME LifeInv, PlaceInv, NEW k, PurgeCard(k)
    PROVE  PlaceInv'
<1>1. /\ disk' = [disk EXCEPT ![k] = Restrict(@, DOMAIN @ \ {cards[k].dir})]
      /\ Written(Restrict(cards, DOMAIN cards \ {k}), chats, managers, gone \cup {k}, turn)
      /\ UNCHANGED <<cols, slug>>
  BY DEF PurgeCard, config
<1>2. CASE Dies
  BY <1>1, <1>2, DeadAsItWas
<1>3. CASE Saved(Restrict(cards, DOMAIN cards \ {k}), chats, managers, gone \cup {k}, turn)
  <2>1. cards' = Restrict(cards, DOMAIN cards \ {k}) /\ UNCHANGED <<managers, up, turn>>
    BY <1>3 DEF Saved
  <2>2. DOMAIN cards' = DOMAIN cards \ {k} /\ \A j \in DOMAIN cards \ {k} : cards'[j] = cards[j]
    BY <2>1 DEF Restrict
  <2>3. \A j \in DOMAIN cards' : disk'[j] = disk[j]
    BY <1>1, <2>2 DEF LifeInv
  <2> QED BY <1>1, <2>1, <2>2, <2>3, FewerPlaced
<1> QED BY <1>1, <1>2, <1>3 DEF Written

LEMMA CardPlaced ==
    ASSUME LifeInv, PlaceInv, NEW k \in Cards, CardSteps(k)
    PROVE  PlaceInv'
<1>1. CASE \E p \in PIPELINES \cup {"backlog"}, kind \in KINDS \cup {"unset"}, m \in Managers :
              AddCard(k, p, kind, m)
  BY <1>1, AddPlaced
<1>2. CASE \E c \in Columns : Drag(k, c)
  BY <1>2, PutInPlaced DEF Drag
<1>3. CASE \E p \in PIPELINES : RouteCard(k, p, turn)
  BY <1>3, SameIsEmpty, RoutePlaced
<1>4. CASE SendToBacklog(k)
  BY <1>4, BacklogPlaced DEF SendToBacklog
<1>5. CASE TrashCard(k) \/ RestoreCard(k) \/ PurgeCard(k)
  BY <1>5, TrashPlaced, RestorePlaced, PurgePlaced
<1>6. CASE \E kind \in KINDS : SetCardKind(k, kind)
  BY <1>6, SameIsEmpty, TypedPlaced DEF SetCardKind
<1>7. CASE \E m \in Managers : AssignCard(k, m)
  BY <1>7, AssignPlaced
<1> QED BY <1>1, <1>2, <1>3, <1>4, <1>5, <1>6, <1>7 DEF CardSteps

LEMMA PutPlaced ==
    ASSUME LifeInv, PlaceInv, UNCHANGED <<cols, slug, cards, managers, up>>,
           \A j \in Cards : \A x \in DOMAIN disk[j] : x \in DOMAIN disk'[j],
           \A j \in DOMAIN cards : Entitled(cards[j], turn'[j], cols),
           \A j \in Cards : TurnFits(turn'[j], slug)
    PROVE  PlaceInv'
<1>1. ASSUME NEW j \in DOMAIN cards PROVE CardGood(j)'
  <2>1. CardGood(j) /\ j \in Cards
    BY <1>1, GoodCards DEF LifeInv
  <2> QED BY <2>1 DEF CardGood, Housed
<1> QED BY <1>1 DEF PlaceInv, CardGood

\* What a run, a worker or a manager does that moves no card.
LEMMA TurnPlaced ==
    ASSUME LifeInv, PlaceInv, NEW k \in Cards, NEW tn, OnlyTurn(tn), EmptyHanded(tn, k)
    PROVE  PlaceInv'
<1>1. UNCHANGED <<cols, slug, cards, managers, up, disk>> /\ turn' = tn
  BY DEF OnlyTurn, config
<1>2. \A j \in DOMAIN cards : Entitled(cards[j], tn[j], cols)
  BY GoodCards DEF CardGood, EmptyHanded, LifeInv
<1>3. \A j \in Cards : TurnFits(tn[j], slug)
  BY GoodCards DEF EmptyHanded
<1> QED BY <1>1, <1>2, <1>3, PutPlaced

LEMMA LandsPlaced ==
    ASSUME LifeInv, NEW k \in Cards, NEW x, NEW f, Lands(k, x, f)
    PROVE  \A j \in Cards : \A y \in DOMAIN disk[j] : y \in DOMAIN disk'[j]
<1>1. disk' = [disk EXCEPT ![k] = Put(@, x, f)]
  BY DEF Lands
<1> QED BY <1>1, PutKeeps DEF LifeInv

LEMMA SameTurns ==
    ASSUME LifeInv, PlaceInv
    PROVE  /\ \A j \in DOMAIN cards : Entitled(cards[j], turn[j], cols)
           /\ \A j \in Cards : TurnFits(turn[j], slug)
  BY GoodCards DEF CardGood

LEMMA AgentPlaced ==
    ASSUME LifeInv, PlaceInv, NEW k \in Cards, AgentSteps(k)
    PROVE  PlaceInv'
<1>0. EmptyHanded(turn, k)
  BY SameIsEmpty
<1>1. CASE MoveNext(k)
  <2>1. Present(k) /\ MoveCard(k, NextColumn(cards[k].column), turn)
    BY <1>1 DEF MoveNext, Busy
  <2>2. NextColumn(cards[k].column) # NoColumn
    <3>1. NextColumn(cards[k].column) \in InUse(cols)
      BY <2>1 DEF MoveCard
    <3> QED BY <3>1, InUseIs, ConstantsOK DEF PlaceInv
  <2> QED BY <1>0, <2>1, <2>2, OnwardPlaced
<1>2. CASE AgentPromotes(k)
  BY <1>0, <1>2, PromotePlaced DEF AgentPromotes
<1>3. ASSUME NEW c, MoveWithin(k, c) PROVE PlaceInv'
  <2>1. /\ Present(k) /\ cards[k].pipeline # "backlog" /\ c \in Range(cols[cards[k].pipeline])
        /\ MoveCard(k, c, turn)
    BY <1>3 DEF MoveWithin, Busy
  <2>2. cards[k].pipeline \in PIPELINES
    BY <2>1, CardHere DEF CardOk, Places
  <2> QED BY <1>0, <2>1, <2>2, WithinPlaced
<1>4. CASE \E c \in Columns : ChatMoves(k, c)
  BY <1>4, PutInPlaced DEF ChatMoves
<1>5. CASE \E p \in PIPELINES, m \in Managers : ChatCreates(k, p, m)
  BY <1>5, AddPlaced DEF ChatCreates
<1>6. CASE \E kind \in KINDS : AgentTypes(k, kind)
  BY <1>0, <1>6, TypedPlaced DEF AgentTypes, SetCardKind
<1>7. CASE \E p \in PIPELINES : AgentRoutes(k, p)
  BY <1>0, <1>7, RoutePlaced DEF AgentRoutes
<1>8. CASE Delegate(k)
  BY <1>8, SameTurns, PutPlaced DEF Delegate, config
<1>9. CASE WorkerReports(k)
  BY <1>9, SameTurns, PutPlaced DEF WorkerReports, config
<1>10. CASE \E f \in Files : WorkerWrites(k, f)
  <2>1. PICK f \in Files : WorkerWrites(k, f)
    BY <1>10
  <2>2. \A j \in Cards : \A y \in DOMAIN disk[j] : y \in DOMAIN disk'[j]
    BY <2>1, LandsPlaced DEF WorkerWrites
  <2>3. UNCHANGED <<cols, slug, cards, managers, up, turn>>
    BY <2>1 DEF WorkerWrites, config
  <2> QED BY <2>2, <2>3, SameTurns, PutPlaced
<1> QED BY <1>1, <1>2, <1>3, <1>4, <1>5, <1>6, <1>7, <1>8, <1>9, <1>10 DEF AgentSteps

LEMMA HearsPlaced ==
    ASSUME LifeInv, PlaceInv, NEW k \in Cards, NEW say, MockHears(k, say)
    PROVE  PlaceInv'
<1> DEFINE route == [Idle EXCEPT !.pc = "route", !.say = say]
           nxt == NextColumn(cards[k].column)
<1>1. Present(k)
  BY DEF MockHears
<1>2. EmptyHanded(To(k, route), k)
  BY WaitFits, ToIsEmpty
<1>3. EmptyHanded(To(k, Walks), k) /\ EmptyHanded(To(k, Idle), k)
  BY IdleFits, ToIsEmpty
<1>4. \/ OnlyTurn(To(k, route)) \/ OnlyTurn(To(k, Walks)) \/ OnlyTurn(To(k, Idle))
      \/ \E kind \in KINDS : Amend(k, [cards[k] EXCEPT !.kind = kind], To(k, route))
      \/ nxt \in Columns /\ MoveCard(k, nxt, To(k, Walks))
      \/ PromoteToBuild(k, To(k, Walks))
  BY Zenon DEF MockHears
<1> HIDE DEF route
<1>5. CASE nxt \in Columns /\ MoveCard(k, nxt, To(k, Walks))
  <2>1. nxt # NoColumn
    BY <1>5, ConstantsOK
  <2> QED BY <1>1, <1>3, <1>5, <2>1, OnwardPlaced
<1>6. CASE \E kind \in KINDS : Amend(k, [cards[k] EXCEPT !.kind = kind], To(k, route))
  BY <1>1, <1>2, <1>6, TypedPlaced
<1>7. CASE OnlyTurn(To(k, route)) \/ OnlyTurn(To(k, Walks)) \/ OnlyTurn(To(k, Idle))
  BY <1>2, <1>3, <1>7, TurnPlaced
<1>8. CASE PromoteToBuild(k, To(k, Walks))
  BY <1>3, <1>8, PromotePlaced
<1> QED BY <1>4, <1>5, <1>6, <1>7, <1>8

\* The mock manager judges a card after its worker has written: meanwhile it may
\* have been moved, and it goes on from the column it was in.
LEMMA JudgesPlaced ==
    ASSUME LifeInv, PlaceInv, NEW k \in Cards, MockJudges(k)
    PROVE  PlaceInv'
<1> DEFINE c == turn[k].col  q == PipelineOf(cols, c)
<1>1. EmptyHanded(To(k, Walks), k) /\ EmptyHanded(To(k, Idle), k)
  BY IdleFits, ToIsEmpty
<1>2. \/ OnlyTurn(To(k, Idle))
      \/ /\ k \in DOMAIN cards /\ up /\ NextColumn(c) # NoColumn
         /\ MoveCard(k, NextColumn(c), To(k, Walks))
  BY Zenon DEF MockJudges
<1>3. CASE OnlyTurn(To(k, Idle))
  BY <1>1, <1>3, TurnPlaced
<1>4. CASE /\ k \in DOMAIN cards /\ up /\ NextColumn(c) # NoColumn
           /\ MoveCard(k, NextColumn(c), To(k, Walks))
  <2>1. ColumnsOk(cols, slug)
    BY DEF PlaceInv
  <2>2. c \in InUse(cols) /\ q \in PIPELINES /\ NextColumn(c) \in Range(cols[q])
    BY <1>4, <2>1, NextIs
  <2>3. c \in Range(cols[q])
    BY <2>1, <2>2, InUseIs
  <2>4. turn[k].pc = "judge"
    BY DEF MockJudges
  <2>5. Rights(cards[k], q)
    BY <1>4, <2>2, <2>3, <2>4 DEF PlaceInv, Entitled
  <2> HIDE DEF c, q
  <2> QED BY <1>1, <1>4, <2>2, <2>5, MovePlaced
<1> QED BY <1>2, <1>3, <1>4

LEMMA MockPlaced ==
    ASSUME LifeInv, PlaceInv, NEW k \in Cards, MockSteps(k)
    PROVE  PlaceInv'
<1>0. EmptyHanded(To(k, Idle), k)
  BY IdleFits, ToIsEmpty
<1>1. CASE \E say \in Says : MockHears(k, say)
  BY <1>1, HearsPlaced
<1>2. CASE MockRoutes(k)
  <2>1. OnlyTurn(To(k, Idle)) \/ \E p : RouteCard(k, p, To(k, Idle))
    BY <1>2, Zenon DEF MockRoutes
  <2> QED BY <1>0, <2>1, TurnPlaced, RoutePlaced
<1>3. CASE MockWorks(k)
  <2> DEFINE c == cards[k].column  t == [Idle EXCEPT !.pc = "work", !.col = c]
  <2>1. \/ OnlyTurn(To(k, Idle))
        \/ k \in DOMAIN cards /\ c \in InUse(cols) /\ up /\ OnlyTurn(To(k, t))
    BY <1>3, Zenon DEF MockWorks
  <2>2. CASE k \in DOMAIN cards /\ c \in InUse(cols) /\ up /\ OnlyTurn(To(k, t))
    <3>1. UNCHANGED <<cols, slug, cards, managers, up, disk>> /\ turn' = To(k, t)
      BY <2>2 DEF OnlyTurn, config
    <3>2. CardOk(cards[k], cols, slug, managers, TRUE) /\ ColumnsOk(cols, slug)
      BY <2>2, CardHere DEF Present
    <3>3. c \in Columns /\ slug[c] # NoSlug
      BY <2>2, <3>2, InUseIs
    <3>4. c \in Range(cols[cards[k].pipeline]) /\ cards[k].pipeline \in PIPELINES
      BY <2>2, <3>2, <3>3, ConstantsOK DEF CardOk, Known
    <3>5. \A p \in PIPELINES : c \in Range(cols[p]) => p = cards[k].pipeline
      BY <3>2, <3>4 DEF ColumnsOk
    <3>6. t.col = c
      BY DEF Idle
    <3> HIDE DEF t
    <3>7. Entitled(cards[k], t, cols) /\ TurnFits(t, slug)
      BY <3>2, <3>3, <3>5, <3>6 DEF Entitled, CardOk, TurnFits, Named
    <3>8. turn'[k] = t /\ \A j \in Cards \ {k} : turn'[j] = turn[j]
      BY <3>1 DEF To, LifeInv
    <3>9. \A j \in DOMAIN cards : Entitled(cards[j], turn'[j], cols)
      BY <3>7, <3>8, SameTurns DEF LifeInv
    <3>10. \A j \in Cards : TurnFits(turn'[j], slug)
      BY <3>7, <3>8, SameTurns
    <3> QED BY <3>1, <3>9, <3>10, PutPlaced
  <2> QED BY <1>0, <2>1, <2>2, TurnPlaced
<1>4. CASE MockJudges(k)
  BY <1>4, JudgesPlaced
<1>5. ASSUME NEW f \in Files, MockWrites(k, f) PROVE PlaceInv'
  <2>1. \A j \in Cards : \A y \in DOMAIN disk[j] : y \in DOMAIN disk'[j]
    BY <1>5, LandsPlaced DEF MockWrites
  <2>2. UNCHANGED <<cols, slug, cards, managers, up>> /\ turn[k].pc = "work"
        /\ turn' = [turn EXCEPT ![k].pc = "judge"]
    BY <1>5 DEF MockWrites, config
  <2>3. \A j \in Cards \ {k} : turn'[j] = turn[j]
    BY <2>2 DEF LifeInv
  <2>4. turn'[k] = [turn[k] EXCEPT !.pc = "judge"]
    BY <2>2 DEF LifeInv
  <2>5. turn'[k].col = turn[k].col
    BY <2>4
  <2>6. \A j \in DOMAIN cards : Entitled(cards[j], turn'[j], cols)
    BY <2>2, <2>3, <2>5, SameTurns DEF LifeInv, Entitled
  <2>7. \A j \in Cards : TurnFits(turn'[j], slug)
    BY <2>3, <2>5, SameTurns DEF TurnFits
  <2> QED BY <2>1, <2>2, <2>6, <2>7, PutPlaced
<1> QED BY <1>1, <1>2, <1>3, <1>4, <1>5 DEF MockSteps

-----------------------------------------------------------------------------
(* The columns, the managers and the process.                              *)

\* The cards are written, whatever became of the columns.
LEMMA AllPlaced ==
    ASSUME LifeInv, PlaceInv, up, Follows(cols, slug, cols', slug'),
           NEW cd, DOMAIN cd = DOMAIN cards, NEW ch, NEW mg, ManagersOk(mg),
           \A k \in DOMAIN cards : /\ CardOk(cd[k], cols', slug', mg, TRUE)
                                   /\ Housed(cd[k], disk'[k], cols', slug')
                                   /\ Grants(cards[k], cd[k]),
           Saved(cd, ch, mg, gone, turn)
    PROVE  PlaceInv'
<1>1. cards' = cd /\ managers' = mg /\ up' = TRUE /\ turn' = turn
  BY DEF Saved
<1>2. ASSUME NEW k \in DOMAIN cards PROVE Entitled(cd[k], turn[k], cols')
  <2>1. Entitled(cards[k], turn[k], cols) /\ TurnFits(turn[k], slug)
    BY <1>2, SameTurns DEF LifeInv
  <2>2. Entitled(cards[k], turn[k], cols')
    BY <2>1, TurnStays
  <2> QED BY <1>2, <2>2, GrantsRights
<1>3. \A k \in Cards : TurnFits(turn[k], slug')
  BY SameTurns, TurnStays
<1> QED BY <1>1, <1>2, <1>3 DEF PlaceInv, Follows

\* A card that is written as it was stays in its column and its folder.
LEMMA AsItWas ==
    ASSUME LifeInv, PlaceInv, up, NEW k \in DOMAIN cards
    PROVE  /\ CardOk(cards[k], cols, slug, managers, TRUE)
           /\ Housed(cards[k], disk[k], cols, slug) /\ Grants(cards[k], cards[k])
           /\ k \in Cards
  BY GoodCards DEF CardGood, LifeInv, Grants

LEMMA ColumnsAre == ASSUME PlaceInv PROVE ColumnsOk(cols, slug) /\ ManagersOk(managers)
  BY DEF PlaceInv

LEMMA OwnerStays ==
    ASSUME NEW r, NEW mg, NEW mg2, NEW cl, NEW sl, NEW u, CardOk(r, cl, sl, mg, u),
           r.owner \in Range(mg2)
    PROVE  CardOk(r, cl, sl, mg2, u)
  BY DEF CardOk

LEMMA AddManagerPlaced ==
    ASSUME LifeInv, PlaceInv, NEW m \in Managers, AddManager(m)
    PROVE  PlaceInv'
<1> DEFINE mg == Append(managers, m)
<1>1. /\ up /\ Saved(cards, chats, mg, gone, turn) /\ UNCHANGED <<cols, slug, disk>>
  BY DEF AddManager, config
<1>2. ManagersOk(managers)
  BY ColumnsAre
<1>3. mg \in Seq(Managers) /\ mg # <<>> /\ Range(managers) \subseteq Range(mg)
  BY <1>2 DEF ManagersOk, Range
<1> HIDE DEF mg
<1>4. \A k \in DOMAIN cards : CardOk(cards[k], cols, slug, mg, TRUE)
  BY <1>1, <1>3, AsItWas, OwnerStays DEF CardOk
<1> QED BY <1>1, <1>3, <1>4, AsItWas, SameColumns, AllPlaced DEF ManagersOk

LEMMA RemoveManagerPlaced ==
    ASSUME LifeInv, PlaceInv, NEW m, RemoveManager(m)
    PROVE  PlaceInv'
<1> DEFINE rest == RemoveAt(managers, Position(managers, m))
           cd == [k \in DOMAIN cards |->
                     IF cards[k].owner = m THEN [cards[k] EXCEPT !.owner = Head(rest)]
                     ELSE cards[k]]
<1>1. /\ up /\ m \in Range(managers) /\ Len(managers) > 1
      /\ Saved(cd, chats, rest, gone, turn) /\ UNCHANGED <<cols, slug, disk>>
  BY Zenon DEF RemoveManager, config
<1>2. managers \in Seq(Managers)
  BY ColumnsAre DEF ManagersOk
<1>3. /\ rest \in Seq(Managers) /\ Len(rest) = Len(managers) - 1
      /\ Range(managers) \ {m} \subseteq Range(rest)
  BY <1>1, <1>2, Removed
<1> HIDE DEF rest
<1>4. rest # <<>>
  BY <1>1, <1>2, <1>3
<1>5. Head(rest) \in Range(rest)
  BY <1>3, <1>4, HeadIn
<1>6. ASSUME NEW k \in DOMAIN cards
      PROVE  /\ CardOk(cd[k], cols, slug, rest, TRUE) /\ Housed(cd[k], disk[k], cols, slug)
             /\ Grants(cards[k], cd[k])
  <2>1. /\ CardOk(cards[k], cols, slug, managers, TRUE)
        /\ Housed(cards[k], disk[k], cols, slug) /\ Grants(cards[k], cards[k])
    BY <1>1, AsItWas
  <2>2. CASE cards[k].owner # m
    <3>1. cd[k] = cards[k]
      BY <2>2
    <3>2. cards[k].owner \in Range(rest)
      BY <1>3, <2>1, <2>2 DEF CardOk
    <3> QED BY <2>1, <3>1, <3>2, OwnerStays
  <2>3. CASE cards[k].owner = m
    <3> DEFINE rec == [cards[k] EXCEPT !.owner = Head(rest)]
    <3>1. cd[k] = rec
      BY <2>3
    <3>2. DOMAIN cards[k] = CardFields
      BY <2>1 DEF CardOk, Sound
    <3>3. /\ DOMAIN rec = CardFields /\ rec.pipeline = cards[k].pipeline
          /\ rec.column = cards[k].column /\ rec.from = cards[k].from /\ rec.dir = cards[k].dir
          /\ rec.trashed = cards[k].trashed /\ rec.owner = Head(rest) /\ rec.kind = cards[k].kind
          /\ (rec.planned <=> cards[k].planned) /\ (rec.free <=> cards[k].free)
      BY <3>2 DEF CardFields
    <3> HIDE DEF rec, cd
    <3>4. Grants(cards[k], rec)
      BY <3>3 DEF Grants
    <3>5. CardOk(rec, cols, slug, rest, TRUE)
      BY <1>5, <2>1, <3>3 DEF CardOk, Sound, Rights, Somewhere
    <3>6. Housed(rec, disk[k], cols, slug)
      BY <2>1, <3>3 DEF Housed, HomeOf
    <3> QED BY <3>1, <3>4, <3>5, <3>6
  <2> QED BY <2>2, <2>3
<1>7. DOMAIN cd = DOMAIN cards
  OBVIOUS
<1> HIDE DEF cd
<1> QED BY <1>1, <1>3, <1>4, <1>6, <1>7, SameColumns, AllPlaced DEF ManagersOk

\* The cards, the folders and their homes stay as they were when the columns
\* that hold cards do.
LEMMA StayPlaced ==
    ASSUME LifeInv, PlaceInv, up, Follows(cols, slug, cols', slug'), UNCHANGED disk,
           \A p \in PIPELINES : Range(cols[p]) \subseteq Range(cols'[p]),
           \A c \in InUse(cols) : slug'[c] = slug[c],
           NEW ch, Saved(cards, ch, managers, gone, turn) \/ Dies
    PROVE  PlaceInv'
<1>1. ASSUME NEW k \in DOMAIN cards
      PROVE  /\ CardOk(cards[k], cols', slug', managers, TRUE)
             /\ Housed(cards[k], disk'[k], cols', slug') /\ Grants(cards[k], cards[k])
  <2> DEFINE r == cards[k]
  <2>1. /\ CardOk(r, cols, slug, managers, TRUE)
        /\ Housed(r, disk[k], cols, slug) /\ Grants(r, r)
    BY AsItWas
  <2> HIDE DEF r
  <2>2. CASE r.trashed
    BY <2>1, <2>2, CardStays DEF Housed, r
  <2>3. CASE ~r.trashed
    <3>1. \/ r.pipeline = "backlog" /\ r.column = NoColumn
          \/ r.pipeline \in PIPELINES /\ r.column \in Range(cols[r.pipeline])
      BY <2>1, <2>3 DEF CardOk, Somewhere
    <3>2. Somewhere(r, cols', TRUE)
      BY <3>1 DEF Somewhere
    <3>3. CardOk(r, cols', slug', managers, TRUE)
      BY <2>1, <3>2, CardStays
    <3>4. HomeOf(r, cols', slug') = HomeOf(r, cols, slug)
      <4>1. CASE r.column = NoColumn
        <5>1. r.column \notin InUse(cols) /\ r.column \notin InUse(cols')
          BY <4>1, InUseIs, ConstantsOK DEF Follows
        <5> QED BY <5>1, HomeStays DEF Follows
      <4>2. CASE r.pipeline \in PIPELINES /\ r.column \in Range(cols[r.pipeline])
        <5>1. r.column \in InUse(cols)
          BY <4>2 DEF InUse
        <5>2. r.column \in Range(cols'[r.pipeline]) /\ slug'[r.column] = slug[r.column]
          BY <4>2, <5>1
        <5> QED BY <4>2, <5>2, HomeStays DEF Follows
      <4> QED BY <3>1, <4>1, <4>2
    <3> QED BY <2>1, <2>3, <3>3, <3>4 DEF Housed, r
  <2> QED BY <2>2, <2>3
<1>2. CASE Dies
  <2>1. \A k \in DOMAIN cards : cards[k].trashed \/ Somewhere(cards[k], cols', FALSE)
    BY <1>1 DEF CardOk, Somewhere
  <2> QED BY <1>2, <2>1, DeadPlaced
<1>3. CASE Saved(cards, ch, managers, gone, turn)
  BY <1>1, <1>3, ColumnsAre, AllPlaced
<1> QED BY <1>2, <1>3

LEMMA AddColumnPlaced ==
    ASSUME LifeInv, PlaceInv, NEW p \in PIPELINES, NEW title \in Titles, NEW gate,
           AddColumn(p, title, gate)
    PROVE  PlaceInv'
<1>1. PICK c \in Columns :
        /\ slug[c] = NoSlug /\ cols' = Appended(cols, p, c)
        /\ slug' = [slug EXCEPT ![c] = UniqueSlug(cols, slug, p, title, c)]
        /\ Written(cards, chats, managers, gone, turn) \/ Dies
  BY Zenon DEF AddColumn
<1>2. up /\ UNCHANGED disk
  BY DEF AddColumn
<1>3. ColumnsOk(cols, slug)
  BY ColumnsAre
<1>4. /\ Follows(cols, slug, cols', slug')
      /\ \A q \in PIPELINES : Range(cols[q]) \subseteq Range(cols'[q])
      /\ \A d \in Columns : d # c => slug'[d] = slug[d]
  <2> DEFINE cl2 == Appended(cols, p, c)
             sl2 == [slug EXCEPT ![c] = UniqueSlug(cols, slug, p, title, c)]
  <2>0. slug[c] = NoSlug
    BY <1>1
  <2>1. /\ Follows(cols, slug, cl2, sl2)
        /\ \A q \in PIPELINES : Range(cols[q]) \subseteq Range(cl2[q])
        /\ \A d \in Columns : d # c => sl2[d] = slug[d]
    BY <1>3, <2>0, AppendedOk
  <2>2. cols' = cl2 /\ slug' = sl2
    BY <1>1
  <2> HIDE DEF cl2, sl2
  <2> QED BY <2>1, <2>2
<1>5. \A d \in InUse(cols) : slug'[d] = slug[d]
  BY <1>1, <1>3, <1>4, InUseIs
<1> QED BY <1>1, <1>2, <1>4, <1>5, StayPlaced DEF Written

LEMMA EditedIs ==
    ASSUME PlaceInv, NEW c, Editing(c)
    PROVE  up /\ c \in InUse(cols) /\ ColumnsOk(cols, slug)
  BY ColumnsAre, ConstantsOK DEF Editing, InUse

LEMMA ReorderPlaced ==
    ASSUME LifeInv, PlaceInv, NEW c, NEW i, ReorderColumn(c, i)
    PROVE  PlaceInv'
<1>1. up /\ c \in InUse(cols) /\ ColumnsOk(cols, slug)
  BY EditedIs DEF ReorderColumn
<1>2. i \in 1..Len(cols[PipelineOf(cols, c)]) /\ cols' = Reordered(cols, c, i)
      /\ UNCHANGED <<slug, disk>> /\ Saved(cards, chats, managers, gone, turn)
  BY DEF ReorderColumn, Saved
<1>3. /\ Follows(cols, slug, cols', slug')
      /\ \A q \in PIPELINES : Range(cols'[q]) = Range(cols[q])
  BY <1>1, <1>2, ReorderedOk
<1> QED BY <1>1, <1>2, <1>3, StayPlaced

LEMMA GatePlaced ==
    ASSUME LifeInv, PlaceInv, NEW c, SetColumnGate(c) \/ OpenWorkerChat(c)
    PROVE  PlaceInv'
<1>1. up /\ UNCHANGED <<cols, slug, disk>>
      /\ \E ch : Saved(cards, ch, managers, gone, turn)
  BY EditedIs DEF SetColumnGate, OpenWorkerChat, Saved, config
<1> QED BY <1>1, SameColumns, StayPlaced

LEMMA HomeIs ==
    ASSUME NEW cl, NEW sl, NEW r, r.column \in InUse(cl)
    PROVE  HomeOf(r, cl, sl) = KeyOf(cl, sl, r.column)
  BY DEF HomeOf

\* A column is renamed: its folder moves in every card's tree, and the cards
\* that are in it are told; no other card's folder has its name.
LEMMA RenamePlaced ==
    ASSUME LifeInv, PlaceInv, NEW c, NEW title \in Titles, RenameColumn(c, title)
    PROVE  PlaceInv'
<1> DEFINE old == KeyOf(cols, slug, c)
           new == KeyOf(cols, slug', c)
           in(k) == k \in DOMAIN cards /\ cards[k].column = c /\ ~cards[k].trashed
           moved == [k \in Cards |-> Carried(disk[k], old, new)]
           cd == [k \in DOMAIN cards |->
                     IF in(k) THEN [cards[k] EXCEPT !.dir = new] ELSE cards[k]]
<1>1. up /\ c \in InUse(cols) /\ ColumnsOk(cols, slug)
  BY EditedIs DEF RenameColumn
<1>2. cols' = cols /\ slug' = Retitled(c, title)
  BY DEF RenameColumn
<1>3. Follows(cols, slug, cols', slug') /\ \A d \in Columns : d # c => slug'[d] = slug[d]
  <2> DEFINE sl2 == [slug EXCEPT ![c] = UniqueSlug(cols, slug, PipelineOf(cols, c), title, c)]
  <2>1. Follows(cols, slug, cols, sl2) /\ \A d \in Columns : d # c => sl2[d] = slug[d]
    BY <1>1, RenamedOk
  <2>2. slug' = sl2
    BY <1>2 DEF Retitled
  <2> HIDE DEF sl2
  <2> QED BY <1>2, <2>1, <2>2
<1>4. \/ /\ disk' = [k \in Cards |-> IF in(k) THEN Follow(moved[k], cards[k].dir, new)
                                     ELSE moved[k]]
         /\ Written(cd, ReKeyed(chats, old, new), managers, gone, turn)
      \/ Dies
  BY Zenon DEF RenameColumn
<1>5. CASE Dies
  <2>1. \A k \in DOMAIN cards : cards[k].trashed \/ Somewhere(cards[k], cols', FALSE)
    BY <1>1, <1>2, AsItWas DEF CardOk, Somewhere
  <2> QED BY <1>3, <1>5, <2>1, DeadPlaced
<1>6. CASE /\ disk' = [k \in Cards |-> IF in(k) THEN Follow(moved[k], cards[k].dir, new)
                                       ELSE moved[k]]
           /\ Saved(cd, ReKeyed(chats, old, new), managers, gone, turn)
  <2>1. ASSUME NEW k \in DOMAIN cards
        PROVE  /\ CardOk(cd[k], cols', slug', managers, TRUE)
               /\ Housed(cd[k], disk'[k], cols', slug') /\ Grants(cards[k], cd[k])
    <3> DEFINE r == cards[k]
    <3>1. /\ CardOk(r, cols, slug, managers, TRUE)
          /\ Housed(r, disk[k], cols, slug) /\ Grants(r, r) /\ k \in Cards
      BY <1>1, AsItWas
    <3>2. r.trashed \/ Somewhere(r, cols', TRUE)
      BY <1>2, <3>1 DEF CardOk
    <3>3. CardOk(r, cols', slug', managers, TRUE)
      BY <1>3, <3>1, <3>2, CardStays
    <3>4. CASE in(k)
      <4> DEFINE rec == [r EXCEPT !.dir = new]
      <4>1. cd[k] = rec /\ disk'[k] = Follow(moved[k], cards[k].dir, new)
        BY <1>6, <3>1, <3>4
      <4>2. DOMAIN r = CardFields
        BY <3>1 DEF CardOk, Sound
      <4> HIDE DEF new
      <4>3. /\ DOMAIN rec = CardFields /\ rec.pipeline = r.pipeline
            /\ rec.column = r.column /\ rec.from = r.from /\ rec.dir = new
            /\ rec.trashed = r.trashed /\ rec.owner = r.owner /\ rec.kind = r.kind
            /\ (rec.planned <=> r.planned) /\ (rec.free <=> r.free)
        BY <4>2 DEF CardFields
      <4>4. ~r.trashed /\ r.column = c
        BY <3>4
      <4> HIDE DEF rec, r, in, cd, moved
      <4>5. Grants(r, rec)
        BY <4>3 DEF Grants
      <4>6. CardOk(rec, cols', slug', managers, TRUE)
        BY <3>3, <4>3, <4>4 DEF CardOk, Sound, Rights, Somewhere
      <4>7. HomeOf(rec, cols', slug') = new
        BY <1>1, <1>2, <4>3, <4>4 DEF HomeOf, new
      <4>8. Housed(rec, disk'[k], cols', slug')
        BY <4>1, <4>3, <4>7, FollowHas DEF Housed
      <4> QED BY <4>1, <4>5, <4>6, <4>8 DEF r
    <3>5. CASE ~in(k)
      <4>1. cd[k] = r /\ disk'[k] = Carried(disk[k], old, new)
        BY <1>6, <3>1, <3>5
      <4>2. r.trashed \/ r.column # c
        BY <3>5
      <4> HIDE DEF r, in, cd, moved, old, new
      <4>3. CASE r.trashed
        BY <3>1, <3>3, <4>1, <4>3 DEF Housed, r
      <4>4. CASE ~r.trashed
        <5>1. r.dir = HomeOf(r, cols, slug) /\ r.dir \in DOMAIN disk[k]
          BY <3>1, <4>4 DEF Housed
        <5>2. r.dir # old /\ HomeOf(r, cols', slug') = HomeOf(r, cols, slug)
          <6>1. CASE r.column \in InUse(cols)
            <7>1. HomeOf(r, cols, slug) = KeyOf(cols, slug, r.column)
              BY <6>1, HomeIs
            <7>2. HomeOf(r, cols, slug) # old
              BY <1>1, <4>2, <4>4, <6>1, <7>1, KeyIs DEF old
            <7>3. r.column \in Columns
              BY <1>1, <6>1, InUseIs
            <7>4. HomeOf(r, cols', slug') = HomeOf(r, cols, slug)
              BY <1>2, <1>3, <4>2, <4>4, <6>1, <7>3 DEF HomeOf, KeyOf
            <7> QED BY <5>1, <7>2, <7>4
          <6>2. CASE r.column \notin InUse(cols)
            <7>1. HomeOf(r, cols, slug) = Backlog /\ HomeOf(r, cols', slug') = Backlog
              BY <1>2, <6>2 DEF HomeOf
            <7>2. old # Backlog
              BY <1>1, KeyIs DEF old
            <7> QED BY <5>1, <7>1, <7>2
          <6> QED BY <6>1, <6>2
        <5>3. r.dir \in DOMAIN Carried(disk[k], old, new)
          BY <5>1, <5>2, CarriedKeeps
        <5> QED BY <3>1, <3>3, <4>1, <5>1, <5>2, <5>3 DEF Housed, r
      <4> QED BY <4>3, <4>4
    <3> QED BY <3>4, <3>5
  <2>2. DOMAIN cd = DOMAIN cards
    OBVIOUS
  <2> HIDE DEF cd
  <2> QED BY <1>1, <1>3, <1>6, <2>1, <2>2, ColumnsAre, AllPlaced
<1> HIDE DEF cd, moved, in, new, old
<1> QED BY <1>4, <1>5, <1>6 DEF Written

\* The column beside one of a pipeline that has others.
LEMMA FallbackIs ==
    ASSUME NEW s \in Seq(Columns), Distinct(s), NEW c \in Range(s), Len(s) > 1
    PROVE  LET i == Position(s, c)
               d == s[IF i > 1 THEN i - 1 ELSE i + 1]
           IN  d \in Range(s) /\ d # c
<1> DEFINE i == Position(s, c)  j == IF i > 1 THEN i - 1 ELSE i + 1
<1>1. i \in 1..Len(s) /\ s[i] = c /\ Len(s) \in Nat
  BY PositionIs, RangeIs
<1> HIDE DEF i
<1>2. j \in 1..Len(s) /\ j # i
  BY <1>1
<1> HIDE DEF j
<1>3. s[j] \in Range(s) /\ s[j] # c
  BY <1>1, <1>2, RangeIs DEF Distinct
<1> QED BY <1>3 DEF i, j

\* A column is deleted: the cards in it fall back beside it, in their pipeline.
LEMMA DeletePlaced ==
    ASSUME LifeInv, PlaceInv, NEW c, DeleteColumn(c)
    PROVE  PlaceInv'
<1> DEFINE p == PipelineOf(cols, c)
           i == Position(cols[p], c)
           fallback == cols[p][IF i > 1 THEN i - 1 ELSE i + 1]
           home == KeyOf(cols, slug, fallback)
           stranded(k) == k \in DOMAIN cards /\ cards[k].column = c /\ ~cards[k].trashed
           cd == [k \in DOMAIN cards |->
                     IF stranded(k) THEN [cards[k] EXCEPT !.column = fallback, !.dir = home]
                     ELSE cards[k]]
<1>1. up /\ c \in InUse(cols) /\ ColumnsOk(cols, slug)
  BY EditedIs DEF DeleteColumn
<1>2. /\ Len(cols[p]) > 1 /\ slug' = slug
      /\ disk' = [k \in Cards |-> IF stranded(k) THEN Follow(disk[k], cards[k].dir, home)
                                  ELSE disk[k]]
      /\ \/ cols' = Without(cols, c) /\ Recorded(cd, turn)
         \/ Dies /\ cols' = cols
  BY Zenon DEF DeleteColumn, DiesAdrift
<1>3. p \in PIPELINES /\ c \in Range(cols[p]) /\ c \in Columns /\ slug[c] # NoSlug
  BY <1>1, InUseIs
<1>4. cols[p] \in Seq(Columns) /\ Distinct(cols[p])
  BY <1>1, <1>3 DEF ColumnsOk
<1>5. fallback \in Range(cols[p]) /\ fallback # c
  BY <1>2, <1>3, <1>4, FallbackIs
<1>6. CASE Dies /\ cols' = cols
  BY <1>2, <1>6, DeadAsItWas
<1>7. CASE cols' = Without(cols, c) /\ Recorded(cd, turn)
  <2>1. /\ Follows(cols, slug, cols', slug')
        /\ c \notin InUse(cols')
        /\ \A q \in PIPELINES : Range(cols[q]) \ {c} \subseteq Range(cols'[q])
    <3> DEFINE cl2 == Without(cols, c)
    <3>1. /\ Follows(cols, slug, cl2, slug) /\ c \notin InUse(cl2)
          /\ \A q \in PIPELINES : Range(cols[q]) \ {c} \subseteq Range(cl2[q])
      BY <1>1, <1>2, WithoutOk
    <3>2. cols' = cl2 /\ slug' = slug
      BY <1>2, <1>7
    <3> HIDE DEF cl2
    <3> QED BY <3>1, <3>2
  <2>2. fallback \in Range(cols'[p])
    BY <1>3, <1>5, <2>1
  <2>3. fallback \in Columns /\ fallback \in InUse(cols) /\ fallback \in InUse(cols')
        /\ PipelineOf(cols, fallback) = p /\ PipelineOf(cols', fallback) = p
        /\ Named(fallback, slug')
    <3>1. ColumnsOk(cols', slug')
      BY <2>1 DEF Follows
    <3>2. fallback \in Columns /\ fallback \in InUse(cols) /\ PipelineOf(cols, fallback) = p
      BY <1>1, <1>3, <1>5, PipelineIs
    <3>3. fallback \in InUse(cols') /\ PipelineOf(cols', fallback) = p
      BY <1>3, <2>2, <3>1, PipelineIs
    <3>4. slug'[fallback] # NoSlug
      BY <3>1, <3>3, InUseIs
    <3> QED BY <3>2, <3>3, <3>4 DEF Named
  <2> HIDE DEF fallback, i
  <2>4. home = KeyOf(cols', slug', fallback)
    BY <1>2, <2>3 DEF KeyOf
  <2>5. c # NoColumn
    BY <1>3, ConstantsOK
  <2>6. ASSUME NEW k \in DOMAIN cards, ~stranded(k)
        PROVE  cards[k].trashed \/ Somewhere(cards[k], cols', TRUE)
    <3>1. CardOk(cards[k], cols, slug, managers, TRUE)
      BY <1>1, AsItWas
    <3>2. cards[k].trashed \/ cards[k].column # c
      BY <2>6
    <3> HIDE DEF stranded
    <3> QED BY <2>1, <3>1, <3>2 DEF CardOk, Somewhere
  <2>7. ASSUME NEW k \in DOMAIN cards, stranded(k)
        PROVE  cards[k].column = c /\ ~cards[k].trashed /\ cards[k].pipeline = p
    <3>1. CardOk(cards[k], cols, slug, managers, TRUE) /\ cards[k].column = c /\ ~cards[k].trashed
      BY <1>1, <2>7, AsItWas
    <3>2. cards[k].pipeline \in PIPELINES /\ c \in Range(cols[cards[k].pipeline])
      BY <1>1, <2>5, <3>1 DEF CardOk, Known
    <3>3. p = cards[k].pipeline
      BY <1>1, <3>2, PipelineIs
    <3> QED BY <3>1, <3>3
  <2>8. CASE Dies
    <3>1. ASSUME NEW k \in DOMAIN cards
          PROVE  cards[k].trashed \/ Somewhere(cards[k], cols', FALSE)
      <4>1. CASE ~stranded(k)
        BY <2>6, <4>1 DEF Somewhere
      <4>2. CASE stranded(k)
        <5>1. cards[k].column = c /\ cards[k].pipeline # "backlog"
          BY <1>3, <2>7, <4>2, PlacesAre
        <5> QED BY <2>1, <5>1 DEF Somewhere
      <4> QED BY <4>1, <4>2
    <3> QED BY <2>1, <2>8, <3>1, DeadPlaced
  <2>9. CASE Saved(cd, chats, managers, gone, turn)
    <3>1. ASSUME NEW k \in DOMAIN cards
          PROVE  /\ CardOk(cd[k], cols', slug', managers, TRUE)
                 /\ Housed(cd[k], disk'[k], cols', slug') /\ Grants(cards[k], cd[k])
      <4> DEFINE r == cards[k]
      <4>1. /\ CardOk(r, cols, slug, managers, TRUE)
            /\ Housed(r, disk[k], cols, slug) /\ Grants(r, r) /\ k \in Cards
        BY <1>1, AsItWas
      <4>2. CASE ~stranded(k)
        <5>1. cd[k] = r /\ disk'[k] = disk[k]
          BY <1>2, <4>1, <4>2
        <5>2. r.trashed \/ (Somewhere(r, cols', TRUE) /\ r.column # c)
          BY <2>6, <4>2
        <5> HIDE DEF stranded, cd, home
        <5>3. CardOk(r, cols', slug', managers, TRUE)
          BY <2>1, <4>1, <5>2, CardStays
        <5>4. CASE r.trashed
          BY <4>1, <5>1, <5>3, <5>4 DEF Housed
        <5>5. CASE ~r.trashed
          <6>1. HomeOf(r, cols', slug') = HomeOf(r, cols, slug)
            <7>1. CASE r.column \notin InUse(cols)
              <8>1. r.column \notin InUse(cols')
                BY <1>1, <2>1, <4>1, <5>2, <5>5, <7>1, InUseIs, ConstantsOK
                   DEF Somewhere, InUse, CardOk, Follows
              <8> QED BY <1>1, <2>1, <7>1, <8>1, HomeStays DEF Follows
            <7>2. CASE r.column \in InUse(cols)
              <8>1. PICK q \in PIPELINES : r.column \in Range(cols[q])
                BY <7>2 DEF InUse
              <8>2. r.column \in Range(cols'[q])
                BY <2>1, <5>2, <5>5, <8>1
              <8> QED BY <1>1, <1>2, <2>1, <8>1, <8>2, HomeStays DEF Follows
            <7> QED BY <7>1, <7>2
          <6> QED BY <4>1, <5>1, <5>3, <5>5, <6>1 DEF Housed
        <5> QED BY <5>4, <5>5
      <4>3. CASE stranded(k)
        <5> DEFINE rec == [r EXCEPT !.column = fallback, !.dir = home]
        <5>1. cd[k] = rec /\ disk'[k] = Follow(disk[k], r.dir, home)
          BY <1>2, <4>1, <4>3
        <5>2. r.column = c /\ ~r.trashed /\ r.pipeline = p
          BY <2>7, <4>3
        <5> HIDE DEF stranded, cd, home
        <5>3. DOMAIN r = CardFields
          BY <4>1 DEF CardOk, Sound
        <5> HIDE DEF r, p
        <5>4. /\ DOMAIN rec = CardFields /\ rec.pipeline = r.pipeline
              /\ rec.column = fallback /\ rec.from = r.from /\ rec.dir = home
              /\ rec.trashed = r.trashed /\ rec.owner = r.owner /\ rec.kind = r.kind
              /\ (rec.planned <=> r.planned) /\ (rec.free <=> r.free)
          BY <5>3 DEF CardFields
        <5> HIDE DEF rec
        <5>5. Grants(r, rec)
          BY <5>4 DEF Grants
        <5>6. Known(fallback, p, cols', slug') /\ Somewhere(rec, cols', TRUE)
          BY <1>3, <2>2, <2>3, <5>2, <5>4 DEF Known, Somewhere
        <5>7. Known(r.from, p, cols', slug')
          BY <2>1, <4>1, <5>2, KnownStays DEF CardOk
        <5>8. Rights(rec, p)
          BY <4>1, <5>2, <5>5, GrantsRights DEF CardOk
        <5>9. r.from = NoColumn
          BY <4>1, <5>2 DEF CardOk
        <5>10. CardOk(rec, cols', slug', managers, TRUE)
          BY <4>1, <5>2, <5>4, <5>6, <5>7, <5>8, <5>9 DEF CardOk, Sound
        <5>11. HomeOf(rec, cols', slug') = home
          BY <2>3, <2>4, <5>4, HomeIs
        <5>12. Housed(rec, disk'[k], cols', slug')
          BY <5>1, <5>4, <5>11, FollowHas DEF Housed
        <5> QED BY <5>1, <5>5, <5>10, <5>12 DEF r
      <4> QED BY <4>2, <4>3
    <3>2. DOMAIN cd = DOMAIN cards
      OBVIOUS
    <3> HIDE DEF cd
    <3> QED BY <1>1, <2>1, <2>9, <3>1, <3>2, ColumnsAre, AllPlaced
  <2> QED BY <1>7, <2>8, <2>9 DEF Recorded, DiesAdrift
<1> QED BY <1>2, <1>6, <1>7

LEMMA ColumnPlaced ==
    ASSUME LifeInv, PlaceInv, ColumnSteps
    PROVE  PlaceInv'
<1>1. CASE \E m \in Managers : AddManager(m) \/ RemoveManager(m)
  BY <1>1, AddManagerPlaced, RemoveManagerPlaced
<1>2. CASE \E p \in Edited, t \in Titles, gate \in NewGates : AddColumn(p, t, gate)
  BY <1>2, ConstantsOK, AddColumnPlaced
<1>3. CASE \E c \in Columns, t \in Titles : RenameColumn(c, t)
  BY <1>3, RenamePlaced
<1>4. CASE \E c \in Columns, i \in 1..Cardinality(Columns) : ReorderColumn(c, i)
  BY <1>4, ReorderPlaced
<1>5. CASE \E c \in Columns : SetColumnGate(c) \/ DeleteColumn(c) \/ OpenWorkerChat(c)
  BY <1>5, GatePlaced, DeletePlaced
<1> QED BY <1>1, <1>2, <1>3, <1>4, <1>5 DEF ColumnSteps

\* A fresh board: each pipeline has its own columns, and nobody has a card.
LEMMA InitPlaced == Init => PlaceInv
<1> SUFFICES ASSUME Init PROVE PlaceInv
  OBVIOUS
<1>1. cols = Seeded /\ slug = SeedSlug /\ cards = <<>> /\ managers = <<First>>
      /\ turn = [k \in Cards |-> Idle]
  BY DEF Init
<1>2. /\ Seeded \in [PIPELINES -> Seq(Columns) \ {<<>>}] /\ SeedTitle \in [Columns -> Titles]
      /\ \A p, q \in PIPELINES : \A i \in DOMAIN Seeded[p], j \in DOMAIN Seeded[q] :
            Seeded[p][i] = Seeded[q][j] => p = q /\ i = j
      /\ \A p \in PIPELINES : \A i, j \in DOMAIN Seeded[p] :
            SeedTitle[Seeded[p][i]] = SeedTitle[Seeded[p][j]] => i = j
      /\ First \in Managers
  BY ConstantsOK
<1>3. ColumnsOk(Seeded, SeedSlug)
  <2>1. Seeded \in [PIPELINES -> Seq(Columns)] /\ \A p \in PIPELINES : Seeded[p] # <<>>
    BY <1>2
  <2>2. \A p \in PIPELINES : Distinct(Seeded[p])
    BY <1>2 DEF Distinct
  <2>3. ASSUME NEW p \in PIPELINES, NEW q \in PIPELINES, p # q
        PROVE  Range(Seeded[p]) \cap Range(Seeded[q]) = {}
    <3> SUFFICES ASSUME NEW c \in Range(Seeded[p]), c \in Range(Seeded[q]) PROVE FALSE
      OBVIOUS
    <3>1. PICK i \in DOMAIN Seeded[p] : Seeded[p][i] = c
      BY DEF Range
    <3>2. PICK j \in DOMAIN Seeded[q] : Seeded[q][j] = c
      BY DEF Range
    <3> QED BY <1>2, <2>3, <3>1, <3>2
  <2>4. \A c \in InUse(Seeded) : c \in Columns /\ <<SeedTitle[c], 1>> \in Titles \X Nat
    <3> SUFFICES ASSUME NEW c \in InUse(Seeded) PROVE c \in Columns
      BY <1>2
    <3>1. PICK p \in PIPELINES : c \in Range(Seeded[p])
      BY DEF InUse
    <3> QED BY <2>1, <3>1, RangeIs
  <2>5. SeedSlug \in [Columns -> (Titles \X Nat) \cup {NoSlug}]
        /\ \A c \in InUse(Seeded) : SeedSlug[c] = <<SeedTitle[c], 1>>
    BY <2>4 DEF SeedSlug
  <2>6. \A c \in InUse(Seeded) : SeedSlug[c] # NoSlug
    BY <2>5 DEF NoSlug
  <2>7. ASSUME NEW p \in PIPELINES, NEW c \in Range(Seeded[p]), NEW d \in Range(Seeded[p]),
               SeedSlug[c] = SeedSlug[d]
        PROVE  c = d
    <3>1. c \in InUse(Seeded) /\ d \in InUse(Seeded)
      BY DEF InUse
    <3>2. SeedTitle[c] = SeedTitle[d]
      BY <2>5, <2>7, <3>1
    <3>3. PICK i \in DOMAIN Seeded[p] : Seeded[p][i] = c
      BY DEF Range
    <3>4. PICK j \in DOMAIN Seeded[p] : Seeded[p][j] = d
      BY DEF Range
    <3> QED BY <1>2, <3>2, <3>3, <3>4
  <2> QED BY <2>1, <2>2, <2>3, <2>5, <2>6, <2>7 DEF ColumnsOk
<1>4. ManagersOk(managers)
  BY <1>1, <1>2 DEF ManagersOk
<1>5. DOMAIN cards = {}
  BY <1>1
<1>6. \A k \in Cards : TurnFits(turn[k], slug)
  BY <1>1, IdleFits
<1> QED BY <1>1, <1>3, <1>4, <1>5, <1>6 DEF PlaceInv

\* When the board comes up, a card whose column is gone is put into the backlog, and
\* every card's folder is brought to its place.
LEMMA BootPlaced ==
    ASSUME LifeInv, PlaceInv, Boot
    PROVE  PlaceInv'
<1> DEFINE lost(k) == ~cards[k].trashed /\ cards[k].pipeline # "backlog"
                         /\ cards[k].column \notin InUse(cols)
           placed == [k \in DOMAIN cards |->
                         IF lost(k) THEN [cards[k] EXCEPT !.pipeline = "backlog", !.column = NoColumn]
                         ELSE cards[k]]
           stays(k) == k \notin DOMAIN cards \/ placed[k].trashed
           home(k) == HomeOf(placed[k], cols, slug)
           cd == [k \in DOMAIN cards |-> IF stays(k) THEN placed[k]
                                         ELSE [placed[k] EXCEPT !.dir = home(k)]]
<1>1. /\ ~up /\ UNCHANGED <<cols, slug>>
      /\ disk' = [k \in Cards |-> IF stays(k) THEN disk[k]
                                  ELSE Follow(disk[k], placed[k].dir, home(k))]
      /\ Dies \/ (cards' = cd /\ up' = TRUE /\ UNCHANGED <<managers, turn>>)
  BY Zenon DEF Boot, config
<1>2. ASSUME NEW k \in DOMAIN cards
      PROVE  /\ placed[k].trashed = cards[k].trashed /\ Grants(cards[k], placed[k])
             /\ CardOk(placed[k], cols, slug, managers, TRUE)
  <2> DEFINE r == cards[k]
  <2>1. CardOk(r, cols, slug, managers, FALSE)
    BY <1>1, <1>2 DEF PlaceInv, CardOk, Somewhere
  <2>2. CASE lost(k)
    <3> DEFINE rec == [r EXCEPT !.pipeline = "backlog", !.column = NoColumn]
    <3>1. placed[k] = rec /\ ~r.trashed
      BY <1>2, <2>2
    <3> HIDE DEF placed, lost
    <3>2. DOMAIN r = CardFields
      BY <2>1 DEF CardOk, Sound
    <3> HIDE DEF r
    <3>3. /\ DOMAIN rec = CardFields /\ rec.pipeline = "backlog" /\ rec.column = NoColumn
          /\ rec.from = r.from /\ rec.dir = r.dir /\ rec.trashed = r.trashed
          /\ rec.owner = r.owner /\ rec.kind = r.kind
          /\ (rec.planned <=> r.planned) /\ (rec.free <=> r.free)
      BY <3>2 DEF CardFields
    <3> HIDE DEF rec
    <3>4. Grants(r, rec)
      BY <3>3 DEF Grants
    <3>5. Known(rec.column, "backlog", cols, slug) /\ Known(rec.from, "backlog", cols, slug)
      BY <2>1, <3>1, <3>3 DEF CardOk, Known
    <3>6. Rights(rec, "backlog")
      BY DEF Rights, ORIGIN_PIPELINES
    <3>7. CardOk(rec, cols, slug, managers, TRUE)
      BY <2>1, <3>1, <3>3, <3>5, <3>6 DEF CardOk, Sound, Somewhere, Places
    <3> QED BY <3>1, <3>3, <3>4, <3>7 DEF r
  <2>3. CASE ~lost(k)
    <3>1. placed[k] = r
      BY <1>2, <2>3
    <3>2. r.trashed \/ Somewhere(r, cols, TRUE)
      BY <2>1, <2>3 DEF CardOk, Somewhere
    <3> HIDE DEF placed, r
    <3>3. CardOk(r, cols, slug, managers, TRUE)
      BY <2>1, <3>2 DEF CardOk
    <3> QED BY <3>1, <3>3 DEF Grants, r
  <2> QED BY <2>2, <2>3
<1> HIDE DEF placed
<1>3. ASSUME NEW k \in DOMAIN cards
      PROVE  /\ CardOk(cd[k], cols, slug, managers, TRUE)
             /\ Housed(cd[k], disk'[k], cols, slug) /\ Grants(cards[k], cd[k])
  <2> DEFINE r == placed[k]
  <2>1. k \in Cards
    BY <1>3 DEF LifeInv
  <2>2. CASE r.trashed
    <3>1. cd[k] = r
      BY <1>3, <2>2
    <3> HIDE DEF cd
    <3> QED BY <1>2, <1>3, <2>2, <3>1 DEF Housed
  <2>3. CASE ~r.trashed
    <3> DEFINE h == home(k)  rec == [r EXCEPT !.dir = h]
    <3>1. cd[k] = rec /\ disk'[k] = Follow(disk[k], r.dir, h)
      BY <1>1, <1>3, <2>1, <2>3
    <3>2. h = HomeOf(r, cols, slug)
      OBVIOUS
    <3>3. DOMAIN r = CardFields
      BY <1>2, <1>3 DEF CardOk, Sound
    <3> HIDE DEF cd, h, home, r
    <3>4. /\ DOMAIN rec = CardFields /\ rec.pipeline = r.pipeline /\ rec.column = r.column
          /\ rec.from = r.from /\ rec.dir = h /\ rec.trashed = r.trashed
          /\ rec.owner = r.owner /\ rec.kind = r.kind
          /\ (rec.planned <=> r.planned) /\ (rec.free <=> r.free)
      BY <3>3 DEF CardFields
    <3> HIDE DEF rec
    <3>5. HomeOf(rec, cols, slug) = h
      BY <3>2, <3>4 DEF HomeOf
    <3>6. Housed(rec, disk'[k], cols, slug)
      BY <3>1, <3>4, <3>5, FollowHas DEF Housed
    <3>7. CardOk(r, cols, slug, managers, TRUE) /\ Grants(cards[k], r)
      BY <1>2, <1>3 DEF r
    <3>8. CardOk(rec, cols, slug, managers, TRUE)
      BY <2>3, <3>4, <3>7 DEF CardOk, Sound, Rights, Somewhere, r
    <3>9. Grants(cards[k], rec)
      BY <3>4, <3>7 DEF Grants
    <3> QED BY <3>1, <3>6, <3>8, <3>9
  <2> QED BY <2>2, <2>3
<1>4. DOMAIN cd = DOMAIN cards
  OBVIOUS
<1> HIDE DEF cd
<1>5. CASE cards' = cd /\ up' = TRUE /\ UNCHANGED <<managers, turn>>
  <2>1. \A k \in DOMAIN cards : Entitled(cd[k], turn[k], cols)
    BY <1>3, GrantsRights DEF PlaceInv
  <2> QED BY <1>1, <1>3, <1>4, <1>5, <2>1 DEF PlaceInv
<1> QED BY <1>1, <1>5, DeadAsItWas

LEMMA NextPlaced ==
    ASSUME LifeInv, PlaceInv, [Next]_vars
    PROVE  PlaceInv'
<1>1. CASE \E k \in Cards : CardSteps(k) \/ AgentSteps(k) \/ MockSteps(k)
  BY <1>1, CardPlaced, AgentPlaced, MockPlaced
<1>2. CASE ColumnSteps
  BY <1>2, ColumnPlaced
<1>3. CASE Killed
  BY <1>3, DeadAsItWas DEF Killed, config
<1>4. CASE Boot
  BY <1>4, BootPlaced
<1>5. CASE UNCHANGED vars
  BY <1>5 DEF vars, PlaceInv
<1> QED BY <1>1, <1>2, <1>3, <1>4, <1>5 DEF Next

LEMMA PlacedAlways == Spec => [](LifeInv /\ PlaceInv)
<1>1. Init => LifeInv /\ PlaceInv
  BY LifeBegins, InitPlaced
<1>2. LifeInv /\ PlaceInv /\ [Next]_vars => (LifeInv /\ PlaceInv)'
  BY NextLives, NextPlaced
<1> QED BY <1>1, <1>2, PTL DEF Spec

-----------------------------------------------------------------------------
(* Where the files of a card are.                                          *)

\* All that is in the folders of a card is in one of them.
OnlyAt(d, x) == \A y \in DOMAIN d \ {x} : d[y] = {}

\* The files of a card are where board.json says its folder is, or, while the process is
\* down, where the next start will look for it.
Together(k) ==
    \/ OnlyAt(disk[k], cards[k].dir)
    \/ ~up /\ ~cards[k].trashed /\ OnlyAt(disk[k], HomeOf(cards[k], cols, slug))

FilesInv == \A k \in DOMAIN cards \ adrift : Together(k)

LEMMA MoveDirAt ==
    ASSUME NEW d, NEW src \in DOMAIN d, NEW dst, src # dst, OnlyAt(d, src) \/ OnlyAt(d, dst)
    PROVE  OnlyAt(MoveDir(d, src, dst), dst)
<1>1. CASE dst \notin DOMAIN d
  <2> DEFINE e == [x \in (DOMAIN d \ {src}) \cup {dst} |-> IF x = dst THEN d[src] ELSE d[x]]
  <2>1. MoveDir(d, src, dst) = e
    BY <1>1 DEF MoveDir
  <2>2. OnlyAt(e, dst)
    BY <1>1 DEF OnlyAt
  <2> QED BY <2>1, <2>2
<1>2. CASE dst \in DOMAIN d
  <2> DEFINE both == d[src] \cap d[dst]
             left == IF both = {} THEN DOMAIN d \ {src} ELSE DOMAIN d
             e == [x \in left |-> CASE x = dst -> d[src] \cup d[dst]
                                    [] x = src -> both
                                    [] OTHER -> d[x]]
  <2>1. MoveDir(d, src, dst) = e
    BY <1>2 DEF MoveDir
  <2>2. both = {}
    BY <1>2 DEF OnlyAt
  <2>3. left = DOMAIN d \ {src}
    BY <2>2
  <2>4. DOMAIN e = DOMAIN d \ {src} /\ \A x \in DOMAIN e \ {dst} : e[x] = d[x]
    BY <2>3
  <2> HIDE DEF e
  <2> QED BY <2>1, <2>4 DEF OnlyAt
<1> QED BY <1>1, <1>2

LEMMA MadeAt == ASSUME NEW d, NEW x, NEW y, OnlyAt(d, x) PROVE OnlyAt(Made(d, y), x)
  BY DEF OnlyAt, Made, With

\* A folder follows its card with all that is in it, also when it is there before it.
LEMMA FollowAt ==
    ASSUME NEW d, NEW have, NEW want, OnlyAt(d, have) \/ OnlyAt(d, want)
    PROVE  OnlyAt(Follow(d, have, want), want)
<1>1. CASE have \in DOMAIN d /\ have # want
  BY <1>1, MoveDirAt DEF Follow
<1>2. CASE ~(have \in DOMAIN d /\ have # want)
  <2>1. OnlyAt(d, want)
    BY <1>2 DEF OnlyAt
  <2> QED BY <1>2, <2>1, MadeAt DEF Follow
<1> QED BY <1>1, <1>2

\* Where there was no folder there was no file to move.
LEMMA FollowNone ==
    ASSUME NEW d, NEW have, NEW want, have \notin DOMAIN d, OnlyAt(d, have)
    PROVE  OnlyAt(Follow(d, have, want), have)
  BY MadeAt DEF Follow

LEMMA CarriedAt ==
    ASSUME NEW d, NEW old, NEW new
    PROVE  /\ \A x : x # old /\ OnlyAt(d, x) => OnlyAt(Carried(d, old, new), x)
           /\ OnlyAt(d, old) => OnlyAt(Carried(d, old, new), old) \/ OnlyAt(Carried(d, old, new), new)
<1>1. CASE old \in DOMAIN d /\ new \notin DOMAIN d
  <2> DEFINE e == [x \in (DOMAIN d \ {old}) \cup {new} |-> IF x = new THEN d[old] ELSE d[x]]
  <2>1. Carried(d, old, new) = e
    BY <1>1 DEF Carried, MoveDir
  <2>2. \A x : x # old /\ OnlyAt(d, x) => OnlyAt(e, x)
    BY <1>1 DEF OnlyAt
  <2>3. OnlyAt(d, old) => OnlyAt(e, new)
    BY <1>1 DEF OnlyAt
  <2> HIDE DEF e
  <2> QED BY <2>1, <2>2, <2>3
<1>2. CASE ~(old \in DOMAIN d /\ new \notin DOMAIN d)
  <2>1. Carried(d, old, new) = d
    BY <1>2 DEF Carried
  <2> QED BY <2>1
<1> QED BY <1>1, <1>2

LEMMA PutAt == ASSUME NEW d, NEW x, NEW f, OnlyAt(d, x) PROVE OnlyAt(Put(d, x, f), x)
<1> DEFINE m == Made(d, x)
<1>1. OnlyAt(m, x)
  BY MadeAt
<1> HIDE DEF m
<1>2. OnlyAt([m EXCEPT ![x] = @ \cup {f}], x)
  BY <1>1 DEF OnlyAt
<1> QED BY <1>2 DEF Put, m

\* Every card keeps its folder and its files.
LEMMA FilesStay ==
    ASSUME FilesInv, up, adrift \subseteq adrift',
           \A k \in DOMAIN cards' : k \in DOMAIN cards /\ cards'[k].dir = cards[k].dir
                                    /\ disk'[k] = disk[k]
    PROVE  FilesInv'
  BY DEF FilesInv, Together

\* One folder follows its card, or the process dies between the two.
LEMMA FolderFiles ==
    ASSUME LifeInv, FilesInv, up, NEW k \in Cards, NEW rec, NEW tn, NEW have, NEW want,
           k \in DOMAIN cards => cards[k].dir = have,
           k \notin DOMAIN cards => OnlyAt(disk[k], have),
           disk' = [disk EXCEPT ![k] = Follow(@, have, want)], rec.dir = want,
           Recorded(With(cards, k, rec), tn)
    PROVE  FilesInv'
<1>1. disk'[k] = Follow(disk[k], have, want) /\ \A j \in Cards \ {k} : disk'[j] = disk[j]
  BY DEF LifeInv
<1>2. \A j \in DOMAIN cards \ adrift : OnlyAt(disk[j], cards[j].dir) /\ j \in Cards
  BY DEF FilesInv, Together, LifeInv
<1>3. CASE DiesAdrift
  <2>1. cards' = cards /\ adrift \subseteq adrift'
    BY <1>3 DEF DiesAdrift, Dies
  <2>2. ASSUME NEW j \in DOMAIN cards', j \notin adrift' PROVE OnlyAt(disk'[j], cards'[j].dir)
    <3>1. OnlyAt(disk[j], cards[j].dir) /\ j \in Cards /\ j \in DOMAIN cards
      BY <1>2, <2>1, <2>2
    <3>2. cards[j].dir \notin DOMAIN disk[j] \/ disk'[j] = disk[j]
      BY <1>3, <2>2, <3>1 DEF DiesAdrift
    <3>3. CASE disk'[j] = disk[j]
      BY <2>1, <3>1, <3>3
    <3>4. CASE j = k /\ cards[j].dir \notin DOMAIN disk[j]
      BY <1>1, <2>1, <3>1, <3>4, FollowNone
    <3> QED BY <1>1, <3>1, <3>2, <3>3, <3>4
  <2> QED BY <2>2 DEF FilesInv, Together
<1>4. CASE Saved(With(cards, k, rec), chats, managers, gone, tn)
  <2>1. /\ DOMAIN cards' = DOMAIN cards \cup {k} /\ cards'[k] = rec /\ adrift' = adrift
        /\ \A j \in DOMAIN cards \ {k} : cards'[j] = cards[j]
    BY <1>4 DEF Saved, With
  <2>2. ASSUME k \notin adrift PROVE OnlyAt(disk'[k], rec.dir)
    BY <1>1, <1>2, <2>2, FollowAt
  <2>3. ASSUME NEW j \in DOMAIN cards' \ adrift' PROVE OnlyAt(disk'[j], cards'[j].dir)
    BY <1>1, <1>2, <2>1, <2>2, <2>3
  <2> QED BY <2>3 DEF FilesInv, Together
<1> QED BY <1>3, <1>4 DEF Recorded

LEMMA SettleFiles ==
    ASSUME LifeInv, FilesInv, up, NEW k \in DOMAIN cards, NEW rec, DOMAIN rec = CardFields,
           rec.dir = cards[k].dir, NEW tn, Settle(k, rec, tn)
    PROVE  FilesInv'
<1> DEFINE home == HomeOf(rec, cols, slug)  put == [rec EXCEPT !.dir = home]
<1>1. /\ disk' = [disk EXCEPT ![k] = Follow(@, cards[k].dir, home)]
      /\ Recorded(With(cards, k, put), tn)
  BY DEF Settle
<1> HIDE DEF home
<1>2. put.dir = home
  BY DEF CardFields
<1>3. k \in Cards
  BY DEF LifeInv
<1> HIDE DEF put
<1> QED BY <1>1, <1>2, <1>3, FolderFiles

LEMMA MovedDir ==
    ASSUME NEW rec, DOMAIN rec = CardFields, NEW c
    PROVE  Moved(rec, c).dir = rec.dir /\ DOMAIN Moved(rec, c) = CardFields
<1> DEFINE p == PipelineOf(cols, c)
           kind == IF p = rec.pipeline THEN rec.kind ELSE KindForPipeline(p, rec.kind)
           planned == rec.planned \/ p \in ORIGIN_PIPELINES
<1>1. Moved(rec, c) = [rec EXCEPT !.kind = kind, !.pipeline = p, !.column = c,
                                  !.trashed = FALSE, !.from = NoColumn, !.planned = planned]
  BY DEF Moved
<1> HIDE DEF p, kind, planned
<1> QED BY <1>1 DEF CardFields

LEMMA MoveFiles ==
    ASSUME LifeInv, FilesInv, NEW k, Present(k), NEW c, NEW tn, MoveCard(k, c, tn)
    PROVE  FilesInv'
<1>1. k \in DOMAIN cards /\ up /\ DOMAIN cards[k] = CardFields
  BY PresentIs DEF Present, Sound
<1> QED BY <1>1, MovedDir, SettleFiles DEF MoveCard

LEMMA PutInFiles ==
    ASSUME LifeInv, FilesInv, NEW k, NEW c, PutIn(k, c)
    PROVE  FilesInv'
<1> DEFINE m == Moved(cards[k], c)  rec == [m EXCEPT !.free = TRUE]
<1>1. k \in DOMAIN cards /\ up /\ DOMAIN cards[k] = CardFields /\ Settle(k, rec, turn)
  BY PresentIs DEF PutIn, Present, Sound
<1>2. m.dir = cards[k].dir /\ DOMAIN m = CardFields
  BY <1>1, MovedDir
<1> HIDE DEF m
<1>3. rec.dir = cards[k].dir /\ DOMAIN rec = CardFields
  BY <1>2 DEF CardFields
<1> HIDE DEF rec
<1> QED BY <1>1, <1>3, SettleFiles

LEMMA AddFiles ==
    ASSUME LifeInv, FilesInv, NEW k \in Cards, NEW p, NEW kind, NEW m, AddCard(k, p, kind, m)
    PROVE  FilesInv'
<1>1. PICK rec, tn : /\ Settle(k, rec, tn) /\ up /\ k \notin DOMAIN cards /\ disk[k] = <<>>
                     /\ DOMAIN rec = CardFields
  BY DEF AddCard, Fresh, Newborn, CardFields
<1> DEFINE home == HomeOf(rec, cols, slug)  put == [rec EXCEPT !.dir = home]
<1>2. /\ disk' = [disk EXCEPT ![k] = Follow(@, rec.dir, home)]
      /\ Recorded(With(cards, k, put), tn)
  BY <1>1 DEF Settle
<1> HIDE DEF home
<1>3. put.dir = home /\ OnlyAt(disk[k], rec.dir)
  BY <1>1 DEF CardFields, OnlyAt
<1> HIDE DEF put
<1> QED BY <1>1, <1>2, <1>3, FolderFiles

LEMMA AmendFiles ==
    ASSUME FilesInv, up, NEW k \in DOMAIN cards, NEW rec, rec.dir = cards[k].dir,
           NEW tn, Amend(k, rec, tn)
    PROVE  FilesInv'
  BY FilesStay DEF Amend, Saved, With

LEMMA FieldFiles ==
    ASSUME LifeInv, FilesInv, NEW k, NEW v, SetCardKind(k, v) \/ AssignCard(k, v)
    PROVE  FilesInv'
<1>1. k \in DOMAIN cards /\ up /\ DOMAIN cards[k] = CardFields
  BY PresentIs DEF SetCardKind, AssignCard, Present, Sound
<1>2. [cards[k] EXCEPT !.kind = v].dir = cards[k].dir /\ [cards[k] EXCEPT !.owner = v].dir = cards[k].dir
  BY <1>1 DEF CardFields
<1> QED BY <1>1, <1>2, AmendFiles DEF SetCardKind, AssignCard

LEMMA BacklogFiles ==
    ASSUME LifeInv, FilesInv, NEW k, NEW p, NEW c, NEW kind, Present(k),
           Settle(k, [cards[k] EXCEPT !.pipeline = p, !.column = c, !.kind = kind,
                                      !.trashed = FALSE, !.from = NoColumn], turn)
           \/ Settle(k, [cards[k] EXCEPT !.pipeline = p, !.column = c,
                                         !.trashed = FALSE, !.from = NoColumn], turn)
    PROVE  FilesInv'
<1> DEFINE a == [cards[k] EXCEPT !.pipeline = p, !.column = c, !.kind = kind,
                                 !.trashed = FALSE, !.from = NoColumn]
           b == [cards[k] EXCEPT !.pipeline = p, !.column = c,
                                 !.trashed = FALSE, !.from = NoColumn]
<1>1. k \in DOMAIN cards /\ up /\ DOMAIN cards[k] = CardFields
  BY PresentIs DEF Present, Sound
<1>2. /\ a.dir = cards[k].dir /\ DOMAIN a = CardFields
      /\ b.dir = cards[k].dir /\ DOMAIN b = CardFields
  BY <1>1 DEF CardFields
<1>3. Settle(k, a, turn) \/ Settle(k, b, turn)
  OBVIOUS
<1> HIDE DEF a, b
<1> QED BY <1>1, <1>2, <1>3, SettleFiles

LEMMA RestoreFiles ==
    ASSUME LifeInv, FilesInv, NEW k, RestoreCard(k)
    PROVE  FilesInv'
<1> DEFINE c == cards[k].from  p == PipelineOf(cols, c)  kind == KindForPipeline(p, cards[k].kind)
<1>1. /\ Present(k)
      /\ Settle(k, [cards[k] EXCEPT !.pipeline = p, !.column = c, !.kind = kind,
                                    !.trashed = FALSE, !.from = NoColumn], turn)
         \/ Settle(k, [cards[k] EXCEPT !.pipeline = "backlog", !.column = NoColumn,
                                       !.trashed = FALSE, !.from = NoColumn], turn)
  BY DEF RestoreCard
<1> HIDE DEF c, p, kind
<1> QED BY <1>1, BacklogFiles

LEMMA TrashFiles ==
    ASSUME LifeInv, FilesInv, NEW k, TrashCard(k)
    PROVE  FilesInv'
<1> DEFINE rec == [cards[k] EXCEPT !.from = cards[k].column, !.trashed = TRUE, !.dir = Trash]
<1>1. /\ Present(k)
      /\ disk' = [disk EXCEPT ![k] = Follow(@, cards[k].dir, Trash)]
      /\ Recorded(With(cards, k, rec), turn)
  BY DEF TrashCard
<1>2. k \in DOMAIN cards /\ k \in Cards /\ up /\ DOMAIN cards[k] = CardFields
  BY <1>1, PresentIs DEF Present, Sound
<1>3. rec.dir = Trash
  BY <1>2 DEF CardFields
<1> HIDE DEF rec
<1> QED BY <1>1, <1>2, <1>3, FolderFiles

LEMMA PurgeFiles ==
    ASSUME LifeInv, FilesInv, NEW k \in Cards, PurgeCard(k)
    PROVE  FilesInv'
<1> DEFINE d == Restrict(disk[k], DOMAIN disk[k] \ {cards[k].dir})
<1>1. up /\ k \in DOMAIN cards /\ disk' = [disk EXCEPT ![k] = d]
      /\ Written(Restrict(cards, DOMAIN cards \ {k}), chats, managers, gone \cup {k}, turn)
  BY DEF PurgeCard, Present
<1>2. \A x : OnlyAt(disk[k], x) => OnlyAt(d, x)
  BY DEF OnlyAt, Restrict
<1>3. disk'[k] = d /\ \A j \in Cards \ {k} : disk'[j] = disk[j]
  BY <1>1 DEF LifeInv
<1> HIDE DEF d
<1>4. /\ DOMAIN cards' \subseteq DOMAIN cards /\ adrift' = adrift
      /\ \A j \in DOMAIN cards' : cards'[j] = cards[j]
  BY <1>1 DEF Written, Saved, Dies, Restrict
<1>5. ASSUME NEW j \in DOMAIN cards' \ adrift' PROVE OnlyAt(disk'[j], cards'[j].dir)
  <2>1. OnlyAt(disk[j], cards[j].dir) /\ j \in Cards
    BY <1>1, <1>4, <1>5 DEF FilesInv, Together, LifeInv
  <2> QED BY <1>2, <1>3, <1>4, <1>5, <2>1
<1> QED BY <1>5 DEF FilesInv, Together

LEMMA CardFiles ==
    ASSUME LifeInv, FilesInv, NEW k \in Cards, CardSteps(k)
    PROVE  FilesInv'
<1>1. CASE \E p \in PIPELINES \cup {"backlog"}, kind \in KINDS \cup {"unset"}, m \in Managers :
              AddCard(k, p, kind, m)
  BY <1>1, AddFiles
<1>2. CASE \E c \in Columns : Drag(k, c)
  BY <1>2, PutInFiles DEF Drag
<1>3. CASE \E p \in PIPELINES : RouteCard(k, p, turn)
  BY <1>3, MoveFiles DEF RouteCard
<1>4. CASE SendToBacklog(k)
  BY <1>4, BacklogFiles DEF SendToBacklog
<1>5. CASE TrashCard(k) \/ RestoreCard(k) \/ PurgeCard(k)
  BY <1>5, TrashFiles, RestoreFiles, PurgeFiles
<1>6. CASE (\E kind \in KINDS : SetCardKind(k, kind)) \/ \E m \in Managers : AssignCard(k, m)
  BY <1>6, FieldFiles
<1> QED BY <1>1, <1>2, <1>3, <1>4, <1>5, <1>6 DEF CardSteps

\* A file lands in the folder of its card, or the card is adrift.
LEMMA LandsFiles ==
    ASSUME LifeInv, FilesInv, up, NEW k \in Cards, NEW x, NEW f, Lands(k, x, f),
           UNCHANGED cards
    PROVE  FilesInv'
<1>1. disk'[k] = Put(disk[k], x, f) /\ \A j \in Cards \ {k} : disk'[j] = disk[j]
  BY DEF Lands, LifeInv
<1>2. \/ k \in DOMAIN cards /\ cards[k].dir = x /\ adrift' = adrift
      \/ adrift' = adrift \cup {k}
  BY DEF Lands
<1>3. ASSUME NEW j \in DOMAIN cards' \ adrift' PROVE OnlyAt(disk'[j], cards'[j].dir)
  <2>1. j \in Cards /\ OnlyAt(disk[j], cards[j].dir)
    BY <1>2, <1>3 DEF FilesInv, Together, LifeInv
  <2> QED BY <1>1, <1>2, <1>3, <2>1, PutAt
<1> QED BY <1>3 DEF FilesInv, Together

LEMMA TurnFiles == ASSUME FilesInv, NEW tn, OnlyTurn(tn) PROVE FilesInv'
  BY DEF OnlyTurn, FilesInv, Together, config

LEMMA AgentFiles ==
    ASSUME LifeInv, FilesInv, NEW k \in Cards, AgentSteps(k)
    PROVE  FilesInv'
<1>1. CASE MoveNext(k) \/ AgentPromotes(k) \/ \E c \in Columns : MoveWithin(k, c)
  BY <1>1, MoveFiles DEF MoveNext, AgentPromotes, PromoteToBuild, MoveWithin, Busy
<1>2. CASE \E c \in Columns : ChatMoves(k, c)
  BY <1>2, PutInFiles DEF ChatMoves
<1>3. CASE \E p \in PIPELINES, m \in Managers : ChatCreates(k, p, m)
  BY <1>3, AddFiles DEF ChatCreates
<1>4. CASE \E kind \in KINDS : AgentTypes(k, kind)
  BY <1>4, FieldFiles DEF AgentTypes
<1>5. CASE \E p \in PIPELINES : AgentRoutes(k, p)
  BY <1>5, MoveFiles DEF AgentRoutes, RouteCard
<1>6. CASE Delegate(k) \/ WorkerReports(k)
  BY <1>6 DEF Delegate, WorkerReports, FilesInv, Together, config
<1>7. CASE \E f \in Files : WorkerWrites(k, f)
  BY <1>7, LandsFiles DEF WorkerWrites
<1> QED BY <1>1, <1>2, <1>3, <1>4, <1>5, <1>6, <1>7 DEF AgentSteps

LEMMA MockFiles ==
    ASSUME LifeInv, FilesInv, NEW k \in Cards, MockSteps(k)
    PROVE  FilesInv'
<1>1. ASSUME NEW say, MockHears(k, say) PROVE FilesInv'
  <2>1. Present(k) /\ k \in DOMAIN cards /\ up /\ DOMAIN cards[k] = CardFields
    BY <1>1, PresentIs DEF MockHears, Present, Sound
  <2>2. \/ \E tn : OnlyTurn(tn)
        \/ \E kind, tn : Amend(k, [cards[k] EXCEPT !.kind = kind], tn)
        \/ \E c, tn : MoveCard(k, c, tn)
        \/ \E tn : PromoteToBuild(k, tn)
    BY <1>1, Zenon DEF MockHears
  <2>3. \A kind : [cards[k] EXCEPT !.kind = kind].dir = cards[k].dir
    BY <2>1 DEF CardFields
  <2> QED BY <2>1, <2>2, <2>3, TurnFiles, AmendFiles, MoveFiles DEF PromoteToBuild
<1>2. CASE MockRoutes(k)
  <2>1. (\E tn : OnlyTurn(tn)) \/ \E p, tn : RouteCard(k, p, tn)
    BY <1>2, Zenon DEF MockRoutes
  <2> QED BY <2>1, TurnFiles, MoveFiles DEF RouteCard
<1>3. CASE MockWorks(k)
  <2>1. \E tn : OnlyTurn(tn)
    BY <1>3, Zenon DEF MockWorks
  <2> QED BY <2>1, TurnFiles
<1>4. CASE MockJudges(k)
  <2>1. (\E tn : OnlyTurn(tn)) \/ (Present(k) /\ \E c, tn : MoveCard(k, c, tn))
    BY <1>4, Zenon DEF MockJudges, Present
  <2> QED BY <2>1, TurnFiles, MoveFiles
<1>5. CASE \E f \in Files : MockWrites(k, f)
  BY <1>5, LandsFiles DEF MockWrites
<1> QED BY <1>1, <1>2, <1>3, <1>4, <1>5 DEF MockSteps

\* A column is renamed: where the folders stay when the process dies before they are
\* moved the next start finds them, and where they are after it.
LEMMA RenameFiles ==
    ASSUME LifeInv, PlaceInv, FilesInv, NEW c, NEW title, RenameColumn(c, title)
    PROVE  FilesInv'
<1> DEFINE old == KeyOf(cols, slug, c)
           new == KeyOf(cols, slug', c)
           in(k) == k \in DOMAIN cards /\ cards[k].column = c /\ ~cards[k].trashed
           moved == [k \in Cards |-> Carried(disk[k], old, new)]
           cd == [k \in DOMAIN cards |->
                     IF in(k) THEN [cards[k] EXCEPT !.dir = new] ELSE cards[k]]
<1>1. up /\ c \in InUse(cols) /\ ColumnsOk(cols, slug) /\ cols' = cols
  BY EditedIs DEF RenameColumn
<1>2. \/ /\ disk' = [k \in Cards |-> IF in(k) THEN Follow(moved[k], cards[k].dir, new)
                                     ELSE moved[k]]
         /\ Written(cd, ReKeyed(chats, old, new), managers, gone, turn)
      \/ Dies /\ UNCHANGED <<disk, adrift>>
  BY Zenon DEF RenameColumn
<1>3. CASE Dies /\ UNCHANGED <<disk, adrift>>
  BY <1>1, <1>3 DEF Dies, FilesInv, Together
<1>4. CASE /\ disk' = [k \in Cards |-> IF in(k) THEN Follow(moved[k], cards[k].dir, new)
                                       ELSE moved[k]]
           /\ Written(cd, ReKeyed(chats, old, new), managers, gone, turn)
  <2>1. ASSUME NEW k \in DOMAIN cards \ adrift
        PROVE  /\ in(k) => OnlyAt(disk'[k], new) /\ HomeOf(cards[k], cols', slug') = new
               /\ ~in(k) => OnlyAt(disk'[k], cards[k].dir)
    <3> DEFINE r == cards[k]
    <3>1. k \in Cards /\ OnlyAt(disk[k], r.dir)
      BY <1>1 DEF LifeInv, FilesInv, Together
    <3>2. CASE in(k)
      <4>1. disk'[k] = Follow(Carried(disk[k], old, new), r.dir, new)
        BY <1>4, <3>1, <3>2
      <4>2. r.column = c
        BY <3>2
      <4>3. HomeOf(r, cols', slug') = new
        BY <1>1, <4>2 DEF HomeOf
      <4> HIDE DEF r, old, new
      <4>4. OnlyAt(Carried(disk[k], old, new), r.dir) \/ OnlyAt(Carried(disk[k], old, new), new)
        BY <3>1, CarriedAt
      <4> QED BY <3>2, <4>1, <4>3, <4>4, FollowAt DEF r
    <3>3. CASE ~in(k)
      <4>1. disk'[k] = Carried(disk[k], old, new)
        BY <1>4, <3>1, <3>3
      <4>2. r.trashed \/ r.column # c
        BY <3>3
      <4>3. CardOk(r, cols, slug, managers, TRUE) /\ (r.trashed \/ r.dir = HomeOf(r, cols, slug))
        BY <1>1, AsItWas DEF Housed
      <4> HIDE DEF r, in, moved, cd
      <4>4. r.dir # old
        <5>1. CASE r.trashed
          BY <1>1, <4>3, <5>1, KeyIs DEF CardOk
        <5>2. CASE ~r.trashed /\ r.column \in InUse(cols)
          BY <1>1, <4>2, <4>3, <5>2, HomeIs, KeyIs
        <5>3. CASE ~r.trashed /\ r.column \notin InUse(cols)
          BY <1>1, <4>3, <5>3, KeyIs DEF HomeOf
        <5> QED BY <5>1, <5>2, <5>3
      <4> QED BY <3>1, <3>3, <4>1, <4>4, CarriedAt DEF r
    <3> QED BY <3>2, <3>3
  <2>2. CASE Dies /\ UNCHANGED adrift
    BY <2>1, <2>2 DEF Dies, FilesInv, Together
  <2>3. CASE Saved(cd, ReKeyed(chats, old, new), managers, gone, turn)
    <3>1. cards' = cd /\ adrift' = adrift
      BY <2>3 DEF Saved
    <3>2. ASSUME NEW k \in DOMAIN cards' \ adrift' PROVE OnlyAt(disk'[k], cards'[k].dir)
      <4>1. k \in DOMAIN cards \ adrift /\ DOMAIN cards[k] = CardFields
        BY <3>1, <3>2 DEF LifeInv, Sound
      <4>2. CASE in(k)
        <5>1. cards'[k] = [cards[k] EXCEPT !.dir = new]
          BY <3>1, <4>1, <4>2
        <5>2. OnlyAt(disk'[k], new)
          BY <2>1, <4>1, <4>2
        <5> HIDE DEF in, cd, moved, new
        <5>3. cards'[k].dir = new
          BY <4>1, <5>1 DEF CardFields
        <5> QED BY <5>2, <5>3
      <4>3. CASE ~in(k)
        <5>1. cards'[k] = cards[k]
          BY <3>1, <4>1, <4>3
        <5> QED BY <2>1, <4>1, <4>3, <5>1
      <4> QED BY <4>2, <4>3
    <3> QED BY <3>2 DEF FilesInv, Together
  <2> QED BY <1>4, <2>2, <2>3 DEF Written
<1> QED BY <1>2, <1>3, <1>4

\* A column is deleted: each of its folders follows its card, or the card is adrift.
LEMMA DeleteFiles ==
    ASSUME LifeInv, PlaceInv, FilesInv, NEW c, DeleteColumn(c)
    PROVE  FilesInv'
<1> DEFINE stranded(k) == k \in DOMAIN cards /\ cards[k].column = c /\ ~cards[k].trashed
           p == PipelineOf(cols, c)
           i == Position(cols[p], c)
           fallback == cols[p][IF i > 1 THEN i - 1 ELSE i + 1]
           home == KeyOf(cols, slug, fallback)
           cd == [k \in DOMAIN cards |->
                     IF stranded(k) THEN [cards[k] EXCEPT !.column = fallback, !.dir = home]
                     ELSE cards[k]]
<1>1. /\ disk' = [k \in Cards |-> IF stranded(k) THEN Follow(disk[k], cards[k].dir, home)
                                  ELSE disk[k]]
      /\ Saved(cd, chats, managers, gone, turn) \/ DiesAdrift
  BY Zenon DEF DeleteColumn, Recorded
<1>2. up
  BY DEF DeleteColumn, Editing
<1> HIDE DEF fallback, home
<1>3. ASSUME NEW k \in DOMAIN cards
      PROVE  /\ stranded(k) => disk'[k] = Follow(disk[k], cards[k].dir, home) /\ cd[k].dir = home
             /\ ~stranded(k) => disk'[k] = disk[k] /\ cd[k] = cards[k]
  <2>1. k \in Cards /\ DOMAIN cards[k] = CardFields
    BY DEF LifeInv, Sound
  <2>2. CASE stranded(k)
    <3>1. cd[k] = [cards[k] EXCEPT !.column = fallback, !.dir = home]
      BY <2>2
    <3>2. cd[k].dir = home
      <4> HIDE DEF cd
      <4> QED BY <2>1, <3>1 DEF CardFields
    <3> QED BY <1>1, <2>1, <2>2, <3>2
  <2>3. CASE ~stranded(k)
    BY <1>1, <2>1, <2>3
  <2> QED BY <2>2, <2>3
<1>4. \A k \in DOMAIN cards \ adrift : OnlyAt(disk[k], cards[k].dir)
  BY <1>2 DEF FilesInv, Together
<1>5. DOMAIN cd = DOMAIN cards
  OBVIOUS
<1> HIDE DEF stranded, cd
<1>6. CASE DiesAdrift
  <2>1. cards' = cards /\ adrift \subseteq adrift'
    BY <1>6 DEF DiesAdrift, Dies
  <2>2. ASSUME NEW k \in DOMAIN cards', k \notin adrift' PROVE OnlyAt(disk'[k], cards'[k].dir)
    <3>1. OnlyAt(disk[k], cards[k].dir) /\ k \in DOMAIN cards
      BY <1>4, <2>1, <2>2
    <3>2. cards[k].dir \notin DOMAIN disk[k] \/ disk'[k] = disk[k]
      BY <1>6, <2>2, <3>1 DEF DiesAdrift
    <3> QED BY <1>3, <2>1, <3>1, <3>2, FollowNone
  <2> QED BY <2>2 DEF FilesInv, Together
<1>7. CASE Saved(cd, chats, managers, gone, turn)
  <2>1. cards' = cd /\ adrift' = adrift
    BY <1>7 DEF Saved
  <2>2. ASSUME NEW k \in DOMAIN cards \ adrift PROVE OnlyAt(disk'[k], cd[k].dir)
    BY <1>3, <1>4, FollowAt
  <2> QED BY <1>5, <2>1, <2>2 DEF FilesInv, Together
<1> QED BY <1>1, <1>6, <1>7

LEMMA ColumnFiles ==
    ASSUME LifeInv, PlaceInv, FilesInv, ColumnSteps
    PROVE  FilesInv'
<1>1. ASSUME NEW m, AddManager(m) PROVE FilesInv'
  BY <1>1 DEF AddManager, Saved, config, FilesInv, Together
<1>2. ASSUME NEW m, RemoveManager(m) PROVE FilesInv'
  <2> DEFINE rest == RemoveAt(managers, Position(managers, m))
             cd == [k \in DOMAIN cards |->
                       IF cards[k].owner = m THEN [cards[k] EXCEPT !.owner = Head(rest)]
                       ELSE cards[k]]
  <2>1. cards' = cd /\ up /\ UNCHANGED <<disk, adrift>>
    BY <1>2, Zenon DEF RemoveManager, Saved
  <2> HIDE DEF rest
  <2>2. DOMAIN cd = DOMAIN cards /\ \A k \in DOMAIN cards : cd[k].dir = cards[k].dir
    BY SameCards DEF Sound, CardFields
  <2> HIDE DEF cd
  <2> QED BY <2>1, <2>2, FilesStay
<1>3. ASSUME NEW p, NEW t, NEW gate, AddColumn(p, t, gate) PROVE FilesInv'
  <2>1. up /\ UNCHANGED <<cards, disk, adrift>>
    BY <1>3 DEF AddColumn, Written, Saved, Dies
  <2> QED BY <2>1, FilesStay
<1>4. ASSUME NEW c, NEW t, RenameColumn(c, t) PROVE FilesInv'
  BY <1>4, RenameFiles
<1>5. ASSUME NEW c, NEW i, ReorderColumn(c, i) \/ SetColumnGate(c) \/ OpenWorkerChat(c)
      PROVE  FilesInv'
  BY <1>5, FilesStay DEF ReorderColumn, SetColumnGate, OpenWorkerChat, Editing, Saved
<1>6. ASSUME NEW c, DeleteColumn(c) PROVE FilesInv'
  BY <1>6, DeleteFiles
<1> QED BY <1>1, <1>2, <1>3, <1>4, <1>5, <1>6 DEF ColumnSteps

\* A start finds the files of a card where they were saved or where they are to be.
LEMMA BootFiles ==
    ASSUME LifeInv, PlaceInv, FilesInv, Boot
    PROVE  FilesInv'
<1> DEFINE lost(k) == ~cards[k].trashed /\ cards[k].pipeline # "backlog"
                         /\ cards[k].column \notin InUse(cols)
           placed == [k \in DOMAIN cards |->
                         IF lost(k) THEN [cards[k] EXCEPT !.pipeline = "backlog", !.column = NoColumn]
                         ELSE cards[k]]
           stays(k) == k \notin DOMAIN cards \/ placed[k].trashed
           home(k) == HomeOf(placed[k], cols, slug)
           cd == [k \in DOMAIN cards |-> IF stays(k) THEN placed[k]
                                         ELSE [placed[k] EXCEPT !.dir = home(k)]]
<1>1. /\ UNCHANGED <<cols, slug, adrift>>
      /\ disk' = [k \in Cards |-> IF stays(k) THEN disk[k]
                                  ELSE Follow(disk[k], placed[k].dir, home(k))]
      /\ Dies \/ (cards' = cd /\ up' = TRUE)
  BY Zenon DEF Boot, config
<1>2. NoColumn \notin InUse(cols)
  BY InUseIs, ConstantsOK DEF PlaceInv
<1>3. ASSUME NEW k \in DOMAIN cards
      PROVE  /\ DOMAIN placed[k] = CardFields /\ placed[k].dir = cards[k].dir
             /\ placed[k].trashed = cards[k].trashed
             /\ home(k) = HomeOf(cards[k], cols, slug)
  <2> DEFINE rec == [cards[k] EXCEPT !.pipeline = "backlog", !.column = NoColumn]
  <2>1. DOMAIN cards[k] = CardFields
    BY DEF LifeInv, Sound
  <2>2. /\ DOMAIN rec = CardFields /\ rec.dir = cards[k].dir /\ rec.trashed = cards[k].trashed
        /\ rec.column = NoColumn
    BY <2>1 DEF CardFields
  <2>3. CASE lost(k)
    <3>1. placed[k] = rec /\ cards[k].column \notin InUse(cols)
      BY <2>3
    <3> HIDE DEF placed, rec
    <3> QED BY <1>2, <2>2, <3>1 DEF HomeOf
  <2>4. CASE ~lost(k)
    <3>1. placed[k] = cards[k]
      BY <2>4
    <3> HIDE DEF placed
    <3> QED BY <2>1, <3>1
  <2> QED BY <2>3, <2>4
<1> HIDE DEF placed
<1>4. ASSUME NEW k \in DOMAIN cards \ adrift
      PROVE  /\ cards[k].trashed => OnlyAt(disk'[k], cards[k].dir) /\ cd[k].dir = cards[k].dir
             /\ ~cards[k].trashed => OnlyAt(disk'[k], home(k)) /\ cd[k].dir = home(k)
  <2>1. k \in Cards /\ Together(k)
    BY DEF LifeInv, FilesInv
  <2>2. CASE cards[k].trashed
    <3>1. cd[k] = placed[k] /\ disk'[k] = disk[k]
      BY <1>1, <1>3, <2>1, <2>2
    <3> HIDE DEF cd
    <3> QED BY <1>3, <2>1, <2>2, <3>1 DEF Together
  <2>3. CASE ~cards[k].trashed
    <3> DEFINE h == home(k)
    <3>1. cd[k] = [placed[k] EXCEPT !.dir = h] /\ disk'[k] = Follow(disk[k], cards[k].dir, h)
      BY <1>1, <1>3, <2>1, <2>3
    <3>2. OnlyAt(disk[k], cards[k].dir) \/ OnlyAt(disk[k], h)
      BY <1>3, <2>1 DEF Together
    <3> HIDE DEF cd, h
    <3>3. cd[k].dir = h
      BY <1>3, <3>1 DEF CardFields
    <3> QED BY <2>3, <3>1, <3>2, <3>3, FollowAt DEF h
  <2> QED BY <2>2, <2>3
<1>5. DOMAIN cd = DOMAIN cards
  OBVIOUS
<1> HIDE DEF cd
<1>6. CASE cards' = cd /\ up' = TRUE
  BY <1>1, <1>4, <1>5, <1>6 DEF FilesInv, Together
<1>7. CASE Dies
  <2>1. cards' = cards /\ up' = FALSE
    BY <1>7 DEF Dies
  <2> QED BY <1>1, <1>3, <1>4, <2>1 DEF FilesInv, Together
<1> QED BY <1>1, <1>6, <1>7

LEMMA NextFiles ==
    ASSUME LifeInv, PlaceInv, FilesInv, [Next]_vars
    PROVE  FilesInv'
<1>1. CASE \E k \in Cards : CardSteps(k) \/ AgentSteps(k) \/ MockSteps(k)
  BY <1>1, CardFiles, AgentFiles, MockFiles
<1>2. CASE ColumnSteps
  BY <1>2, ColumnFiles
<1>3. CASE Killed
  BY <1>3 DEF Killed, Dies, config, FilesInv, Together
<1>4. CASE Boot
  BY <1>4, BootFiles
<1>5. CASE UNCHANGED vars
  BY <1>5 DEF vars, FilesInv, Together
<1> QED BY <1>1, <1>2, <1>3, <1>4, <1>5 DEF Next

LEMMA FilesAlways == Spec => [](PlaceInv /\ FilesInv)
<1>1. Init => FilesInv
  BY DEF Init, FilesInv
<1>2. LifeInv /\ PlaceInv /\ FilesInv /\ [Next]_vars => FilesInv'
  BY NextFiles
<1> QED BY <1>1, <1>2, PlacedAlways, PTL DEF Spec

\* The folder tree mirrors the board, for any columns, cards and managers and however
\* often they are edited or the process dies: while it is up, every card is in a column
\* there is, with its folder there, no two columns share one, and all the files of a card
\* that no death and no late worker set adrift are in its folder.
THEOREM TreeAlwaysMirrors == Spec => []TreeMirrorsBoard
<1>1. PlaceInv /\ FilesInv => TreeMirrorsBoard
  <2> SUFFICES ASSUME PlaceInv, FilesInv, up PROVE TreeMirrorsBoard
    BY DEF TreeMirrorsBoard
  <2>1. \A c, d \in InUse(cols) : KeyOf(cols, slug, c) = KeyOf(cols, slug, d) => c = d
    BY KeyIs DEF PlaceInv
  <2>2. ASSUME NEW k \in DOMAIN cards
        PROVE  CardOk(cards[k], cols, slug, managers, TRUE) /\ Housed(cards[k], disk[k], cols, slug)
    BY <2>2 DEF PlaceInv
  <2>3. \A k \in DOMAIN cards \ adrift : OnlyAt(disk[k], cards[k].dir)
    BY DEF FilesInv, Together
  <2>4. ASSUME NEW k \in DOMAIN cards
        PROVE  IF cards[k].trashed THEN cards[k].dir = Trash
               ELSE /\ \/ cards[k].pipeline = "backlog" /\ cards[k].column = NoColumn
                       \/ cards[k].column \in Range(cols[cards[k].pipeline])
                    /\ cards[k].dir = HomeOf(cards[k], cols, slug)
                    /\ cards[k].dir \in DOMAIN disk[k]
    BY <2>2, <2>4 DEF CardOk, Housed, Somewhere
  <2> QED BY <2>1, <2>2, <2>3, <2>4 DEF TreeMirrorsBoard, CardOk, OnlyAt
<1> QED BY <1>1, FilesAlways, PTL

\* No card leaves the backlog untyped, nor reaches build without having been in a planning
\* pipeline, by any interleaving of routing, approval and promotion: that takes one of the
\* calls that ask nothing, a drag, the board chat's move_card or an untyped birth.
THEOREM AlwaysRoutedRight == Spec => []RoutedRight
<1>1. PlaceInv => RoutedRight
  <2> SUFFICES ASSUME PlaceInv, NEW k \in DOMAIN cards, ~cards[k].free
               PROVE  /\ cards[k].pipeline # "backlog" => cards[k].kind \in KINDS
                      /\ cards[k].pipeline = "build" => cards[k].planned
    BY DEF RoutedRight
  <2>1. Rights(cards[k], cards[k].pipeline)
    BY DEF PlaceInv, CardOk
  <2> QED BY <2>1 DEF Rights
<1> QED BY <1>1, PlacedAlways, PTL

=============================================================================
