------------------------------ MODULE VoiceProofs ------------------------------
(***************************************************************************)
(* Proofs about Voice and the roster under it: what the owner was told of  *)
(* a chat is what the table says, a voice note is transcribed once and     *)
(* once more for each mishap, and what goes out unasked in a day is        *)
(* bounded.                                                                *)
(***************************************************************************)
EXTENDS Voice, FiniteSetTheorems, TLAPS

-----------------------------------------------------------------------------
(* What he was told.                                                       *)

OpFields == {"verb", "at", "rows", "key", "dir"}
Edits == ~Resting /\ op.verb # "list"
\* The table has the write of the handler, and he has not been told.
Landed(k) == Edits /\ op.at = "landed" /\ op.key = k

Agrees(k) == store[k] = IF told[k] = "gone" THEN None ELSE told[k]

PendingOk ==
    pending # None =>
        /\ pending.verb \in Writes
        /\ pending.dir = None \/ pending.dir \in Dirs
        /\ pending.verb # "remove" => pending.dir \in Dirs

\* Until the write lands the table still says what he was told last; from then
\* on it says what he is about to be told.
ToldInv ==
    /\ DOMAIN store = Keys /\ DOMAIN told = Keys
    /\ ~Resting => op.verb \in Writes \cup {"list"} /\ {"verb", "at", "rows"} \subseteq DOMAIN op
    /\ Edits =>
          /\ DOMAIN op = OpFields
          /\ op.verb = "remove" => op.dir = None
          /\ op.verb # "remove" => op.dir \in Dirs
          /\ op.at = "landed" /\ op.key \in Keys => store[op.key] = op.dir
    /\ ~Resting /\ op.verb = "list" => op.at \notin {"write", "landed"}
    /\ PendingOk
    /\ \A k \in Keys : told[k] # None /\ ~Landed(k) => Agrees(k)

LEMMA ToldInvHolds == ToldInv => HisWordIsStored
  BY DEF ToldInv, HisWordIsStored, Agrees, Landed, Edits

LEMMA ToldBegins == Init => ToldInv
  BY RosterAssumption
     DEF Init, ToldInv, Resting, Edits, Idle, PendingOk, Landed, Agrees, Keys, SCOPE_KEYS

\* Steps that leave the table, what he was told and the handler alone.
LEMMA ToldElsewhere ==
    ASSUME ToldInv, UNCHANGED <<store, told, op, pending>>
    PROVE  ToldInv'
  BY DEF ToldInv, Resting, Edits, Idle, PendingOk, Landed, Agrees

LEMMA ToldSays == ASSUME ToldInv, Says PROVE ToldInv'
<1> USE DEF ToldInv, Resting, Edits, Idle, PendingOk, Landed, Agrees
<1>1. CASE FreshTag
  BY <1>1 DEF FreshTag, Turn, thread
<1>2. CASE ForwardsCard \/ Resolves
  BY <1>2, ToldElsewhere DEF ForwardsCard, Resolves
<1>3. CASE AsksForList
  BY <1>3 DEF AsksForList, Turn, thread, Writes
<1>4. CASE Proposes
  <2>1. PICK v \in Writes, t \in Targets, d \in Asked :
          /\ v = "remove" => d = CHOOSE x \in Asked : TRUE
          /\ pending' = [verb |-> v, target |-> t, dir |-> d]
    BY <1>4 DEF Proposes
  <2>2. d \in Dirs /\ pending'.verb \in Writes /\ pending'.dir = d
    BY <2>1, RosterAssumption
  <2> QED BY <1>4, <2>2 DEF Proposes, Turn
<1>5. CASE Declines
  BY <1>5 DEF Declines, Turn
<1>6. CASE SaysYes
  <2>1. CASE op' = Idle
    BY <1>6, <2>1 DEF SaysYes, Turn
  <2>2. CASE op' = [verb |-> pending.verb, at |-> "sync", rows |-> None,
                    key |-> resolve_target(pending, listed),
                    dir |-> IF pending.verb = "remove" THEN None ELSE pending.dir]
    <3>1. /\ DOMAIN op' = OpFields /\ op'.verb = pending.verb /\ op'.at = "sync"
          /\ op'.dir = IF pending.verb = "remove" THEN None ELSE pending.dir
      BY <2>2 DEF OpFields
    <3> QED BY <1>6, <3>1 DEF SaysYes, Turn, Writes
  <2> QED BY <1>6, <2>1, <2>2 DEF SaysYes
<1> QED BY <1>1, <1>2, <1>3, <1>4, <1>5, <1>6 DEF Says

LEMMA ToldHandles == ASSUME ToldInv, Handles PROVE ToldInv'
<1> USE DEF ToldInv, Resting, Edits, Idle, PendingOk, Landed, Agrees
<1>1. ~Resting /\ op.at \in {"sync", "synced"} /\ UNCHANGED <<store, attached>>
  BY DEF Handles, Synced
<1>2. CASE Lists(Snapshot)
  BY <1>1, <1>2 DEF Lists
<1>3. CASE UNCHANGED <<thread, told>> /\ op' = Idle
  BY <1>1, <1>3 DEF thread
<1>4. CASE /\ UNCHANGED <<thread, told>> /\ op.verb \in Writes
           /\ op' = [op EXCEPT !.at = "write", !.rows = None]
  <2>1. /\ DOMAIN op' = OpFields /\ op'.verb = op.verb /\ op'.at = "write"
        /\ op'.dir = op.dir
    BY <1>1, <1>4 DEF OpFields, Writes
  <2> QED BY <1>1, <1>4, <2>1 DEF thread, Writes
<1>5. ASSUME NEW word, Tells(word), UNCHANGED thread, op' = Idle, ~attached PROVE ToldInv'
  BY <1>1, <1>5 DEF Tells, thread
<1>6. CASE (Upserts(Snapshot) \/ Removes(Snapshot) \/ NotFound(Snapshot)) /\ UNCHANGED thread
  <2>1. CASE attached
    BY <1>3, <1>4, <1>6, <2>1, Zenon DEF Upserts, Removes, NotFound, Waits, Writes
  <2>2. CASE ~attached
    BY <1>3, <1>5, <1>6, <2>2, Zenon DEF Upserts, Removes, NotFound
  <2> QED BY <2>1, <2>2
<1> QED BY <1>2, <1>6 DEF Handles

LEMMA ToldServes == ASSUME ToldInv, Serves PROVE ToldInv'
<1> USE DEF ToldInv, Resting, Edits, Idle, PendingOk, Landed, Agrees, thread
<1>1. CASE Handles
  BY <1>1, ToldHandles
<1>2. CASE SyncReads
  <2>1. PICK rows : op' = [op EXCEPT !.at = "synced", !.rows = rows]
                    \/ op' = [op EXCEPT !.at = "synced"]
    BY <1>2 DEF SyncReads
  <2>2. /\ op'.verb = op.verb /\ op'.at = "synced"
        /\ Edits => DOMAIN op' = OpFields /\ op'.dir = op.dir
    BY <1>2, <2>1 DEF SyncReads, OpFields
  <2> QED BY <1>2, <2>2 DEF SyncReads
<1>3. CASE WriteLands
  <2>1. Edits /\ UNCHANGED <<told, pending>> /\ op.at = "write"
        /\ store' = [store EXCEPT ![op.key] = op.dir] /\ op' = [op EXCEPT !.at = "landed"]
    BY <1>3 DEF WriteLands, Writing
  <2>2. /\ DOMAIN op' = OpFields /\ op'.verb = op.verb /\ op'.dir = op.dir
        /\ op'.key = op.key /\ op'.at = "landed"
    BY <2>1 DEF OpFields
  <2> QED BY <2>1, <2>2 DEF Writes
<1>4. CASE WriteFails
  <2>1. /\ Edits /\ UNCHANGED pending /\ op' = Idle /\ op.at = "write"
        /\ told' = [told EXCEPT ![op.key] = None]
        /\ store' = store \/ store' = [store EXCEPT ![op.key] = op.dir]
    BY <1>4 DEF WriteFails, Writing, Tells
  <2> QED BY <2>1
<1>5. CASE Settles
  <2>1. /\ ~Resting /\ op.at = "landed" /\ op' = Idle /\ UNCHANGED <<store, pending>>
        /\ told' = [told EXCEPT ![op.key] = IF attached
                                             THEN IF op.verb = "remove" THEN "gone" ELSE op.dir
                                             ELSE None]
    BY <1>5 DEF Settles, Tells
  <2>2. Edits /\ "gone" \notin Dirs
    BY <2>1 DEF Dirs
  <2> QED BY <2>1, <2>2
<1> QED BY <1>1, <1>2, <1>3, <1>4, <1>5 DEF Serves

LEMMA ToldRestarts == ASSUME ToldInv, Restarts PROVE ToldInv'
<1>1. /\ op' = Idle /\ UNCHANGED <<store, pending>>
      /\ told' = IF Resting \/ op.verb = "list" THEN told ELSE [told EXCEPT ![op.key] = None]
  BY DEF Restarts, thread
<1> QED BY <1>1 DEF ToldInv, Resting, Edits, Idle, PendingOk, Landed, Agrees

LEMMA ToldKept == ToldInv /\ [VoiceNext]_allVars => ToldInv'
<1> SUFFICES ASSUME ToldInv, [VoiceNext]_allVars PROVE ToldInv'
  OBVIOUS
<1>1. CASE Says
  BY <1>1, ToldSays
<1>2. CASE Serves
  BY <1>2, ToldServes
<1>3. CASE Restarts
  BY <1>3, ToldRestarts
<1>4. CASE Loop \/ UNCHANGED state
  BY <1>4, ToldElsewhere DEF Loop, LoopReads, LoopApplies, state, thread
<1> QED BY <1>1, <1>2, <1>3, <1>4 DEF VoiceNext, allVars, vars

\* Whatever reads come late, whatever fails and whenever the process dies: what he was
\* last told of a chat is what the table has for it.
THEOREM ToldIsStored == VoiceSpec => []HisWordIsStored
<1>1. VoiceInit => ToldInv
  BY ToldBegins DEF VoiceInit
<1>2. ToldInv /\ [VoiceNext]_allVars => ToldInv'
  BY ToldKept
<1> QED BY <1>1, <1>2, ToldInvHolds, PTL DEF VoiceSpec

-----------------------------------------------------------------------------
(* The turns under way.                                                    *)

TurnRec == [at : {"wanted", "asking", "heard", "got"}, note : Notes, rule : Keys \cup {None}]

\* A turn holds the lock of a JID of its note's chat, and its rule covers it.
Neat(f, h) ==
    /\ f \in [Jids -> TurnRec \cup {Free}]
    /\ h \in [Notes -> Chats \cup {None}]
    /\ \A j \in Jids : f[j] # Free =>
          /\ h[f[j].note] = j[1]
          /\ f[j].rule # None => j \in Covered(f[j].rule)

LEMMA FreeIsNone == \A r \in TurnRec : r # Free /\ r.at \in {"wanted", "asking", "heard", "got"}
                                       /\ r.note \in Notes /\ r.rule \in Keys \cup {None}
<1> SUFFICES ASSUME NEW r \in TurnRec PROVE r # Free
  BY DEF TurnRec
<1>1. DOMAIN r = {"at", "note", "rule"} /\ DOMAIN Free = {"at"}
  BY DEF TurnRec, Free
<1> QED BY <1>1

LEMMA JidOfChat ==
    /\ \A c \in Chats, me \in BOOLEAN : jid(c, me) \in Jids /\ jid(c, me)[1] = c
    /\ \A j \in Jids : j[1] \in Chats /\ j \in {<<j[1], "from">>, <<j[1], "to">>}
    /\ \A c \in Chats : <<c, "from">> \in Jids /\ (<<c, "to">> \in Jids <=> c \in Contacts)
<1>1. \A c \in Chats : <<c, "from">> \in Jids /\ (<<c, "to">> \in Jids <=> c \in Contacts)
  BY DEF Jids
<1>2. ASSUME NEW c \in Chats, NEW me \in BOOLEAN
      PROVE  jid(c, me) \in Jids /\ jid(c, me)[1] = c
  <2>1. CASE c \in Contacts /\ me
    BY <1>1, <2>1 DEF jid
  <2>2. CASE ~(c \in Contacts /\ me)
    BY <1>1, <2>2 DEF jid
  <2> QED BY <2>1, <2>2
<1>3. ASSUME NEW j \in Jids
      PROVE  j[1] \in Chats /\ j \in {<<j[1], "from">>, <<j[1], "to">>}
  <2>1. CASE j \in Chats \X {"from"}
    <3>1. PICK c \in Chats : j = <<c, "from">>
      BY <2>1
    <3> QED BY <3>1
  <2>2. CASE j \in Contacts \X {"to"}
    <3>1. PICK c \in Contacts : j = <<c, "to">>
      BY <2>2
    <3> QED BY <3>1 DEF Chats
  <2> QED BY <2>1, <2>2 DEF Jids
<1> QED BY <1>1, <1>2, <1>3

LEMMA NeatBegins == VoiceInit => Neat(turn, home)
  BY DEF VoiceInit, Neat

\* The gate let the note through, or he asked for it.
LEMMA NeatBegun ==
    ASSUME Neat(turn, home), NEW n \in Notes, NEW c \in Chats, NEW me \in BOOLEAN,
           NEW rule \in Keys \cup {None}, rule # None => rule \in {c, scope_for_kind(c)},
           home[n] \in {None, c}, home' = [home EXCEPT ![n] = c], Begins(jid(c, me), n, rule)
    PROVE  Neat(turn', home')
<1> DEFINE j == jid(c, me)
           r == [at |-> "wanted", note |-> n, rule |-> rule]
<1>1. j \in Jids /\ j[1] = c
  BY JidOfChat
<1>2. r \in TurnRec /\ r.note = n /\ r.rule = rule
  BY DEF TurnRec
<1>3. turn' = [turn EXCEPT ![j] = r]
  BY DEF Begins
<1> HIDE DEF j, r
<1>4. turn' \in [Jids -> TurnRec \cup {Free}] /\ home' \in [Notes -> Chats \cup {None}]
  BY <1>2, <1>3 DEF Neat
<1>5. ASSUME NEW i \in Jids, turn'[i] # Free
      PROVE  home'[turn'[i].note] = i[1] /\ (turn'[i].rule # None => i \in Covered(turn'[i].rule))
  <2>1. CASE i = j
    <3>1. turn'[i] = r
      BY <1>1, <1>3, <2>1 DEF Neat
    <3>2. home'[n] = c
      BY DEF Neat
    <3> QED BY <1>1, <1>2, <2>1, <3>1, <3>2 DEF Covered
  <2>2. CASE i # j
    <3>1. turn'[i] = turn[i] /\ home[turn[i].note] = i[1] /\ turn[i].note \in Notes
      BY <1>3, <1>5, <2>2, FreeIsNone DEF Neat
    <3>2. i[1] \in Chats /\ None \notin Chats
      BY JidOfChat, VoiceAssumption DEF Keys
    <3>3. home'[turn[i].note] = home[turn[i].note]
      BY <3>1, <3>2 DEF Neat
    <3> QED BY <1>5, <3>1, <3>3 DEF Neat
  <2> QED BY <2>1, <2>2
<1> QED BY <1>4, <1>5 DEF Neat

\* A turn that goes on is about the same note, and one that ends about none.
LEMMA NeatGoesOn ==
    ASSUME Neat(turn, home), NEW j \in Jids, turn[j] # Free, UNCHANGED home,
           (\E place \in {"asking", "heard", "got"} : Moves(j, place)) \/ Rests(j)
    PROVE  /\ Neat(turn', home')
           /\ turn'[j] # Free => turn'[j].note = turn[j].note /\ turn'[j].rule = turn[j].rule
<1>1. CASE Rests(j)
  BY <1>1 DEF Rests, Neat
<1>2. ASSUME NEW place \in {"asking", "heard", "got"}, Moves(j, place)
      PROVE  /\ Neat(turn', home')
             /\ turn'[j] # Free => turn'[j].note = turn[j].note /\ turn'[j].rule = turn[j].rule
  <2>1. turn[j] \in TurnRec
    BY DEF Neat
  <2>2. /\ turn'[j] = [turn[j] EXCEPT !.at = place] /\ turn'[j] \in TurnRec
        /\ turn'[j].note = turn[j].note /\ turn'[j].rule = turn[j].rule
    BY <1>2, <2>1 DEF Moves, Neat, TurnRec
  <2>3. \A i \in Jids \ {j} : turn'[i] = turn[i]
    BY <1>2 DEF Moves, Neat
  <2>4. turn' \in [Jids -> TurnRec \cup {Free}]
    BY <1>2, <2>2, <2>3 DEF Moves, Neat
  <2> QED BY <2>2, <2>3, <2>4 DEF Neat
<1> QED BY <1>1, <1>2

\* What the turns of a JID do with its lock.
LEMMA TurnGoesOn ==
    ASSUME NEW j \in Jids, Turns(j)
    PROVE  /\ turn[j] # Free /\ UNCHANGED home
           /\ (\E place \in {"asking", "heard", "got"} : Moves(j, place)) \/ Rests(j)
  BY Zenon DEF Turns, Hits, Misses, Transcribes, GivesUp, Delivers

\* What begins: a note the gate let through, or one he asks for.
Lets(n, c, me, rule) ==
    /\ home[n] \in {None, c} /\ home' = [home EXCEPT ![n] = c]
    /\ Begins(jid(c, me), n, rule)
    /\ rule # None => rule \in {c, scope_for_kind(c)} /\ allows(rule)
    /\ UNCHANGED <<lru, table, counts, today, paid, mishaps>>

LEMMA BeginsSomehow ==
    ASSUME Records \/ AsksFor
    PROVE  \E n \in Notes, c \in Chats, me \in BOOLEAN, rule \in Keys \cup {None} :
              Lets(n, c, me, rule)
<1>1. CASE Records
  <2>1. PICK n \in Notes, c \in Chats, me \in BOOLEAN :
          /\ home[n] = None /\ home' = [home EXCEPT ![n] = c]
          /\ should_transcribe(c, me) # None /\ allows(should_transcribe(c, me))
          /\ Begins(jid(c, me), n, should_transcribe(c, me))
    BY <1>1 DEF Records
  <2>2. should_transcribe(c, me) \in {c, scope_for_kind(c), None}
    BY DEF should_transcribe
  <2>3. {c, scope_for_kind(c)} \subseteq Keys
    BY DEF scope_for_kind, SCOPE_KEYS, Keys
  <2>4. Lets(n, c, me, should_transcribe(c, me))
    BY <1>1, <2>1, <2>2 DEF Records, Lets
  <2> QED BY <2>2, <2>3, <2>4
<1>2. CASE AsksFor
  <2>1. PICK n \in Notes, c \in Chats :
          /\ home[n] \in {None, c} /\ home' = [home EXCEPT ![n] = c]
          /\ Begins(jid(c, TRUE), n, None)
    BY <1>2 DEF AsksFor
  <2>2. Lets(n, c, TRUE, None)
    BY <1>2, <2>1 DEF AsksFor, Lets
  <2> QED BY <2>2
<1> QED BY <1>1, <1>2

LEMMA NeatKept == Neat(turn, home) /\ [VoiceNext]_allVars => Neat(turn, home)'
<1> SUFFICES ASSUME Neat(turn, home), [VoiceNext]_allVars PROVE Neat(turn', home')
  BY DEF Neat, Covered
<1>1. CASE UNCHANGED <<turn, home>>
  BY <1>1
<1>2. CASE Forgets
  BY <1>2 DEF Forgets, Neat
<1>3. CASE Records \/ AsksFor
  BY <1>3, BeginsSomehow, NeatBegun DEF Lets
<1>4. CASE \E j \in Jids : Turns(j)
  BY <1>4, TurnGoesOn, NeatGoesOn
<1> QED BY <1>1, <1>2, <1>3, <1>4 DEF VoiceNext, Hears, Midnight, voice, allVars

-----------------------------------------------------------------------------
(* What was paid for.                                                      *)

One(b) == IF b THEN 1 ELSE 0
Doing(j, n, place) == attached /\ j \in Jids /\ turn[j] # Free /\ turn[j].note = n /\ At(j, place)
Number(n, place) ==
    One(Doing(<<home[n], "from">>, n, place)) + One(Doing(<<home[n], "to">>, n, place))

\* The JIDs of a chat, and what the mishaps explain of a note in it.
Width(n) == IF home[n] \in Contacts THEN 2 ELSE 1
Explained(n) == IF home[n] \in Contacts THEN mishaps + mishaps ELSE mishaps

\* Beyond the mishaps there is a purchase for each turn that has the transcript
\* and not yet put it away; and once it is in the table, one for each JID, less
\* the turns that still hold to their lookup.
PaidFor(n) ==
    /\ n \notin table => paid[n] <= Explained(n) + Number(n, "heard")
    /\ n \in table => paid[n] + Number(n, "asking") <= Explained(n) + Width(n)

PaidInv ==
    /\ mishaps \in Nat
    /\ paid \in [Notes -> Nat]
    /\ \A n \in Notes : home[n] = None => paid[n] = 0
    /\ \A n \in Notes : PaidFor(n)

LEMMA JidsOfNote ==
    ASSUME NEW n \in Notes, home[n] \in Chats
    PROVE  Cardinality(JidsOf(n)) = Width(n)
<1> DEFINE c == home[n]
           S == {<<c, "from">>}
<1>1. IsFiniteSet(S) /\ Cardinality(S) = 1
  BY FS_Singleton
<1>2. CASE c \in Contacts
  <2>1. JidsOf(n) = S \cup {<<c, "to">>} /\ <<c, "to">> \notin S
    BY <1>2, JidOfChat DEF JidsOf
  <2> HIDE DEF S
  <2>2. Cardinality(S \cup {<<c, "to">>}) = Cardinality(S) + 1
    BY <1>1, <2>1, FS_AddElement
  <2> QED BY <1>1, <1>2, <2>1, <2>2 DEF Width
<1>3. CASE c \notin Contacts
  <2>1. \A j : j \in JidsOf(n) <=> j = <<c, "from">>
    BY <1>3, JidOfChat DEF JidsOf
  <2>2. JidsOf(n) = S
    BY <2>1
  <2> QED BY <1>1, <1>3, <2>2 DEF Width
<1> QED BY <1>2, <1>3

\* A group has no second JID, and a turn is in one place.
LEMMA NumberBounds ==
    ASSUME Neat(turn, home), NEW n \in Notes
    PROVE  /\ Number(n, "heard") \in Nat /\ Number(n, "asking") \in Nat
           /\ Number(n, "heard") + Number(n, "asking") <= Width(n)
<1> DEFINE c == home[n]
<1>1. ASSUME NEW j
      PROVE  /\ One(Doing(j, n, "heard")) \in Nat /\ One(Doing(j, n, "asking")) \in Nat
             /\ One(Doing(j, n, "heard")) + One(Doing(j, n, "asking")) <= 1
  BY DEF One, Doing, At
<1>2. CASE c \in Contacts
  BY <1>1, <1>2 DEF Number, Width
<1>3. CASE c \notin Contacts
  <2>1. <<c, "to">> \notin Jids
    BY <1>3, JidOfChat DEF Neat, Jids
  <2>2. One(Doing(<<c, "to">>, n, "heard")) = 0 /\ One(Doing(<<c, "to">>, n, "asking")) = 0
    BY <2>1 DEF One, Doing
  <2> QED BY <1>1, <1>3, <2>2 DEF Number, Width
<1> QED BY <1>2, <1>3

\* A step of one turn changes nothing for the notes of the others.
LEMMA NumberElsewhere ==
    ASSUME NEW n \in Notes, UNCHANGED attached, home'[n] = home[n], NEW j \in Jids,
           \A i \in Jids \ {j} : turn'[i] = turn[i],
           turn[j] # Free => turn[j].note # n, turn'[j] # Free => turn'[j].note # n,
           NEW place
    PROVE  Number(n, place)' = Number(n, place)
<1>1. \A i : Doing(i, n, place)' <=> Doing(i, n, place)
  BY DEF Doing, At
<1> QED BY <1>1 DEF Number, One

\* And for its own note it counts for what it does itself.
LEMMA NumberHere ==
    ASSUME Neat(turn, home), NEW n \in Notes, UNCHANGED attached, home'[n] = home[n],
           NEW j \in Jids, home[n] = j[1],
           \A i \in Jids \ {j} : turn'[i] = turn[i], NEW place
    PROVE  Number(n, place)' + One(Doing(j, n, place))
              = Number(n, place) + One(Doing(j, n, place)')
<1>1. \A i : i # j => (Doing(i, n, place)' <=> Doing(i, n, place))
  BY DEF Doing, At
<1>2. \A i : i # j => One(Doing(i, n, place)') = One(Doing(i, n, place))
  BY <1>1 DEF One
<1>3. \A b : One(b) \in Nat
  BY DEF One
<1>4. PICK c : c = home[n] /\ home'[n] = c
  OBVIOUS
<1>5. <<c, "from">> # <<c, "to">> /\ j \in {<<c, "from">>, <<c, "to">>}
  BY <1>4, JidOfChat
<1>6. Number(n, place)' = One(Doing(<<c, "from">>, n, place)') + One(Doing(<<c, "to">>, n, place)')
  BY <1>4 DEF Number, One
<1>7. Number(n, place) = One(Doing(<<c, "from">>, n, place)) + One(Doing(<<c, "to">>, n, place))
  BY <1>4 DEF Number
<1>8. CASE j = <<c, "from">>
  <2>1. One(Doing(<<c, "to">>, n, place)') = One(Doing(<<c, "to">>, n, place))
    BY <1>2, <1>5, <1>8
  <2> QED BY <1>3, <1>6, <1>7, <1>8, <2>1
<1>9. CASE j = <<c, "to">>
  <2>1. One(Doing(<<c, "from">>, n, place)') = One(Doing(<<c, "from">>, n, place))
    BY <1>2, <1>5, <1>9
  <2> QED BY <1>3, <1>6, <1>7, <1>9, <2>1
<1> QED BY <1>5, <1>8, <1>9

LEMMA PaidBegins == VoiceInit => PaidInv
<1> SUFFICES ASSUME VoiceInit PROVE PaidInv
  OBVIOUS
<1>1. mishaps = 0 /\ paid = [n \in Notes |-> 0] /\ table = {} /\ turn = [j \in Jids |-> Free]
  BY DEF VoiceInit, Init
<1>2. \A n \in Notes : Explained(n) = 0 /\ Number(n, "heard") = 0
  BY <1>1 DEF Explained, Number, One, Doing
<1> QED BY <1>1, <1>2 DEF PaidInv, PaidFor

\* Mishaps only ever explain more.
LEMMA PaidElsewhere ==
    ASSUME PaidInv, UNCHANGED <<voice, attached>>, mishaps' = mishaps \/ mishaps' = mishaps + 1,
           Neat(turn, home)
    PROVE  PaidInv'
<1>1. ASSUME NEW n \in Notes PROVE PaidFor(n)'
  <2>1. Number(n, "heard")' = Number(n, "heard") /\ Number(n, "asking")' = Number(n, "asking")
    BY DEF Number, One, Doing, At, voice
  <2>2. Explained(n) \in Nat /\ Explained(n)' \in Nat /\ Explained(n)' >= Explained(n)
    BY DEF Explained, PaidInv, voice
  <2>3. PaidFor(n) /\ paid[n] \in Nat /\ Width(n)' = Width(n) /\ Width(n) \in Nat
        /\ UNCHANGED <<paid, table>>
    BY DEF PaidInv, Width, voice
  <2>4. Number(n, "heard") \in Nat /\ Number(n, "asking") \in Nat
    BY NumberBounds
  <2> QED BY <2>1, <2>2, <2>3, <2>4 DEF PaidFor
<1> QED BY <1>1 DEF PaidInv, voice

LEMMA PaidBegun ==
    ASSUME PaidInv, Neat(turn, home), NEW m \in Notes, NEW c \in Chats, NEW me \in BOOLEAN,
           NEW rule \in Keys \cup {None}, Lets(m, c, me, rule), UNCHANGED attached
    PROVE  PaidInv'
<1> DEFINE j == jid(c, me)
           r == [at |-> "wanted", note |-> m, rule |-> rule]
<1>1. j \in Jids /\ turn[j] = Free /\ turn' = [turn EXCEPT ![j] = r]
      /\ home[m] \in {None, c} /\ home' = [home EXCEPT ![m] = c]
      /\ UNCHANGED <<paid, table, mishaps>>
  BY JidOfChat DEF Lets, Begins
<1>2. r.at = "wanted"
  OBVIOUS
<1> HIDE DEF j, r
<1>3. \A i, n : /\ Doing(i, n, "heard")' <=> Doing(i, n, "heard")
                /\ Doing(i, n, "asking")' <=> Doing(i, n, "asking")
  BY <1>1, <1>2 DEF Doing, At, Neat
<1>4. home[m] = None => \A i, p : ~Doing(i, m, p)
  <2>1. None \notin Chats /\ \A i \in Jids : i[1] \in Chats
    BY JidOfChat, VoiceAssumption DEF Keys
  <2> QED BY <2>1 DEF Doing, Neat
<1>5. ASSUME NEW n \in Notes PROVE PaidFor(n)'
  <2>1. CASE home'[n] = home[n]
    <3>1. Number(n, "heard")' = Number(n, "heard") /\ Number(n, "asking")' = Number(n, "asking")
      BY <1>3, <2>1 DEF Number, One
    <3>2. Explained(n)' = Explained(n) /\ Width(n)' = Width(n)
      BY <1>1, <2>1 DEF Explained, Width
    <3> QED BY <1>1, <3>1, <3>2 DEF PaidInv, PaidFor
  <2>2. CASE home'[n] # home[n]
    <3>1. n = m /\ home[n] = None /\ paid'[n] = 0
      BY <1>1, <2>2 DEF Neat, PaidInv
    <3>2. Number(n, "heard")' = 0 /\ Number(n, "asking")' = 0
      BY <1>3, <1>4, <3>1 DEF Number, One
    <3>3. Explained(n)' \in Nat /\ Width(n)' \in Nat
      BY <1>1 DEF Explained, Width, PaidInv
    <3> QED BY <3>1, <3>2, <3>3 DEF PaidFor
  <2> QED BY <2>1, <2>2
<1> QED BY <1>1, <1>5 DEF PaidInv, Neat

\* What a turn does with the table, the bill and the mishaps.
TurnPays(j, n) ==
    \/ (At(j, "wanted") \/ At(j, "got")) /\ UNCHANGED <<table, paid>>
       /\ (Moves(j, "got") \/ Rests(j)) /\ mishaps' \in {mishaps, mishaps + 1}
    \/ At(j, "wanted") /\ Moves(j, "asking") /\ UNCHANGED <<table, paid>>
       /\ mishaps' = IF attached /\ n \in table THEN mishaps + 1 ELSE mishaps
    \/ At(j, "asking") /\ Moves(j, "heard") /\ UNCHANGED <<table, mishaps>>
       /\ paid' = IF attached THEN [paid EXCEPT ![n] = @ + 1] ELSE paid
    \/ At(j, "asking") /\ Rests(j) /\ UNCHANGED <<table, paid>> /\ mishaps' = mishaps + 1
    \/ At(j, "heard") /\ Rests(j) /\ UNCHANGED paid
       /\ \/ table' = (IF attached THEN table \cup {n} ELSE table)
             /\ mishaps' \in {mishaps, mishaps + 1}
          \/ table' = table /\ mishaps' = mishaps + 1

LEMMA TurnDoes ==
    ASSUME NEW j \in Jids, Turns(j)
    PROVE  TurnPays(j, turn[j].note)
<1> DEFINE n == turn[j].note
<1>1. CASE Hits(j, n)
  BY <1>1 DEF Hits, TurnPays
<1>2. CASE Misses(j, n)
  BY <1>2 DEF Misses, TurnPays, Mishap
<1>3. CASE Transcribes(j, n)
  BY <1>3 DEF Transcribes, TurnPays
<1>4. CASE GivesUp(j)
  BY <1>4 DEF GivesUp, TurnPays, Mishap
<1>5. CASE Delivers(j, n)
  BY <1>5 DEF Delivers, TurnPays, Put, At, Mishap
<1> QED BY <1>1, <1>2, <1>3, <1>4, <1>5, Zenon DEF Turns

\* What a turn's own note owes, by where the turn was and where it goes.
LEMMA PaidHere ==
    ASSUME PaidInv, Neat(turn, home), NEW j \in Jids, turn[j] # Free, NEW n \in Notes,
           n = turn[j].note, UNCHANGED <<home, attached>>, TurnPays(j, n)
    PROVE  PaidFor(n)' /\ mishaps' \in Nat /\ paid' \in [Notes -> Nat]
           /\ (\A m \in Notes \ {n} : paid'[m] = paid[m] /\ (m \in table' <=> m \in table))
           /\ mishaps' >= mishaps
<1>0. turn[j] \in TurnRec /\ turn \in [Jids -> TurnRec \cup {Free}] /\ home[n] = j[1]
  BY DEF Neat
<1>1. /\ \A i \in Jids \ {j} : turn'[i] = turn[i]
      /\ Rests(j) => turn'[j] = Free
      /\ \A p \in {"asking", "heard", "got"} :
            Moves(j, p) => turn'[j].at = p /\ turn'[j].note = n /\ turn'[j] # Free
  <2>1. \A p \in {"asking", "heard", "got"} :
            Moves(j, p) => turn'[j] = [turn[j] EXCEPT !.at = p]
    BY <1>0 DEF Moves
  <2>2. \A p \in {"asking", "heard", "got"} :
            [turn[j] EXCEPT !.at = p] \in TurnRec /\ [turn[j] EXCEPT !.at = p].note = n
            /\ [turn[j] EXCEPT !.at = p].at = p
    BY <1>0 DEF TurnRec
  <2>3. \A i \in Jids \ {j} : turn'[i] = turn[i]
    BY <1>0 DEF TurnPays, Moves, Rests
  <2>4. Rests(j) => turn'[j] = Free
    BY <1>0 DEF Rests
  <2> QED BY <2>1, <2>2, <2>3, <2>4, FreeIsNone
<1> DEFINE H == Number(n, "heard")
           A == Number(n, "asking")
           h == One(Doing(j, n, "heard"))
           a == One(Doing(j, n, "asking"))
           hh == One(Doing(j, n, "heard")')
           aa == One(Doing(j, n, "asking")')
           HH == Number(n, "heard")'
           AA == Number(n, "asking")'
<1>2. HH + h = H + hh /\ AA + a = A + aa
  BY <1>0, <1>1, NumberHere
<1>3. H \in Nat /\ A \in Nat /\ H + A <= Width(n)
  BY NumberBounds
<1>4. {h, hh, a, aa} \subseteq {0, 1} /\ HH \in Nat /\ AA \in Nat
  BY DEF One, Number
<1>5. PaidFor(n) /\ paid[n] \in Nat /\ mishaps \in Nat
  BY DEF PaidInv
<1>6. /\ Width(n) \in {1, 2} /\ Width(n)' = Width(n)
      /\ Explained(n) \in Nat
      /\ mishaps' = mishaps => Explained(n)' = Explained(n)
      /\ mishaps' = mishaps + 1 => Explained(n)' = Explained(n) + Width(n)
  BY <1>5 DEF Width, Explained
<1>7. /\ attached /\ turn'[j] # Free /\ turn'[j].note = n
            => hh = One(turn'[j].at = "heard") /\ aa = One(turn'[j].at = "asking")
      /\ attached => h = One(turn[j].at = "heard") /\ a = One(turn[j].at = "asking")
      /\ ~attached => h = 0 /\ a = 0 /\ hh = 0 /\ aa = 0
      /\ turn'[j] = Free => hh = 0 /\ aa = 0
  BY DEF One, Doing, At
<1> HIDE DEF H, A, h, a, hh, aa, HH, AA
<1>8. CASE /\ (At(j, "wanted") \/ At(j, "got")) /\ UNCHANGED <<table, paid>>
           /\ (Moves(j, "got") \/ Rests(j)) /\ mishaps' \in {mishaps, mishaps + 1}
  <2>1. h = 0 /\ a = 0 /\ hh = 0 /\ aa = 0
    BY <1>1, <1>4, <1>7, <1>8 DEF At, One
  <2>2. HH = H /\ AA = A
    BY <1>2, <1>3, <1>4, <2>1
  <2>3. Explained(n)' >= Explained(n) /\ Explained(n)' \in Nat
    BY <1>6, <1>8
  <2>4. PaidFor(n)'
    BY <1>3, <1>5, <1>6, <1>8, <2>2, <2>3 DEF PaidFor, H, A, HH, AA
  <2> QED BY <1>5, <1>8, <2>4 DEF PaidInv
<1>9. CASE /\ At(j, "wanted") /\ Moves(j, "asking") /\ UNCHANGED <<table, paid>>
           /\ mishaps' = IF attached /\ n \in table THEN mishaps + 1 ELSE mishaps
  <2>1. h = 0 /\ a = 0 /\ hh = 0 /\ (aa = IF attached THEN 1 ELSE 0)
    BY <1>1, <1>4, <1>7, <1>9 DEF At, One
  <2>2. HH = H /\ (AA = IF attached THEN A + 1 ELSE A)
    BY <1>2, <1>3, <1>4, <2>1
  <2>3. PaidFor(n)'
    BY <1>3, <1>5, <1>6, <1>9, <2>2 DEF PaidFor, H, A, HH, AA
  <2> QED BY <1>5, <1>9, <2>3 DEF PaidInv
<1>10. CASE /\ At(j, "asking") /\ Moves(j, "heard") /\ UNCHANGED <<table, mishaps>>
            /\ paid' = IF attached THEN [paid EXCEPT ![n] = @ + 1] ELSE paid
  <2>1. /\ attached => h = 0 /\ a = 1 /\ hh = 1 /\ aa = 0
        /\ ~attached => h = 0 /\ a = 0 /\ hh = 0 /\ aa = 0
    BY <1>1, <1>4, <1>7, <1>10 DEF At, One
  <2>2. /\ attached => HH = H + 1 /\ AA = A - 1
        /\ ~attached => HH = H /\ AA = A
    BY <1>2, <1>3, <1>4, <2>1
  <2>3. /\ paid' \in [Notes -> Nat] /\ \A m \in Notes \ {n} : paid'[m] = paid[m]
        /\ paid'[n] = IF attached THEN paid[n] + 1 ELSE paid[n]
    BY <1>10 DEF PaidInv
  <2>4. PaidFor(n)'
    BY <1>3, <1>5, <1>6, <1>10, <2>2, <2>3 DEF PaidFor, H, A, HH, AA
  <2> QED BY <1>5, <1>10, <2>3, <2>4
<1>11. CASE At(j, "asking") /\ Rests(j) /\ UNCHANGED <<table, paid>> /\ mishaps' = mishaps + 1
  <2>1. h = 0 /\ hh = 0 /\ aa = 0
    BY <1>1, <1>4, <1>7, <1>11 DEF At, One
  <2>2. HH = H /\ AA <= A
    BY <1>2, <1>3, <1>4, <2>1
  <2>3. PaidFor(n)'
    BY <1>3, <1>4, <1>5, <1>6, <1>11, <2>2 DEF PaidFor, H, A, HH, AA
  <2> QED BY <1>5, <1>11, <2>3 DEF PaidInv
<1>12. CASE /\ At(j, "heard") /\ Rests(j) /\ UNCHANGED paid
            /\ \/ table' = (IF attached THEN table \cup {n} ELSE table)
                  /\ mishaps' \in {mishaps, mishaps + 1}
               \/ table' = table /\ mishaps' = mishaps + 1
  <2>1. (h = IF attached THEN 1 ELSE 0) /\ a = 0 /\ hh = 0 /\ aa = 0
    BY <1>1, <1>4, <1>7, <1>12 DEF At, One
  <2>2. (HH = IF attached THEN H - 1 ELSE H) /\ AA = A
    BY <1>2, <1>3, <1>4, <2>1
  <2>3. CASE table' = (IF attached THEN table \cup {n} ELSE table)
             /\ mishaps' \in {mishaps, mishaps + 1}
    <3>1. Explained(n)' >= Explained(n) /\ Explained(n)' \in Nat
      BY <1>6, <2>3
    <3>2. PaidFor(n)'
      BY <1>3, <1>4, <1>5, <1>6, <1>12, <2>2, <2>3, <3>1 DEF PaidFor, H, A, HH, AA
    <3> QED BY <1>5, <1>12, <2>3, <3>2 DEF PaidInv
  <2>4. CASE table' = table /\ mishaps' = mishaps + 1
    <3>1. PaidFor(n)'
      BY <1>3, <1>4, <1>5, <1>6, <1>12, <2>2, <2>4 DEF PaidFor, H, A, HH, AA
    <3> QED BY <1>5, <1>12, <2>4, <3>1 DEF PaidInv
  <2> QED BY <1>12, <2>3, <2>4
<1> QED BY <1>8, <1>9, <1>10, <1>11, <1>12, Zenon DEF TurnPays

LEMMA ExplainedGrows ==
    ASSUME NEW n, home'[n] = home[n], mishaps \in Nat, mishaps' \in Nat, mishaps' >= mishaps
    PROVE  /\ Explained(n) \in Nat /\ Explained(n)' \in Nat /\ Explained(n)' >= Explained(n)
           /\ Width(n) \in {1, 2} /\ Width(n)' = Width(n)
           /\ mishaps' > mishaps => Explained(n)' >= Explained(n) + Width(n)
<1>1. CASE home[n] \in Contacts
  <2>1. /\ Explained(n) = mishaps + mishaps /\ Explained(n)' = mishaps' + mishaps'
        /\ Width(n) = 2 /\ Width(n)' = 2
    BY <1>1 DEF Explained, Width
  <2>2. \A a, b \in Nat : b >= a => /\ a + a \in Nat /\ b + b \in Nat /\ b + b >= a + a
                                    /\ b > a => b + b >= a + a + 2
    OBVIOUS
  <2>3. PICK a, b \in Nat : a = mishaps /\ b = mishaps'
    OBVIOUS
  <2>4. /\ a + a \in Nat /\ b + b \in Nat /\ b + b >= a + a
        /\ b > a => b + b >= a + a + 2
    BY <2>2, <2>3
  <2> QED BY <2>1, <2>3, <2>4, Zenon
<1>2. CASE home[n] \notin Contacts
  BY <1>2 DEF Explained, Width
<1> QED BY <1>1, <1>2

LEMMA PaidTurns ==
    ASSUME PaidInv, Neat(turn, home), NEW j \in Jids, Turns(j), UNCHANGED attached
    PROVE  PaidInv'
<1> DEFINE n == turn[j].note
<1>1. /\ turn[j] # Free /\ UNCHANGED home /\ n \in Notes
      /\ (\E place \in {"asking", "heard", "got"} : Moves(j, place)) \/ Rests(j)
  BY TurnGoesOn, FreeIsNone DEF Neat
<1>2. PICK m \in Notes : m = n
  BY <1>1
<1>3. TurnPays(j, m)
  BY <1>2, TurnDoes
<1>4. /\ PaidFor(m)' /\ mishaps' \in Nat /\ paid' \in [Notes -> Nat] /\ mishaps' >= mishaps
      /\ \A i \in Notes \ {m} : paid'[i] = paid[i] /\ (i \in table' <=> i \in table)
  BY <1>1, <1>2, <1>3, PaidHere
<1>5. ASSUME NEW i \in Notes \ {m} PROVE PaidFor(i)'
  <2>1. \A l \in Jids \ {j} : turn'[l] = turn[l]
    BY <1>1 DEF Moves, Rests, Neat
  <2>2. turn'[j] # Free => turn'[j].note = m
    BY <1>1, <1>2, NeatGoesOn
  <2>3. Number(i, "heard")' = Number(i, "heard") /\ Number(i, "asking")' = Number(i, "asking")
    BY <1>1, <1>2, <2>1, <2>2, NumberElsewhere
  <2>4. Number(i, "heard") \in Nat /\ Number(i, "asking") \in Nat
    BY NumberBounds
  <2>5. /\ Explained(i)' >= Explained(i) /\ Explained(i) \in Nat /\ Explained(i)' \in Nat
        /\ Width(i)' = Width(i) /\ Width(i) \in Nat
    <3>1. mishaps \in Nat /\ home'[i] = home[i]
      BY <1>1 DEF PaidInv
    <3> QED BY <1>4, <3>1, ExplainedGrows
  <2>6. PaidFor(i) /\ paid[i] \in Nat /\ paid'[i] = paid[i] /\ (i \in table' <=> i \in table)
    BY <1>4 DEF PaidInv
  <2> QED BY <2>3, <2>4, <2>5, <2>6 DEF PaidFor
<1>6. \A i \in Notes : home'[i] = None => paid'[i] = 0
  <2>1. home[m] # None
    BY <1>1, <1>2, JidOfChat, VoiceAssumption DEF Neat, Keys
  <2> QED BY <1>1, <1>4, <2>1 DEF PaidInv
<1> QED BY <1>4, <1>5, <1>6 DEF PaidInv

\* A death may lose one transcript of each turn, and is a mishap.
LEMMA PaidRestarts ==
    ASSUME PaidInv, Neat(turn, home), Restarts, Forgets PROVE PaidInv'
<1>1. mishaps' \in {mishaps + 1, mishaps + 2} /\ turn' = [j \in Jids |-> Free]
      /\ UNCHANGED <<home, table, paid>>
  BY DEF Restarts, Boots, Forgets
<1>2. ASSUME NEW n \in Notes PROVE PaidFor(n)'
  <2>1. Number(n, "asking")' = 0 /\ Number(n, "heard")' = 0
    BY <1>1 DEF Number, One, Doing
  <2>2. Number(n, "heard") \in Nat /\ Number(n, "asking") \in Nat
        /\ Number(n, "heard") + Number(n, "asking") <= Width(n)
    BY NumberBounds
  <2>3. /\ Explained(n)' >= Explained(n) + Width(n) /\ Explained(n) \in Nat
        /\ Explained(n)' \in Nat /\ Width(n)' = Width(n) /\ Width(n) \in Nat
    <3>1. mishaps \in Nat /\ mishaps' \in Nat /\ mishaps' > mishaps /\ home'[n] = home[n]
      BY <1>1 DEF PaidInv
    <3> QED BY <3>1, ExplainedGrows
  <2>4. PaidFor(n) /\ paid[n] \in Nat
    BY DEF PaidInv
  <2> QED BY <1>1, <2>1, <2>2, <2>3, <2>4 DEF PaidFor
<1> QED BY <1>1, <1>2 DEF PaidInv

LEMMA PaidKept == Neat(turn, home) /\ PaidInv /\ [VoiceNext]_allVars => PaidInv'
<1> SUFFICES ASSUME Neat(turn, home), PaidInv, [VoiceNext]_allVars PROVE PaidInv'
  OBVIOUS
<1>1. CASE Says /\ UNCHANGED voice
  <2>1. UNCHANGED <<attached, mishaps>>
    BY <1>1 DEF Says, FreshTag, ForwardsCard, Resolves, AsksForList, Proposes, Declines, SaysYes
  <2> QED BY <1>1, <2>1, PaidElsewhere
<1>2. CASE (Loop \/ Serves) /\ UNCHANGED voice
  <2>1. UNCHANGED attached /\ (mishaps' = mishaps \/ mishaps' = mishaps + 1)
    BY <1>2 DEF Loop, LoopReads, LoopApplies, Serves, SyncReads, Handles, WriteLands,
                WriteFails, Settles, Mishap
  <2> QED BY <1>2, <2>1, PaidElsewhere
<1>3. CASE Restarts /\ Forgets
  BY <1>3, PaidRestarts
<1>4. CASE Hears /\ UNCHANGED state
  <2>1. UNCHANGED attached
    BY <1>4 DEF state
  <2>2. CASE Records \/ AsksFor
    BY <2>1, <2>2, BeginsSomehow, PaidBegun
  <2>3. CASE Midnight
    <3>1. UNCHANGED <<home, turn, table, paid, mishaps>>
      BY <2>3 DEF Midnight
    <3>2. \A n \in Notes : PaidFor(n)' <=> PaidFor(n)
      BY <2>1, <3>1 DEF PaidFor, Number, One, Doing, At, Explained, Width
    <3> QED BY <3>1, <3>2 DEF PaidInv
  <2>4. CASE \E j \in Jids : Turns(j)
    BY <2>1, <2>4, PaidTurns
  <2> QED BY <1>4, <2>2, <2>3, <2>4 DEF Hears
<1>5. CASE UNCHANGED allVars
  BY <1>5, PaidElsewhere DEF allVars, vars, state
<1> QED BY <1>1, <1>2, <1>3, <1>4, <1>5 DEF VoiceNext

LEMMA PaidHolds == Neat(turn, home) /\ PaidInv => PaidByJid
<1> SUFFICES ASSUME Neat(turn, home), PaidInv, NEW n \in Notes
             PROVE  paid[n] <= (1 + mishaps) * Cardinality(JidsOf(n))
  BY DEF PaidByJid
<1>1. PaidFor(n) /\ paid[n] \in Nat /\ mishaps \in Nat /\ (home[n] = None => paid[n] = 0)
  BY DEF PaidInv
<1>2. CASE home[n] \in Chats
  <2>1. Number(n, "heard") \in Nat /\ Number(n, "asking") \in Nat
        /\ Number(n, "heard") + Number(n, "asking") <= Width(n)
    BY NumberBounds
  <2>2. paid[n] <= Explained(n) + Width(n)
    BY <1>1, <2>1 DEF PaidFor, Explained, Width
  <2>3. Explained(n) + Width(n) = (1 + mishaps) * Width(n)
    BY <1>1 DEF Explained, Width
  <2>4. Cardinality(JidsOf(n)) = Width(n)
    BY <1>2, JidsOfNote
  <2> QED BY <2>2, <2>3, <2>4
<1>3. CASE home[n] \notin Chats
  <2>1. home[n] = None /\ JidsOf(n) = {}
    BY <1>3, JidOfChat DEF Neat, JidsOf
  <2>2. Cardinality(JidsOf(n)) = 0
    BY <2>1, FS_EmptySet
  <2>3. (1 + mishaps) * 0 = 0
    BY <1>1
  <2> QED BY <1>1, <2>1, <2>2, <2>3
<1> QED BY <1>2, <1>3

\* In any number of chats and of processes, with a memory of any size: a note is transcribed
\* once for each JID of its chat, and only a failure or a death has that done again.
THEOREM PaidOncePerJid == VoiceSpec => []PaidByJid
<1>1. VoiceInit => Neat(turn, home) /\ PaidInv
  BY NeatBegins, PaidBegins
<1>2. Neat(turn, home) /\ PaidInv /\ [VoiceNext]_allVars => (Neat(turn, home) /\ PaidInv)'
  BY NeatKept, PaidKept
<1>3. Neat(turn, home) /\ PaidInv => PaidByJid
  BY PaidHolds
<1> QED BY <1>1, <1>2, <1>3, PTL DEF VoiceSpec

-----------------------------------------------------------------------------
(* What goes out unasked.                                                  *)

\* The turns that will let a note out for a key, and the notes it let out today.
Coming(f, k) == {j \in Jids : f[j] # Free /\ f[j].rule = k}
Sent(k) == {n \in Notes : <<n, k>> \in today}

Slack(k) == Cardinality(Covered(k)) - 1

\* What went out is counted, and what is on its way was let through while the
\* count was under the limit.
CapInv ==
    Limit > 0 =>
        /\ counts \in [Keys -> Nat]
        /\ \A k \in Keys : /\ IsFiniteSet(Sent(k)) /\ Cardinality(Sent(k)) <= counts[k]
                           /\ counts[k] + Cardinality(Coming(turn, k)) <= Limit + Slack(k)

LEMMA CoveredFew ==
    ASSUME NEW k
    PROVE  IsFiniteSet(Covered(k)) /\ Cardinality(Covered(k)) \in Nat /\ Slack(k) + 1 \in Nat
           /\ Slack(k) \in Int /\ Slack(k) + 1 = Cardinality(Covered(k))
<1>1. IsFiniteSet(Chats)
  <2>1. /\ Len(Alphabet) \in Nat /\ DOMAIN Alphabet = 1..Len(Alphabet)
        /\ Range(Alphabet) = Chats /\ Alphabet \in [1..Len(Alphabet) -> Chats]
    BY RosterAssumption
  <2>2. Alphabet \in Surjection(1..Len(Alphabet), Chats)
    BY <2>1 DEF Surjection, Range
  <2> QED BY <2>1, <2>2, FS_Interval, FS_Surjection
<1>2. IsFiniteSet({"from", "to"})
  <2>1. IsFiniteSet({"from"}) /\ IsFiniteSet({"from"} \cup {"to"})
    BY FS_Singleton, FS_AddElement
  <2>2. {"from"} \cup {"to"} = {"from", "to"}
    OBVIOUS
  <2> QED BY <2>1, <2>2
<1>3. IsFiniteSet(Chats \X {"from", "to"})
  BY <1>1, <1>2, FS_Product
<1>4. Covered(k) \in SUBSET (Chats \X {"from", "to"})
  BY DEF Covered, Jids, Chats
<1>5. IsFiniteSet(Covered(k))
  BY <1>3, <1>4, FS_Subset
<1> QED BY <1>5, FS_CardinalityType DEF Slack

\* A JID has one turn at a time.
LEMMA ComingFew ==
    ASSUME NEW f, NEW h, Neat(f, h), NEW k \in Keys
    PROVE  /\ IsFiniteSet(Coming(f, k)) /\ Cardinality(Coming(f, k)) \in Nat
           /\ Cardinality(Coming(f, k)) <= Slack(k) + 1
<1>1. Coming(f, k) \in SUBSET Covered(k)
  BY VoiceAssumption DEF Coming, Neat
<1>2. IsFiniteSet(Coming(f, k)) /\ Cardinality(Coming(f, k)) <= Cardinality(Covered(k))
  BY <1>1, CoveredFew, FS_Subset
<1> QED BY <1>2, CoveredFew, FS_CardinalityType

LEMMA CapHolds == Neat(turn, home) /\ CapInv => RuleBounded
<1> SUFFICES ASSUME Neat(turn, home), CapInv, Limit > 0, NEW k \in Keys
             PROVE  Cardinality({n \in Notes : <<n, k>> \in today})
                        <= Limit + Cardinality(Covered(k)) - 1
  BY DEF RuleBounded
<1>1. /\ IsFiniteSet(Sent(k)) /\ Cardinality(Sent(k)) <= counts[k] /\ counts[k] \in Nat
      /\ counts[k] + Cardinality(Coming(turn, k)) <= Limit + Slack(k)
      /\ Cardinality(Coming(turn, k)) \in Nat
  BY ComingFew DEF CapInv
<1>2. Cardinality(Sent(k)) \in Nat /\ Slack(k) \in Int /\ Cardinality(Covered(k)) \in Nat
      /\ Slack(k) + 1 = Cardinality(Covered(k))
  BY <1>1, CoveredFew, FS_CardinalityType
<1>3. Cardinality(Sent(k)) <= Limit + Cardinality(Covered(k)) - 1
  BY <1>1, <1>2, VoiceAssumption
<1> QED BY <1>3 DEF Sent

\* A new day or a new process counts from nought.
LEMMA CapRestarts ==
    ASSUME Neat(turn', home'), today' = {}, counts' = [k \in Keys |-> 0]
    PROVE  CapInv'
<1>1. ASSUME Limit > 0, NEW k \in Keys
      PROVE  /\ IsFiniteSet(Sent(k)') /\ Cardinality(Sent(k)') <= 0
             /\ 0 + Cardinality(Coming(turn', k)) <= Limit + Slack(k)
  <2>1. Sent(k)' = {}
    BY DEF Sent
  <2>2. Cardinality(Coming(turn', k)) \in Nat /\ Cardinality(Coming(turn', k)) <= Slack(k) + 1
    BY ComingFew
  <2> QED BY <1>1, <2>1, <2>2, CoveredFew, FS_EmptySet, VoiceAssumption
<1>2. counts' \in [Keys -> Nat] /\ \A k \in Keys : counts'[k] = 0
  OBVIOUS
<1> QED BY <1>1, <1>2 DEF CapInv

LEMMA CapBegins == VoiceInit => CapInv
<1> SUFFICES ASSUME VoiceInit PROVE CapInv
  OBVIOUS
<1>1. \A k \in Keys : Coming(turn, k) = {} /\ Sent(k) = {}
  BY DEF VoiceInit, Coming, Sent
<1>2. counts \in [Keys -> Nat] /\ \A k \in Keys : counts[k] = 0
  BY DEF VoiceInit
<1>3. ASSUME Limit > 0, NEW k \in Keys
      PROVE  /\ IsFiniteSet(Sent(k)) /\ Cardinality(Sent(k)) <= counts[k]
             /\ counts[k] + Cardinality(Coming(turn, k)) <= Limit + Slack(k)
  <2>1. /\ IsFiniteSet(Sent(k)) /\ Cardinality(Sent(k)) = 0 /\ counts[k] = 0
        /\ Cardinality(Coming(turn, k)) = 0
    BY <1>1, <1>2, FS_EmptySet
  <2> QED BY <1>3, <2>1, CoveredFew, VoiceAssumption
<1> QED BY <1>2, <1>3 DEF CapInv

\* Steps that leave the turns as they are, and what was counted.
LEMMA CapElsewhere == ASSUME CapInv, UNCHANGED <<turn, counts, today>> PROVE CapInv'
  BY DEF CapInv, Sent

\* The gate let the note through under the limit, or it was asked for.
LEMMA CapBegun ==
    ASSUME CapInv, Neat(turn, home), Neat(turn', home'),
           NEW n \in Notes, NEW c \in Chats, NEW me \in BOOLEAN, NEW rule \in Keys \cup {None},
           Lets(n, c, me, rule)
    PROVE  CapInv'
<1> DEFINE j == jid(c, me)
           r == [at |-> "wanted", note |-> n, rule |-> rule]
<1>1. j \in Jids /\ turn[j] = Free /\ turn' = [turn EXCEPT ![j] = r]
      /\ (rule # None => allows(rule)) /\ UNCHANGED <<counts, today>>
  BY JidOfChat DEF Lets, Begins
<1>2. r.rule = rule
  OBVIOUS
<1> HIDE DEF j, r
<1>3. ASSUME Limit > 0, NEW k \in Keys
      PROVE  /\ IsFiniteSet(Sent(k)) /\ Cardinality(Sent(k)) <= counts[k]
             /\ counts[k] + Cardinality(Coming(turn', k)) <= Limit + Slack(k)
  <2>1. /\ IsFiniteSet(Sent(k)) /\ Cardinality(Sent(k)) <= counts[k] /\ counts[k] \in Nat
        /\ counts[k] + Cardinality(Coming(turn, k)) <= Limit + Slack(k)
    BY <1>3 DEF CapInv
  <2>2. CASE rule = k
    <3>1. counts[k] < Limit
      BY <1>1, <1>3, <2>2, VoiceAssumption DEF allows
    <3>2. Cardinality(Coming(turn', k)) \in Nat /\ Cardinality(Coming(turn', k)) <= Slack(k) + 1
      BY ComingFew
    <3> QED BY <2>1, <3>1, <3>2, CoveredFew, VoiceAssumption
  <2>3. CASE rule # k
    <3>1. Coming(turn', k) = Coming(turn, k)
      BY <1>1, <1>2, <2>3 DEF Coming, Neat
    <3> QED BY <2>1, <3>1
  <2> QED BY <2>2, <2>3
<1> QED BY <1>1, <1>3 DEF CapInv, Sent

\* A turn that goes on, or ends with nothing sent.
LEMMA CapGoesOn ==
    ASSUME CapInv, Neat(turn, home), NEW j \in Jids, turn[j] # Free, UNCHANGED <<counts, today, home>>,
           (\E place \in {"asking", "got", "heard"} : Moves(j, place)) \/ Rests(j)
    PROVE  CapInv'
<1>1. /\ Neat(turn', home')
      /\ turn'[j] # Free => turn'[j].rule = turn[j].rule
      /\ \A i \in Jids \ {j} : turn'[i] = turn[i]
  <2>1. \A i \in Jids \ {j} : turn'[i] = turn[i]
    BY DEF Moves, Rests, Neat
  <2> QED BY <2>1, NeatGoesOn
<1>2. ASSUME Limit > 0, NEW k \in Keys
      PROVE  /\ IsFiniteSet(Sent(k)) /\ Cardinality(Sent(k)) <= counts[k]
             /\ counts[k] + Cardinality(Coming(turn', k)) <= Limit + Slack(k)
  <2>1. /\ IsFiniteSet(Sent(k)) /\ Cardinality(Sent(k)) <= counts[k] /\ counts[k] \in Nat
        /\ counts[k] + Cardinality(Coming(turn, k)) <= Limit + Slack(k)
    BY <1>2 DEF CapInv
  <2>2. Coming(turn', k) \in SUBSET Coming(turn, k)
    BY <1>1 DEF Coming
  <2>3. IsFiniteSet(Coming(turn, k)) /\ Cardinality(Coming(turn, k)) \in Nat
        /\ Cardinality(Coming(turn', k)) \in Nat
    BY <1>1, ComingFew
  <2>4. Cardinality(Coming(turn', k)) <= Cardinality(Coming(turn, k))
    BY <2>2, <2>3, FS_Subset
  <2> QED BY <2>1, <2>3, <2>4, CoveredFew, VoiceAssumption
<1> QED BY <1>2 DEF CapInv, Sent

\* What goes out is counted as it ceases to be on its way.
LEMMA CapCounted ==
    ASSUME CapInv, Neat(turn, home), NEW j \in Jids, turn[j] # Free, NEW n \in Notes,
           Rests(j), UNCHANGED home,
           counts' = Counted(j), today' = Out(j, n) \/ today' = today
    PROVE  CapInv'
<1>1. CASE ~Unasked(j)
  <2>1. UNCHANGED <<counts, today>>
    BY <1>1 DEF Counted, Out
  <2> QED BY <2>1, CapGoesOn
<1>2. CASE Unasked(j)
  <2> DEFINE r == turn[j].rule
  <2>1. turn'[j] = Free /\ \A i \in Jids \ {j} : turn'[i] = turn[i]
    BY DEF Rests, Neat
  <2>2. Neat(turn', home')
    BY NeatGoesOn
  <2>3. r \in Keys /\ r # None
    BY <1>2, FreeIsNone DEF Neat, Unasked
  <2>4. /\ counts' = IF Limit = 0 THEN counts ELSE [counts EXCEPT ![r] = @ + 1]
        /\ today' = today \cup {<<n, r>>} \/ today' = today
    BY <1>2 DEF Counted, Out, record
  <2>5. ASSUME Limit > 0, NEW k \in Keys
        PROVE  /\ IsFiniteSet(Sent(k)') /\ Cardinality(Sent(k)') <= counts'[k]
               /\ counts'[k] + Cardinality(Coming(turn', k)) <= Limit + Slack(k)
    <3>1. /\ IsFiniteSet(Sent(k)) /\ Cardinality(Sent(k)) <= counts[k] /\ counts[k] \in Nat
          /\ counts[k] + Cardinality(Coming(turn, k)) <= Limit + Slack(k)
          /\ counts \in [Keys -> Nat]
      BY <2>5 DEF CapInv
    <3>2. /\ IsFiniteSet(Coming(turn, k)) /\ Cardinality(Coming(turn, k)) \in Nat
          /\ Cardinality(Sent(k)) \in Nat /\ Slack(k) \in Int
      BY <3>1, ComingFew, CoveredFew, FS_CardinalityType
    <3>3. CASE k = r
      <4>1. counts'[k] = counts[k] + 1
        BY <2>3, <2>4, <2>5, <3>1, <3>3
      <4>2. Sent(k)' = Sent(k) \cup {n} \/ Sent(k)' = Sent(k)
        BY <2>4, <3>3 DEF Sent
      <4>3. IsFiniteSet(Sent(k)') /\ Cardinality(Sent(k)') <= Cardinality(Sent(k)) + 1
        <5>1. /\ IsFiniteSet(Sent(k) \cup {n})
              /\ Cardinality(Sent(k) \cup {n}) =
                    IF n \in Sent(k) THEN Cardinality(Sent(k)) ELSE Cardinality(Sent(k)) + 1
          BY <3>1, FS_AddElement
        <5>2. Cardinality(Sent(k) \cup {n}) <= Cardinality(Sent(k)) + 1
          BY <3>2, <5>1
        <5>3. Cardinality(Sent(k)) <= Cardinality(Sent(k)) + 1
          BY <3>2
        <5> QED BY <3>1, <4>2, <5>1, <5>2, <5>3
      <4>4. Coming(turn', k) = Coming(turn, k) \ {j} /\ j \in Coming(turn, k)
        BY <2>1, <3>3 DEF Coming
      <4>5. Cardinality(Coming(turn', k)) = Cardinality(Coming(turn, k)) - 1
        BY <3>2, <4>4, FS_RemoveElement
      <4>6. Cardinality(Sent(k)') \in Nat
        BY <4>3, FS_CardinalityType
      <4> HIDE DEF r
      <4> QED BY <3>1, <3>2, <4>1, <4>3, <4>5, <4>6, VoiceAssumption
    <3>4. CASE k # r
      <4>1. counts'[k] = counts[k]
        BY <2>4, <3>1, <3>4
      <4>2. Sent(k)' = Sent(k)
        BY <2>4, <3>4 DEF Sent
      <4>3. Coming(turn', k) = Coming(turn, k)
        BY <2>1, <3>4 DEF Coming
      <4> QED BY <3>1, <4>1, <4>2, <4>3
    <3> QED BY <3>3, <3>4
  <2>6. Limit > 0 => counts' \in [Keys -> Nat]
    BY <2>3, <2>4 DEF CapInv
  <2> QED BY <2>5, <2>6 DEF CapInv
<1> QED BY <1>1, <1>2

LEMMA CapTurns ==
    ASSUME CapInv, Neat(turn, home), NEW j \in Jids, Turns(j) PROVE CapInv'
<1>1. /\ turn[j] # Free /\ UNCHANGED home
      /\ (\E place \in {"asking", "heard", "got"} : Moves(j, place)) \/ Rests(j)
  BY TurnGoesOn
<1>2. PICK n \in Notes : n = turn[j].note
  BY <1>1, FreeIsNone DEF Neat
<1>3. CASE Hits(j, n) \/ Misses(j, n) \/ Transcribes(j, n) \/ GivesUp(j)
  <2>1. UNCHANGED <<counts, today>>
    BY <1>3 DEF Hits, Misses, Transcribes, GivesUp
  <2> QED BY <1>1, <2>1, CapGoesOn
<1>4. CASE Delivers(j, n)
  <2>1. /\ Rests(j)
        /\ \/ UNCHANGED <<counts, today>>
           \/ counts' = Counted(j) /\ (today' = Out(j, n) \/ today' = today)
    BY <1>4, Zenon DEF Delivers
  <2> QED BY <1>1, <2>1, CapGoesOn, CapCounted
<1> QED BY <1>2, <1>3, <1>4, Zenon DEF Turns

LEMMA CapKept == Neat(turn, home) /\ CapInv /\ [VoiceNext]_allVars => CapInv'
<1> SUFFICES ASSUME Neat(turn, home), CapInv, [VoiceNext]_allVars PROVE CapInv'
  OBVIOUS
<1>0. Neat(turn', home')
  BY NeatKept DEF Neat, Covered
<1>1. CASE UNCHANGED <<turn, counts, today>>
  BY <1>1, CapElsewhere
<1>2. CASE Forgets
  BY <1>0, <1>2, CapRestarts DEF Forgets
<1>3. CASE Midnight
  BY <1>0, <1>3, CapRestarts DEF Midnight
<1>4. CASE Records \/ AsksFor
  BY <1>0, <1>4, BeginsSomehow, CapBegun
<1>5. CASE \E j \in Jids : Turns(j)
  BY <1>5, CapTurns
<1> QED BY <1>1, <1>2, <1>3, <1>4, <1>5 DEF VoiceNext, Hears, voice, allVars

\* On any day and with any number of chats: a rule lets out no more notes than the limit and
\* one for each other JID it covers, whose turns were under way when the limit was reached.
THEOREM NoRunaway == VoiceSpec => []RuleBounded
<1>1. VoiceInit => Neat(turn, home) /\ CapInv
  BY NeatBegins, CapBegins
<1>2. Neat(turn, home) /\ CapInv /\ [VoiceNext]_allVars => (Neat(turn, home) /\ CapInv)'
  BY NeatKept, CapKept
<1>3. Neat(turn, home) /\ CapInv => RuleBounded
  BY CapHolds
<1> QED BY <1>1, <1>2, <1>3, PTL DEF VoiceSpec

=============================================================================
