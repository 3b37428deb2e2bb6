-------------------------- MODULE ConversationProofs --------------------------
(***************************************************************************)
(* Proofs about Conversation: a chat's turn ends, a proposal called off is *)
(* not run, what the owner says in an open window is read, and a write     *)
(* runs on a yes of his that is its own.                                   *)
(***************************************************************************)
EXTENDS Conversation, FiniteSetTheorems, SequenceTheorems, WellFoundedInduction, TLAPS

TurnFields == {"pc", "m", "reset", "replies", "carried", "read", "write", "llm",
               "says", "card", "hops", "tries", "result"}
MemFields == {"cursor", "seen", "pending", "card", "sig", "surfaced"}

-----------------------------------------------------------------------------
(* What a turn has left to do.                                             *)

Counting == {"reason", "execute"}

\* The hops are counted before the model is asked again, so a search or a
\* write always begins with one to spare.
TurnInv ==
    /\ DOMAIN turn = TurnFields
    /\ turn.pc \in DOMAIN Stage
    /\ turn.hops \in 0..MaxHops + 1
    /\ turn.tries \in 0..MaxAttempts
    /\ turn.pc \in Counting \/ (turn.pc = "confirm" /\ turn.read) => turn.hops <= MaxHops
    /\ turn.pc \notin {"call", "respond"} => turn.tries = 0
    /\ turn.pc = "call" => turn.tries < MaxAttempts
    /\ turn.pc \in {"context", "resolve"} => turn.hops = 0

\* What Rank is when the stage and the tries are known.
Weight(h, stage, t) == (MaxHops + 2 - h) * (MaxAttempts + 9) + stage + t

\* A hop outweighs all that a turn can do between two of them.
LEMMA HopOutweighs ==
    ASSUME NEW h \in 0..MaxHops + 1, NEW s1 \in 0..7, NEW t1 \in 0..MaxAttempts,
           NEW s2 \in 0..7, NEW t2 \in 0..MaxAttempts, h + 1 <= MaxHops + 1
    PROVE  Weight(h + 1, s2, t2) < Weight(h, s1, t1)
<1> DEFINE k == MaxAttempts + 9
           n == MaxHops + 1 - h
<1>1. k \in Nat /\ n \in Nat /\ MaxAttempts \in Nat
  BY ConversationAssumption
<1>2. (n + 1) * k = n * k + k /\ n * k \in Nat
  <2> HIDE DEF k, n
  <2> QED BY <1>1
<1>3. MaxHops + 2 - h = n + 1 /\ MaxHops + 2 - (h + 1) = n
  BY ConversationAssumption
<1>4. s2 + t2 < k + s1 + t1
  BY ConversationAssumption
<1> HIDE DEF k, n
<1>5. n * k + s2 + t2 < (n + 1) * k + s1 + t1
  BY <1>1, <1>2, <1>4 DEF k
<1>6. Weight(h + 1, s2, t2) = n * k + s2 + t2 /\ Weight(h, s1, t1) = (n + 1) * k + s1 + t1
  BY <1>3 DEF Weight, k
<1> QED BY <1>5, <1>6

\* With the hops as they are, the stage and the tries decide; and none is negative.
LEMMA StageDecides ==
    ASSUME NEW h \in 0..MaxHops + 1, NEW s1 \in 0..7, NEW t1 \in 0..MaxAttempts,
           NEW s2 \in 0..7, NEW t2 \in 0..MaxAttempts
    PROVE  /\ Weight(h, s1, t1) \in Nat
           /\ s2 + t2 < s1 + t1 => Weight(h, s2, t2) < Weight(h, s1, t1)
<1> DEFINE w == (MaxHops + 2 - h) * (MaxAttempts + 9)
<1>1. w \in Nat
  <2>1. MaxHops + 2 - h \in Nat /\ MaxAttempts + 9 \in Nat
    BY ConversationAssumption
  <2> QED BY <2>1
<1> HIDE DEF w
<1>2. Weight(h, s1, t1) = w + s1 + t1 /\ Weight(h, s2, t2) = w + s2 + t2
  BY DEF Weight, w
<1> QED BY <1>1, <1>2, ConversationAssumption

\* The stage and the tries of a turn, as the lemmas want them.
Tries(t) == IF t.pc = "call" THEN MaxAttempts - t.tries ELSE 0
Ranked(t) ==
    /\ t.hops \in 0..MaxHops + 1
    /\ Stage[t.pc] \in 0..7
    /\ Tries(t) \in 0..MaxAttempts

\* One step down: the same hops and less to do, or a hop more.
Below(u, t) ==
    \/ u.hops = t.hops /\ Stage[u.pc] + Tries(u) < Stage[t.pc] + Tries(t)
    \/ u.hops = t.hops + 1

LEMMA BelowIsLess ==
    ASSUME Ranked(turn), Ranked(turn'), Below(turn', turn)
    PROVE  Rank' \in 0..Rank - 1
<1> DEFINE h == turn.hops
           s1 == Stage[turn.pc]
           t1 == Tries(turn)
           g == turn'.hops
           s2 == Stage[turn'.pc]
           t2 == Tries(turn')
<1>1. /\ h \in 0..MaxHops + 1 /\ s1 \in 0..7 /\ t1 \in 0..MaxAttempts
      /\ g \in 0..MaxHops + 1 /\ s2 \in 0..7 /\ t2 \in 0..MaxAttempts
      /\ (g = h /\ s2 + t2 < s1 + t1) \/ g = h + 1
  BY DEF Ranked, Below
<1>2. Rank = Weight(h, s1, t1) /\ Rank' = Weight(g, s2, t2)
  BY DEF Rank, Weight, Tries
<1> HIDE DEF h, s1, t1, g, s2, t2
<1>3. Weight(h, s1, t1) \in Nat /\ Weight(g, s2, t2) \in Nat
  BY <1>1, StageDecides
<1>4. Weight(g, s2, t2) < Weight(h, s1, t1)
  <2>1. CASE g = h /\ s2 + t2 < s1 + t1
    BY <1>1, <2>1, StageDecides
  <2>2. CASE g = h + 1
    BY <1>1, <2>2, HopOutweighs
  <2> QED BY <1>1, <2>1, <2>2
<1> QED BY <1>2, <1>3, <1>4

LEMMA TurnBegins == Init => TurnInv
  BY ConversationAssumption DEF Init, Idle, TurnInv, TurnFields, Counting, Stage

\* The turn's own steps, with what each makes of the turn it finds.
Steps == Context \/ Resolve \/ Answer \/ Propose \/ Search \/ Hold \/ Uncomposed
            \/ Find \/ Run \/ Call \/ Resolved \/ Tell \/ Report \/ ReadBack

LEMMA GoShape ==
    ASSUME NEW pc
    PROVE  /\ DOMAIN Go(pc) = TurnFields
           /\ Go(pc).pc = pc /\ Go(pc).hops = turn.hops
           /\ Go(pc).tries = 0 /\ ~Go(pc).read
  BY DEF Go, Idle, TurnFields

\* A turn whose last words are all it has left.
LEMMA LastWordsShape ==
    ASSUME LastWords
    PROVE  /\ DOMAIN turn' = TurnFields /\ turn'.pc = "act"
           /\ turn'.hops = turn.hops /\ turn'.tries = 0
<1>1. PICK says : turn' = [Go("act") EXCEPT !.says = says, !.llm = turn.llm]
  BY DEF LastWords
<1> QED BY <1>1, GoShape DEF TurnFields

LEMMA TurnStep ==
    ASSUME TurnInv, Steps
    PROVE  TurnInv' /\ (turn'.pc = "idle" \/ Below(turn', turn))
<1> USE ConversationAssumption DEF TurnInv, TurnFields, Counting, Below, Stage, Tries
<1>1. CASE Context
  BY <1>1 DEF Context
<1>2. CASE Resolve
  <2>1. \/ turn' = Go("reason") \/ turn' = Go("act")
        \/ turn' = [Go("execute") EXCEPT !.write = mem.pending]
    BY <1>2 DEF Resolve
  <2>2. /\ DOMAIN turn' = TurnFields /\ turn'.pc \in {"reason", "act", "execute"}
        /\ turn'.hops = turn.hops /\ turn'.tries = 0
    BY <2>1, GoShape DEF TurnFields
  <2> QED BY <1>2, <2>2 DEF Resolve
<1>3. CASE Answer
  BY <1>3 DEF Answer, Go, Idle
<1>4. CASE Propose
  BY <1>4 DEF Propose, Go, Idle
<1>5. CASE Search
  BY <1>5 DEF Search
<1>6. CASE Hold
  BY <1>6 DEF Hold, Go, Idle
<1>7. CASE Uncomposed
  <2>1. CASE LastWords
    BY <1>7, <2>1, LastWordsShape DEF Uncomposed
  <2>2. CASE turn.hops < MaxHops /\ turn' = [Go("reason") EXCEPT !.hops = @ + 1]
    <3>1. /\ DOMAIN turn' = TurnFields /\ turn'.pc = "reason"
          /\ turn'.hops = turn.hops + 1 /\ turn'.tries = 0
      BY <2>2, GoShape DEF TurnFields
    <3> QED BY <1>7, <2>2, <3>1 DEF Uncomposed
  <2> QED BY <1>7, <2>1, <2>2 DEF Uncomposed
<1>8. CASE Find
  BY <1>8 DEF Find
<1>9. CASE Run
  BY <1>9 DEF Run, Go, Idle
<1>10. CASE Call
  <2>1. Attempts(turn.write) \in Nat /\ Attempts(turn.write) <= MaxAttempts
    BY DEF Attempts
  <2>2. PICK result \in Results :
          turn' = [turn EXCEPT !.pc = IF result = "transient" /\ turn.tries + 1 < Attempts(turn.write)
                                      THEN "call" ELSE "respond",
                               !.tries = turn.tries + 1, !.result = result]
    BY <1>10 DEF Call
  <2> DEFINE again == result = "transient" /\ turn.tries + 1 < Attempts(turn.write)
             next == IF again THEN "call" ELSE "respond"
  <2>3. turn' = [turn EXCEPT !.pc = next, !.tries = turn.tries + 1, !.result = result]
    BY <2>2
  <2>4. next = "respond" \/ (next = "call" /\ turn.tries + 1 < Attempts(turn.write))
    OBVIOUS
  <2>5. DOMAIN turn' = TurnFields /\ turn'.hops = turn.hops /\ turn'.tries = turn.tries + 1
          /\ turn'.pc = next
    <3> HIDE DEF next
    <3> QED BY <2>3
  <2>6. /\ DOMAIN turn' = TurnFields /\ turn'.hops = turn.hops /\ turn'.tries = turn.tries + 1
        /\ \/ turn'.pc = "respond"
           \/ turn'.pc = "call" /\ turn.tries + 1 < Attempts(turn.write)
    BY <2>4, <2>5
  <2>7. turn.pc = "call"
    BY <1>10, Zenon DEF Call
  <2>8. turn.pc = "call" /\ turn.tries + 1 \in 0..MaxAttempts
    BY <2>7
  <2> QED BY <2>1, <2>6, <2>8
<1>11. CASE Resolved
  BY <1>11 DEF Resolved, Go, Idle
<1>12. CASE Tell
  BY <1>12 DEF Tell, Go, Idle
<1>13. CASE Report
  BY <1>13 DEF Report, Go, Idle
<1>14. CASE ReadBack
  <2>1. CASE LastWords
    BY <1>14, <2>1, LastWordsShape DEF ReadBack
  <2>2. CASE turn.hops < MaxHops /\ turn' = Go("reason")
    BY <1>14, <2>2, GoShape DEF ReadBack
  <2> QED BY <1>14, <2>1, <2>2 DEF ReadBack
<1> QED BY <1>1, <1>2, <1>3, <1>4, <1>5, <1>6, <1>7, <1>8, <1>9, <1>10, <1>11, <1>12,
           <1>13, <1>14 DEF Steps

\* Every other step leaves the turn, ends it, or begins one.
LEMMA TurnElse ==
    ASSUME TurnInv, [Next]_vars, ~Steps
    PROVE  TurnInv' /\ (turn' = turn \/ turn'.pc = "idle" \/ turn.pc = "idle")
<1>1. turn' = turn \/ turn' = Idle \/ Gate
  BY DEF Next, TurnNext, Steps, Post, Deliver, Redeliver, Crash, Abort, Tick, Act, vars
<1>2. CASE Gate
  <2>1. turn.pc = "idle" /\ (turn' = turn \/ \E reset : Start(reset))
    BY <1>2, Zenon DEF Gate
  <2>2. CASE turn' = turn
    BY <2>2 DEF TurnInv
  <2>3. CASE \E reset : Start(reset)
    <3>1. /\ DOMAIN turn' = TurnFields /\ turn'.pc = "context" /\ turn'.hops = 0 /\ turn'.tries = 0
      BY <2>3 DEF Start, Idle, TurnFields
    <3> QED BY <2>1, <3>1, ConversationAssumption DEF TurnInv, Counting, Stage
  <2> QED BY <2>1, <2>2, <2>3
<1>3. CASE turn' = Idle
  BY <1>3, ConversationAssumption DEF Idle, TurnInv, TurnFields, Counting, Stage
<1>4. CASE turn' = turn
  BY <1>4 DEF TurnInv
<1> QED BY <1>1, <1>2, <1>3, <1>4 DEF Gate

LEMMA TurnKept == TurnInv /\ [Next]_vars => TurnInv'
  BY TurnStep, TurnElse

\* Whatever the model answers and whatever fails, every step of a turn ends it or takes
\* it down a rank that is never negative: no turn holds its chat's lock for ever.
THEOREM TurnsEnd == Spec => TurnsWindDown
<1>1. Init => TurnInv
  BY TurnBegins
<1>2. TurnInv /\ [Next]_vars => TurnInv'
  BY TurnKept
<1>3. TurnInv /\ [Next]_vars
        => [turn.pc # "idle" /\ turn' # turn => turn'.pc = "idle" \/ Rank' \in 0..Rank - 1]_vars
  <2> SUFFICES ASSUME TurnInv, [Next]_vars, turn.pc # "idle", turn' # turn, turn'.pc # "idle"
               PROVE  Rank' \in 0..Rank - 1
    OBVIOUS
  <2>1. Steps /\ TurnInv'
    BY TurnElse, TurnStep
  <2>2. Below(turn', turn)
    BY <2>1, TurnStep
  <2>3. Ranked(turn) /\ Ranked(turn')
    BY <2>1, ConversationAssumption DEF TurnInv, Ranked, Stage, Tries
  <2> QED BY <2>2, <2>3, BelowIsLess
<1> QED BY <1>1, <1>2, <1>3, PTL DEF Spec, TurnsWindDown

-----------------------------------------------------------------------------
(* What was called off, and what the owner said.                           *)

ASeq(s) == \E S : s \in Seq(S)

LEMMA AppendsOne ==
    ASSUME NEW s, ASeq(s), NEW e
    PROVE  /\ ASeq(Append(s, e))
           /\ Len(s) \in Nat /\ DOMAIN s = 1..Len(s)
           /\ Len(Append(s, e)) = Len(s) + 1
           /\ DOMAIN Append(s, e) = 1..Len(s) + 1
           /\ Append(s, e)[Len(s) + 1] = e
           /\ \A i \in 1..Len(s) : Append(s, e)[i] = s[i]
<1>1. PICK S : s \in Seq(S)
  BY DEF ASeq
<1>2. s \in Seq(S \cup {e}) /\ e \in S \cup {e}
  BY <1>1
<1>3. Append(s, e) \in Seq(S \cup {e})
  BY <1>2
<1> QED BY <1>2, <1>3 DEF ASeq

\* A write that was called off is not the one on hold, and none was approved.
OffInv ==
    /\ DOMAIN mem = MemFields
    /\ mem.pending # NoWrite => mem.pending \notin refused
    /\ ASeq(approvals)
    /\ RefusedStaysRefused

LEMMA OffBegins == Init => OffInv
<1> SUFFICES ASSUME Init PROVE OffInv
  OBVIOUS
<1>1. ASeq(approvals)
  <2>1. approvals \in Seq({})
    BY DEF Init
  <2> QED BY <2>1 DEF ASeq
<1>2. DOMAIN approvals = {}
  BY DEF Init
<1> QED BY <1>1, <1>2 DEF Init, OffInv, MemFields, Unread, RefusedStaysRefused

\* The steps that touch neither the memory nor the approvals.
LEMMA OffQuiet ==
    ASSUME OffInv, UNCHANGED <<mem, refused, approvals>>
    PROVE  OffInv'
  BY DEF OffInv, RefusedStaysRefused

LEMMA OffSet ==
    ASSUME OffInv, UNCHANGED approvals, DOMAIN mem' = MemFields,
           mem'.pending # NoWrite => mem'.pending \notin refused'
    PROVE  OffInv'
  BY DEF OffInv, RefusedStaysRefused

LEMMA OffContext == ASSUME OffInv, Context PROVE OffInv'
<1>1. PICK cursor, seen, surfaced :
          \/ /\ mem' = [Unread EXCEPT !.cursor = cursor, !.seen = seen, !.surfaced = surfaced]
             /\ UNCHANGED approvals
          \/ /\ mem' = [mem EXCEPT !.cursor = cursor, !.seen = seen, !.surfaced = surfaced]
             /\ UNCHANGED <<approvals, refused>>
  <2>1. PICK records, carried :
          LET new == NewOf(records, turn.reset)
              kept == Kept(Guarded(new, turn.m), turn.reset)
              prior == IF turn.reset THEN By("owner", records) ELSE mem.seen
              fresh == Fresh(kept, prior)
              dropped == turn.reset /\ carried = 0
              cursor == CursorAfter(Kept(new, turn.reset), turn.m)
          IN /\ mem' = [IF dropped THEN Unread ELSE mem EXCEPT
                            !.cursor = cursor,
                            !.seen = prior \cup fresh,
                            !.surfaced = @ /\ (turn.reset => mem.pending \in Changes)]
             /\ refused' = IF dropped THEN refused \cup ({mem.pending} \ {NoWrite}) ELSE refused
             /\ UNCHANGED approvals
    BY Zenon DEF Context
  <2>2. CASE turn.reset /\ carried = 0
    BY <2>1, <2>2
  <2>3. CASE ~(turn.reset /\ carried = 0)
    BY <2>1, <2>3
  <2> QED BY <2>2, <2>3
<1>2. UNCHANGED approvals
  BY <1>1
<1>3. CASE mem' = [Unread EXCEPT !.cursor = cursor, !.seen = seen, !.surfaced = surfaced]
  <2>1. DOMAIN mem' = MemFields /\ mem'.pending = NoWrite
    BY <1>3 DEF Unread, MemFields
  <2> QED BY <1>2, <2>1, OffSet
<1>4. CASE mem' = [mem EXCEPT !.cursor = cursor, !.seen = seen, !.surfaced = surfaced]
           /\ UNCHANGED refused
  <2>1. DOMAIN mem' = MemFields /\ mem'.pending = mem.pending /\ refused' = refused
    BY <1>4 DEF OffInv, MemFields
  <2> QED BY <1>2, <2>1, OffSet DEF OffInv
<1> QED BY <1>1, <1>3, <1>4

LEMMA OffResolve == ASSUME OffInv, Resolve PROVE OffInv'
<1>1. CASE UNCHANGED <<mem, approvals, refused>>
  BY <1>1, OffQuiet
<1>2. CASE CallOff /\ UNCHANGED approvals
  <2>1. DOMAIN mem' = MemFields /\ mem'.pending = NoWrite
    BY <1>2 DEF CallOff, OffInv, MemFields
  <2> QED BY <1>2, <2>1, OffSet
<1>3. ASSUME NEW by, NEW carried, mem.pending # NoWrite,
             approvals' = Append(approvals, [by |-> by, what |-> mem.pending,
                                             carried |-> carried,
                                             off |-> mem.pending \in refused]),
             mem' = [mem EXCEPT !.pending = NoWrite, !.card = NoCard],
             UNCHANGED refused
      PROVE  OffInv'
  <2> DEFINE a == [by |-> by, what |-> mem.pending, carried |-> carried,
                   off |-> mem.pending \in refused]
  <2>1. ~a.off
    BY <1>3 DEF OffInv
  <2>2. DOMAIN mem' = MemFields /\ mem'.pending = NoWrite
    BY <1>3 DEF OffInv, MemFields
  <2> HIDE DEF a
  <2>3. approvals' = Append(approvals, a)
    BY <1>3 DEF a
  <2>4. ASeq(approvals') /\ RefusedStaysRefused'
    BY <2>1, <2>3, AppendsOne DEF OffInv, RefusedStaysRefused
  <2> QED BY <2>2, <2>4 DEF OffInv
<1> QED BY <1>1, <1>2, <1>3, Zenon DEF Resolve

LEMMA OffKept == ASSUME OffInv, [Next]_vars PROVE OffInv'
<1>1. CASE Context
  BY <1>1, OffContext
<1>2. CASE Resolve
  BY <1>2, OffResolve
<1>3. CASE Search
  <2>1. CASE UNCHANGED <<mem, refused>>
    BY <1>3, <2>1, OffQuiet DEF Search
  <2>2. CASE mem' = [mem EXCEPT !.pending = turn.write, !.card = NoCard]
             /\ refused' = refused \ {turn.write}
    <3>1. DOMAIN mem' = MemFields /\ mem'.pending = turn.write
      BY <2>2 DEF OffInv, MemFields
    <3> QED BY <1>3, <2>2, <3>1, OffSet DEF Search
  <2> QED BY <1>3, <2>1, <2>2 DEF Search
<1>4. CASE Hold
  <2>1. DOMAIN mem' = MemFields /\ mem'.pending = turn.write /\ UNCHANGED approvals
        /\ refused' = refused \ {turn.write}
    BY <1>4 DEF Hold, OffInv, MemFields
  <2> QED BY <2>1, OffSet
<1>5. CASE Find
  <2>1. DOMAIN mem' = MemFields /\ mem'.pending = mem.pending /\ UNCHANGED <<approvals, refused>>
    BY <1>5 DEF Find, OffInv, MemFields
  <2> QED BY <2>1, OffSet DEF OffInv
<1>6. CASE Report
  <2>1. DOMAIN mem' = MemFields /\ mem'.pending = NoWrite /\ UNCHANGED approvals
    BY <1>6 DEF Report, OffInv, MemFields
  <2> QED BY <2>1, OffSet
<1>7. CASE Act
  <2>1. PICK id, what : \/ UNCHANGED mem
                        \/ mem' = [mem EXCEPT !.card = [id |-> id, what |-> what]]
    BY <1>7 DEF Act
  <2>2. DOMAIN mem' = MemFields /\ mem'.pending = mem.pending
    BY <2>1 DEF OffInv, MemFields
  <2> QED BY <1>7, <2>2, OffSet DEF OffInv, Act
<1>8. CASE UNCHANGED <<mem, refused, approvals>>
  BY <1>8, OffQuiet
<1> QED BY <1>1, <1>2, <1>3, <1>4, <1>5, <1>6, <1>7, <1>8
        DEF Next, TurnNext, Post, Deliver, Redeliver, Crash, Abort, Tick, Gate, Answer,
            Propose, Uncomposed, Run, Call, Resolved, Tell, ReadBack, vars

\* However the messages, the tags and the failures come, a proposal the owner declined,
\* a fresh tag abandoned or a failure dropped never reaches the calendar on a later yes,
\* unless it was proposed again.
THEOREM NeverRevived == Spec => []RefusedStaysRefused
<1>1. Init => OffInv
  BY OffBegins
<1>2. OffInv /\ [Next]_vars => OffInv'
  BY OffKept
<1>3. OffInv => RefusedStaysRefused
  BY DEF OffInv
<1> QED BY <1>1, <1>2, <1>3, PTL DEF Spec

-----------------------------------------------------------------------------

\* Every message a turn is about is in the chat, and his are read.
HeardInv ==
    /\ ASeq(chat)
    /\ waiting \in Seq(Ids)
    /\ inbox \subseteq Ids
    /\ turn.pc # "idle" => turn.m \in Ids
    /\ OwnerIsHeard

Kind == TurnInv /\ OffInv /\ HeardInv

LEMMA HeardBegins == Init => HeardInv
<1> SUFFICES ASSUME Init PROVE HeardInv
  OBVIOUS
<1>1. ASeq(chat)
  <2>1. chat \in Seq({})
    BY DEF Init
  <2> QED BY <2>1 DEF ASeq
<1> QED BY <1>1 DEF Init, HeardInv, Idle, OwnerIsHeard

\* Somebody writes, or she does: what is in the chat stays where it is.
LEMMA ChatGrows ==
    ASSUME ASeq(chat), NEW e, chat' = Append(chat, e)
    PROVE  /\ ASeq(chat') /\ Ids' = 1..Len(chat) + 1 /\ Ids \subseteq Ids'
           /\ Len(chat) + 1 \in Ids'
           /\ \A m \in Ids : chat'[m] = chat[m]
  BY AppendsOne DEF Ids

LEMMA Widens ==
    ASSUME NEW S, NEW T, S \subseteq T, NEW s \in Seq(S)
    PROVE  s \in Seq(T)
  OBVIOUS

LEMMA WebhookKeeps ==
    ASSUME NEW m \in Ids', waiting \in Seq(Ids'), Webhook(m)
    PROVE  waiting' \in Seq(Ids')
<1> DEFINE S == Ids'
<1>1. m \in S /\ waiting \in Seq(S) /\ (waiting' = waiting \/ waiting' = Append(waiting, m))
  BY DEF Webhook
<1> HIDE DEF S
<1>2. waiting' \in Seq(S)
  BY <1>1
<1> QED BY <1>2 DEF S

LEMMA HeardPost == ASSUME Kind, NEW msg, Post(msg) PROVE HeardInv'
<1>1. chat' = Append(chat, msg) /\ UNCHANGED <<turn, mem>>
  BY DEF Post
<1>2. /\ ASeq(chat') /\ Ids \subseteq Ids' /\ Len(chat) + 1 \in Ids'
      /\ \A m \in Ids : chat'[m] = chat[m]
  BY <1>1, ChatGrows DEF Kind, HeardInv
<1>3. waiting \in Seq(Ids')
  BY <1>2, Widens DEF Kind, HeardInv
<1>4. waiting' \in Seq(Ids') /\ inbox' \subseteq Ids'
  <2>1. CASE Webhook(Len(chat) + 1) /\ UNCHANGED inbox
    BY <1>2, <1>3, <2>1, WebhookKeeps DEF Kind, HeardInv
  <2>2. CASE UNCHANGED waiting /\ inbox' = inbox \cup {Len(chat) + 1}
    BY <1>2, <1>3, <2>2 DEF Kind, HeardInv
  <2> QED BY <2>1, <2>2 DEF Post
<1> QED BY <1>1, <1>2, <1>4 DEF Kind, HeardInv, OwnerIsHeard

LEMMA HeardWebhook ==
    ASSUME Kind, NEW m \in Ids, Webhook(m), UNCHANGED <<chat, turn, mem>>, inbox' \subseteq inbox
    PROVE  HeardInv'
<1>1. Ids' = Ids
  BY DEF Ids
<1>2. waiting' \in Seq(Ids')
  BY <1>1, WebhookKeeps DEF Kind, HeardInv
<1> QED BY <1>1, <1>2 DEF Kind, HeardInv, OwnerIsHeard

LEMMA HeardGate == ASSUME Kind, Gate PROVE HeardInv'
<1>1. /\ waiting' = Tail(waiting) /\ waiting # <<>> /\ UNCHANGED <<chat, inbox, mem>>
      /\ turn.pc = "idle"
      /\ turn' = turn \/ \E reset : Start(reset)
  BY Zenon DEF Gate
<1>2. Head(waiting) \in Ids /\ waiting' \in Seq(Ids)
  BY <1>1 DEF Kind, HeardInv
<1>3. Ids' = Ids
  BY <1>1 DEF Ids
<1>4. CASE turn' = turn
  BY <1>1, <1>2, <1>3, <1>4 DEF Kind, HeardInv, OwnerIsHeard
<1>5. CASE \E reset : Start(reset)
  <2>1. turn'.pc = "context" /\ turn'.m = Head(waiting)
    BY <1>5 DEF Start, Idle
  <2> QED BY <1>1, <1>2, <1>3, <2>1 DEF Kind, HeardInv, OwnerIsHeard
<1> QED BY <1>1, <1>4, <1>5

\* The step that reads: the message that woke the turn is among what is kept, and what
\* is kept of his has been read before or is read now.
LEMMA HeardContext == ASSUME Kind, Context PROVE HeardInv'
<1>1. PICK records, carried :
          LET new == NewOf(records, turn.reset)
              kept == Kept(Guarded(new, turn.m), turn.reset)
              prior == IF turn.reset THEN By("owner", records) ELSE mem.seen
              fresh == Fresh(kept, prior)
              dropped == turn.reset /\ carried = 0
              cursor == CursorAfter(Kept(new, turn.reset), turn.m)
          IN /\ turn' = [turn EXCEPT !.pc = "resolve", !.replies = fresh, !.carried = carried]
             /\ mem' = [IF dropped THEN Unread ELSE mem EXCEPT
                            !.cursor = cursor,
                            !.seen = prior \cup fresh,
                            !.surfaced = @ /\ (turn.reset => mem.pending \in Changes)]
             /\ turn.pc = "context"
             /\ UNCHANGED <<chat, inbox, waiting>>
  BY Zenon DEF Context
<1> DEFINE new == NewOf(records, turn.reset)
           kept == Kept(Guarded(new, turn.m), turn.reset)
           prior == IF turn.reset THEN By("owner", records) ELSE mem.seen
           fresh == Fresh(kept, prior)
           cursor == CursorAfter(Kept(new, turn.reset), turn.m)
           surfaced(m) == m.surfaced /\ (turn.reset => mem.pending \in Changes)
<1>2. chat[turn.m].by = "owner" => turn.m \in prior \cup fresh
  <2>1. turn.m \in Guarded(new, turn.m)
    BY DEF Guarded
  <2>2. chat[turn.m].by = "owner" => turn.m \in kept
    BY <2>1 DEF Kept, By
  <2> HIDE DEF kept, prior, new
  <2> QED BY <2>2 DEF Fresh, By
<1>3. \/ mem' = [Unread EXCEPT !.cursor = cursor, !.seen = prior \cup fresh,
                               !.surfaced = surfaced(Unread)]
      \/ mem' = [mem EXCEPT !.cursor = cursor, !.seen = prior \cup fresh,
                            !.surfaced = surfaced(mem)]
  <2>1. CASE turn.reset /\ carried = 0
    BY <1>1, <2>1
  <2>2. CASE ~(turn.reset /\ carried = 0)
    BY <1>1, <2>2
  <2> QED BY <2>1, <2>2
<1>4. turn' = [turn EXCEPT !.pc = "resolve", !.replies = fresh, !.carried = carried]
      /\ turn.pc = "context" /\ UNCHANGED <<chat, inbox, waiting>>
  BY <1>1
<1> HIDE DEF fresh, prior, cursor, surfaced
<1>5. mem'.seen = prior \cup fresh
  BY <1>3 DEF Unread, Kind, OffInv, MemFields
<1>6. turn'.m = turn.m
  BY <1>4 DEF Kind, TurnInv, TurnFields
<1>7. Ids' = Ids
  BY <1>4 DEF Ids
<1> QED BY <1>2, <1>4, <1>5, <1>6, <1>7 DEF Kind, HeardInv, OwnerIsHeard

\* The later nodes go on with the message and with what was read.
LEMMA GoKeeps == ASSUME NEW pc PROVE Go(pc).m = turn.m /\ DOMAIN Go(pc) = TurnFields
  BY DEF Go, Idle, TurnFields

LEMMA LaterNodes ==
    ASSUME Kind, Steps, ~Context
    PROVE  /\ turn'.m = turn.m /\ mem'.seen = mem.seen
           /\ turn.pc \notin {"idle", "context"}
           /\ UNCHANGED <<chat, inbox, waiting>>
<1> USE DEF Kind, TurnInv, OffInv, TurnFields, MemFields
<1>0. ASSUME LastWords PROVE turn'.m = turn.m
  <2>1. PICK says : turn' = [Go("act") EXCEPT !.says = says, !.llm = turn.llm]
    BY <1>0 DEF LastWords
  <2> QED BY <2>1, GoKeeps
<1>1. CASE Resolve
  <2>1. \/ turn' = Go("reason") \/ turn' = Go("act")
        \/ turn' = [Go("execute") EXCEPT !.write = mem.pending]
    BY <1>1 DEF Resolve
  <2>2. \/ UNCHANGED mem
        \/ mem' = [mem EXCEPT !.pending = NoWrite, !.card = NoCard, !.sig = NoWrite]
        \/ mem' = [mem EXCEPT !.pending = NoWrite, !.card = NoCard]
    BY <1>1 DEF Resolve, CallOff
  <2>3. turn'.m = turn.m
    BY <2>1, GoKeeps
  <2>4. mem'.seen = mem.seen
    BY <2>2
  <2> QED BY <1>1, <2>3, <2>4 DEF Resolve
<1>2. CASE Answer
  BY <1>2, GoKeeps DEF Answer
<1>3. CASE Propose
  BY <1>3, GoKeeps DEF Propose
<1>4. CASE Tell
  BY <1>4, GoKeeps DEF Tell
<1>5. CASE Search
  BY <1>5 DEF Search
<1>6. CASE Hold
  BY <1>6, GoKeeps DEF Hold
<1>7. CASE Uncomposed
  <2>1. turn'.m = turn.m
    BY <1>0, <1>7, GoKeeps DEF Uncomposed
  <2> QED BY <1>7, <2>1 DEF Uncomposed
<1>8. CASE Find
  BY <1>8 DEF Find
<1>9. CASE Run
  BY <1>9, GoKeeps DEF Run
<1>10. CASE Call
  <2>1. PICK result \in Results :
          turn' = [turn EXCEPT !.pc = IF result = "transient" /\ turn.tries + 1 < Attempts(turn.write)
                                      THEN "call" ELSE "respond",
                               !.tries = turn.tries + 1, !.result = result]
    BY <1>10 DEF Call
  <2> DEFINE next == IF result = "transient" /\ turn.tries + 1 < Attempts(turn.write)
                     THEN "call" ELSE "respond"
  <2>2. turn' = [turn EXCEPT !.pc = next, !.tries = turn.tries + 1, !.result = result]
    BY <2>1
  <2> HIDE DEF next
  <2>3. turn'.m = turn.m
    BY <2>2
  <2>4. turn.pc = "call" /\ UNCHANGED <<chat, inbox, waiting, mem>>
    BY <1>10, Zenon DEF Call
  <2> QED BY <2>3, <2>4
<1>11. CASE Resolved
  BY <1>11, GoKeeps DEF Resolved
<1>12. CASE Report
  BY <1>12, GoKeeps DEF Report
<1>13. CASE ReadBack
  <2>1. turn'.m = turn.m
    BY <1>0, <1>13, GoKeeps DEF ReadBack
  <2> QED BY <1>13, <2>1 DEF ReadBack
<1> QED BY <1>1, <1>2, <1>3, <1>4, <1>5, <1>6, <1>7, <1>8, <1>9, <1>10, <1>11,
           <1>12, <1>13 DEF Steps

LEMMA HeardAct == ASSUME Kind, Act PROVE HeardInv'
<1>1. /\ turn' = Idle /\ UNCHANGED <<inbox, waiting>>
      /\ chat' = chat \/ \E e : chat' = Append(chat, e)
  BY DEF Act
<1>2. ASeq(chat') /\ Ids \subseteq Ids'
  BY <1>1, ChatGrows DEF Kind, HeardInv, Ids
<1>3. waiting' \in Seq(Ids')
  BY <1>1, <1>2, Widens DEF Kind, HeardInv
<1>4. turn'.pc = "idle"
  BY <1>1 DEF Idle
<1> QED BY <1>1, <1>2, <1>3, <1>4 DEF Kind, HeardInv, OwnerIsHeard

LEMMA HeardKept == ASSUME Kind, [Next]_vars PROVE HeardInv'
<1>1. ASSUME NEW msg, Post(msg) PROVE HeardInv'
  BY <1>1, HeardPost
<1>2. ASSUME NEW m \in Ids, Deliver(m) \/ Redeliver(m) PROVE HeardInv'
  BY <1>2, HeardWebhook DEF Deliver, Redeliver
<1>3. CASE Crash
  BY <1>3 DEF Crash, Kind, HeardInv, OwnerIsHeard, Idle, Ids
<1>4. CASE Abort
  BY <1>4 DEF Abort, Kind, HeardInv, OwnerIsHeard, Idle, Ids
<1>5. CASE Tick \/ UNCHANGED vars
  BY <1>5 DEF Tick, vars, Kind, HeardInv, OwnerIsHeard, Ids
<1>6. CASE Gate
  BY <1>6, HeardGate
<1>7. CASE Context
  BY <1>7, HeardContext
<1>8. CASE Steps /\ ~Context
  <2>1. /\ turn'.m = turn.m /\ mem'.seen = mem.seen /\ turn.pc \notin {"idle", "context"}
        /\ UNCHANGED <<chat, inbox, waiting>>
    BY <1>8, LaterNodes
  <2> QED BY <2>1 DEF Kind, HeardInv, OwnerIsHeard, Ids
<1>9. CASE Act
  BY <1>9, HeardAct
<1> QED BY <1>1, <1>2, <1>3, <1>4, <1>5, <1>6, <1>7, <1>8, <1>9 DEF Next, TurnNext, Steps

\* However late, failing or overtaken the store and the webhooks are, a message of the
\* owner that got through the gate has been read by the time its turn asks what he said.
THEOREM AlwaysHeard == Spec => []OwnerIsHeard
<1>1. Init => Kind
  BY TurnBegins, OffBegins, HeardBegins DEF Kind
<1>2. Kind /\ [Next]_vars => Kind'
  BY TurnKept, OffKept, HeardKept DEF Kind
<1>3. Kind => OwnerIsHeard
  BY DEF Kind, HeardInv
<1> QED BY <1>1, <1>2, <1>3, PTL DEF Spec

-----------------------------------------------------------------------------
(* Whose yes it was.                                                       *)

\* A yes to the card of a write, as CarriedWasSeen has it.
Under(y, what) ==
    \E c \in Cards(what) :
        /\ c < y
        /\ By("lisa", c + 1..y) = {}
        /\ \A r \in By("owner", c + 1..y) :
              chat[r].says = "yes" \/ (chat[r].tag /\ chat[r].says = "nudge")

His(y, what) == y \in By("owner", Ids) /\ (~chat[y].tag => Under(y, what))

\* Only he tags.  The card she remembers is in the chat, and what a turn is
\* about to take for an answer is his.
CarryInv ==
    /\ \A m \in Ids : chat[m].tag => chat[m].by = "owner" /\ chat[m].says \in TagSays
    /\ turn.pc \in {"context", "resolve"} /\ turn.reset => chat[turn.m].tag
    /\ mem.card.id = 0 \/ mem.card.id \in Cards(mem.card.what)
    /\ \A i \in DOMAIN approvals :
          /\ approvals[i].by # {} /\ approvals[i].by \subseteq By("owner", Ids)
          /\ approvals[i].carried => \A y \in approvals[i].by : His(y, approvals[i].what)
    /\ turn.pc = "resolve" =>
          /\ turn.replies \subseteq By("owner", Ids)
          /\ turn.carried # 0 => /\ His(turn.carried, mem.pending)
                                 /\ chat[turn.carried].tag => turn.carried = turn.m

\* The messages there were are as they were.
LEMMA ByStays ==
    ASSUME NEW who, NEW S, S \subseteq Ids, \A m \in Ids : chat'[m] = chat[m]
    PROVE  By(who, S)' = By(who, S)
  BY DEF By

LEMMA HisStays ==
    ASSUME ASeq(chat), Ids \subseteq Ids', \A m \in Ids : chat'[m] = chat[m], NEW y, NEW what,
           His(y, what)
    PROVE  His(y, what)'
<1>1. y \in Ids /\ y \in By("owner", Ids)'
  BY DEF His, By
<1>2. CASE chat[y].tag
  BY <1>1, <1>2 DEF His
<1>3. CASE ~chat[y].tag
  <2>1. PICK c \in Cards(what) :
          /\ c < y
          /\ By("lisa", c + 1..y) = {}
          /\ \A r \in By("owner", c + 1..y) :
                chat[r].says = "yes" \/ (chat[r].tag /\ chat[r].says = "nudge")
    BY <1>3 DEF His, Under
  <2>2. c \in Ids /\ c \in Cards(what)'
    BY <2>1 DEF Cards, By
  <2>3. Len(chat) \in Nat
    BY AppendsOne
  <2>4. c + 1..y \subseteq Ids
    BY <1>1, <2>2, <2>3 DEF Ids
  <2>5. By("lisa", c + 1..y)' = By("lisa", c + 1..y)
        /\ By("owner", c + 1..y)' = By("owner", c + 1..y)
    BY <2>4, ByStays
  <2>6. \A r \in By("owner", c + 1..y) : r \in Ids
    BY <2>4 DEF By
  <2>7. Under(y, what)'
    BY <2>1, <2>2, <2>5, <2>6 DEF Under
  <2> QED BY <1>1, <2>7 DEF His
<1> QED BY <1>2, <1>3

LEMMA CarryBegins == Init => CarryInv
<1> SUFFICES ASSUME Init PROVE CarryInv
  OBVIOUS
<1>1. Ids = {} /\ DOMAIN approvals = {}
  BY DEF Init, Ids
<1> QED BY <1>1 DEF Init, CarryInv, Idle, Unread, NoCard

\* The approvals there were are still his, and still under their cards.
LEMMA ApprovalsStay ==
    ASSUME Kind, CarryInv, Ids \subseteq Ids', \A m \in Ids : chat'[m] = chat[m],
           UNCHANGED approvals, NEW i \in DOMAIN approvals
    PROVE  /\ approvals[i].by # {} /\ approvals[i].by \subseteq By("owner", Ids)'
           /\ approvals[i].carried =>
                \A y \in approvals[i].by : His(y, approvals[i].what)'
<1>1. /\ By("owner", Ids) \subseteq By("owner", Ids)'
      /\ \A y, what : His(y, what) => His(y, what)'
  <2>1. \A y, what : His(y, what) => His(y, what)'
    <3> TAKE y, what
    <3> QED BY HisStays DEF Kind, HeardInv
  <2> QED BY <2>1 DEF By
<1>2. /\ approvals[i].by # {} /\ approvals[i].by \subseteq By("owner", Ids)
      /\ approvals[i].carried => \A y \in approvals[i].by : His(y, approvals[i].what)
  BY DEF CarryInv
<1> QED BY <1>1, <1>2

\* The chat only grows, by nobody's tag but his, and nothing else has changed that the
\* invariant speaks of, except that the turn may be over or the card another.
LEMMA CarryGrows ==
    ASSUME Kind, CarryInv, Ids \subseteq Ids', \A m \in Ids : chat'[m] = chat[m],
           \A m \in Ids' \ Ids : chat'[m].tag => /\ chat'[m].by = "owner"
                                                 /\ chat'[m].says \in TagSays,
           UNCHANGED approvals,
           \/ mem'.card = mem.card \/ mem'.card = NoCard
           \/ mem'.card.id \in Cards(mem.card.what)',
           \/ turn'.pc \notin {"context", "resolve"}
           \/ UNCHANGED <<turn, mem>>
    PROVE  CarryInv'
<1> ASeq(chat)
  BY DEF Kind, HeardInv
<1>0. /\ By("owner", Ids) \subseteq By("owner", Ids)'
      /\ \A y, what : His(y, what) => His(y, what)'
      /\ \A c, what : c \in Cards(what) => c \in Cards(what)'
  <2>1. \A y, what : His(y, what) => His(y, what)'
    <3> TAKE y, what
    <3> QED BY HisStays
  <2> QED BY <2>1 DEF By, Cards
<1>1. \A m \in Ids' : chat'[m].tag => chat'[m].by = "owner" /\ chat'[m].says \in TagSays
  BY DEF CarryInv
<1>2. mem'.card.id = 0 \/ mem'.card.id \in Cards(mem.card.what)'
  <2>1. CASE mem'.card = mem.card
    BY <1>0, <2>1 DEF CarryInv, Cards, By
  <2>2. CASE mem'.card = NoCard
    BY <2>2 DEF NoCard
  <2> QED BY <2>1, <2>2
<1>3. ASSUME NEW i \in DOMAIN approvals
      PROVE  /\ approvals[i].by # {} /\ approvals[i].by \subseteq By("owner", Ids)'
             /\ approvals[i].carried =>
                  \A y \in approvals[i].by : His(y, approvals[i].what)'
  BY <1>3, ApprovalsStay
<1>4. turn'.pc \in {"context", "resolve"} /\ turn'.reset => chat'[turn'.m].tag
  BY DEF CarryInv, Kind, HeardInv
<1>5. ASSUME turn'.pc = "resolve"
      PROVE  /\ turn'.replies \subseteq By("owner", Ids)'
             /\ turn'.carried # 0 => /\ His(turn.carried, mem.pending)'
                                     /\ chat'[turn'.carried].tag => turn'.carried = turn'.m
  <2>1. UNCHANGED <<turn, mem>> /\ turn.pc = "resolve"
    BY <1>5
  <2>2. ASSUME turn.carried # 0
        PROVE  His(turn.carried, mem.pending) /\ (chat[turn.carried].tag => turn.carried = turn.m)
    BY <2>1, <2>2 DEF CarryInv
  <2>3. turn.carried # 0 => turn.carried \in Ids
    BY <2>2 DEF His, By
  <2> QED BY <1>0, <2>1, <2>2, <2>3 DEF CarryInv
<1> QED BY <1>1, <1>2, <1>3, <1>4, <1>5 DEF CarryInv

LEMMA OldestIs ==
    ASSUME NEW S \in SUBSET Nat, S # {}
    PROVE  Oldest(S) \in S /\ \A n \in S : Oldest(S) <= n
<1>1. PICK x \in S : \A y \in S : ~(<<y, x>> \in OpToRel(<, Nat))
  BY NatLessThanWellFounded, WFMin
<1>2. \A y \in S : ~(y < x)
  BY <1>1 DEF OpToRel
<1>3. \A y \in S : x <= y
  BY <1>2
<1> QED BY <1>3 DEF Oldest

\* The yes that a tag carries is his, and it is under the card of the held write or is
\* the tag itself.
LEMMA CarriedIs ==
    ASSUME Kind, CarryInv, turn.pc = "context", turn.reset,
           NEW records \in {Ids} \cup Partial \cup Lagging, CarriedYes(records, turn.m) # 0
    PROVE  LET y == CarriedYes(records, turn.m) IN
           /\ mem.pending # NoWrite /\ His(y, mem.pending) /\ mem.card.id \in Ids
           /\ (y = turn.m /\ chat[y].tag) \/ (~chat[y].tag /\ mem.card.id < y)
<1> DEFINE m == turn.m
           c == mem.card.id
           after == {r \in records \ {m} : r > c}
           his == By("owner", after)
           yeses == IF his # {} THEN {Oldest(his)}
                    ELSE IF chat[m].says = "yes" THEN {m} ELSE {}
           y == CarriedYes(records, turn.m)
<1>1. /\ mem.pending # NoWrite /\ mem.card.what = mem.pending /\ c \in records
      /\ By("lisa", after) = {} /\ OnlyYes(his) /\ chat[m].says # "other"
      /\ yeses # {} /\ y = Oldest(yeses)
  BY Zenon DEF CarriedYes
<1>2. m \in Ids /\ chat[m].tag /\ chat[m].by = "owner" /\ chat[m].says \in {"yes", "nudge"}
  <2>1. m \in Ids /\ chat[m].tag
    BY DEF Kind, HeardInv, CarryInv
  <2> QED BY <1>1, <2>1 DEF CarryInv, TagSays
<1>3. Ids \subseteq Nat /\ Ids = 1..Len(chat) /\ Len(chat) \in Nat
  BY AppendsOne DEF Ids, Kind, HeardInv
<1>4. records \subseteq Ids
  BY <1>3 DEF Partial, Lagging, By
<1>5. c \in Ids /\ c \in Cards(mem.pending) /\ chat[c].by = "lisa"
  <2>1. c # 0
    BY <1>1, <1>3, <1>4
  <2> QED BY <1>1, <2>1 DEF CarryInv, Cards, By
<1>6. \A r \in Ids : chat[r].by \in {"owner", "lisa"} /\ r # m => r \in records
  <2>1. records = Ids \/ records = Ids \ {m} \/ records \in Partial
    BY DEF Lagging
  <2>2. records \in Partial => records = By("owner", Ids) \cup By("lisa", Ids)
    BY <1>1, <1>5 DEF Partial, By
  <2> QED BY <2>1, <2>2 DEF By
<1>7. his \subseteq Ids /\ m \notin his /\ \A r \in his : r > c /\ ~chat[r].tag /\ chat[r].says = "yes"
  BY <1>1, <1>4 DEF By, OnlyYes, Verdict
<1>8. Oldest({m}) = m /\ \A x \in Ids : Oldest({x}) = x
  <2>1. \A x \in Ids : Oldest({x}) = x
    <3> TAKE x \in Ids
    <3>1. {x} \in SUBSET Nat /\ {x} # {}
      BY <1>3
    <3> HIDE DEF Ids
    <3> QED BY <3>1, OldestIs
  <2> QED BY <1>2, <2>1
<1>9. CASE his # {}
  <2>1. Oldest(his) \in his
    BY <1>3, <1>7, <1>9, OldestIs
  <2>2. y = Oldest(his)
    BY <1>1, <1>7, <1>8, <1>9, <2>1
  <2>3. y \in Ids /\ y > c /\ ~chat[y].tag /\ chat[y].by = "owner"
    BY <1>7, <2>1, <2>2 DEF By
  <2> HIDE DEF y
  <2>4. ASSUME NEW r \in c + 1..y PROVE r \in Ids /\ r > c
    BY <1>3, <1>5, <2>3
  <2>5. By("lisa", c + 1..y) = {}
    <3> SUFFICES ASSUME NEW r \in c + 1..y, chat[r].by = "lisa" PROVE FALSE
      BY DEF By
    <3>1. r \in records \ {m} /\ r > c
      BY <1>2, <1>6, <2>4
    <3> QED BY <1>1, <3>1 DEF By
  <2>6. ASSUME NEW r \in By("owner", c + 1..y)
        PROVE  chat[r].says = "yes" \/ (chat[r].tag /\ chat[r].says = "nudge")
    <3>1. r \in Ids /\ r > c /\ chat[r].by = "owner"
      BY <2>4 DEF By
    <3>2. CASE r = m
      BY <1>2, <3>2
    <3>3. CASE r # m
      <4>1. r \in his
        BY <1>6, <3>1, <3>3 DEF By
      <4> QED BY <1>7, <4>1
    <3> QED BY <3>2, <3>3
  <2>7. Under(y, mem.pending)
    BY <1>3, <1>5, <2>3, <2>5, <2>6 DEF Under
  <2>8. c < y
    BY <1>3, <1>5, <2>3
  <2>9. His(y, mem.pending)
    BY <2>3, <2>7 DEF His, By
  <2> QED BY <1>1, <1>5, <2>3, <2>8, <2>9 DEF y
<1>10. CASE his = {}
  <2>1. y = m
    BY <1>1, <1>8, <1>10
  <2> HIDE DEF y
  <2>2. His(y, mem.pending)
    BY <1>2, <2>1 DEF His, By
  <2> QED BY <1>1, <1>2, <1>5, <2>1, <2>2 DEF y
<1> QED BY <1>9, <1>10

\* What the step that reads makes of the turn and of the memory.
ReadWith(records, carried) ==
    LET kept == Kept(Guarded(NewOf(records, turn.reset), turn.m), turn.reset)
        prior == IF turn.reset THEN By("owner", records) ELSE mem.seen
        dropped == turn.reset /\ carried = 0
    IN /\ turn'.pc = "resolve" /\ turn'.m = turn.m /\ turn'.reset = turn.reset
       /\ turn'.replies = Fresh(kept, prior) /\ turn'.carried = carried
       /\ mem'.seen = prior \cup Fresh(kept, prior)
       /\ mem'.pending = (IF dropped THEN NoWrite ELSE mem.pending)
       /\ mem'.card = (IF dropped THEN NoCard ELSE mem.card)

LEMMA ContextIs ==
    ASSUME Kind, Context
    PROVE  /\ turn.pc = "context" /\ UNCHANGED <<chat, inbox, handled, waiting, approvals>>
           /\ \E records \in {Ids} \cup Partial \cup Lagging :
                 /\ Fetched(records)
                 /\ \E carried \in Carries(records) : ReadWith(records, carried)
<1>1. turn.pc = "context" /\ UNCHANGED <<chat, inbox, handled, waiting, approvals>>
  BY Zenon DEF Context
<1>2. PICK records \in {Ids} \cup Partial \cup Lagging : \E carried \in Carries(records) :
          LET new == NewOf(records, turn.reset)
              kept == Kept(Guarded(new, turn.m), turn.reset)
              prior == IF turn.reset THEN By("owner", records) ELSE mem.seen
              fresh == Fresh(kept, prior)
              dropped == turn.reset /\ carried = 0
              cursor == CursorAfter(Kept(new, turn.reset), turn.m)
          IN /\ Fetched(records)
             /\ turn' = [turn EXCEPT !.pc = "resolve", !.replies = fresh, !.carried = carried]
             /\ mem' = [IF dropped THEN Unread ELSE mem EXCEPT
                            !.cursor = cursor,
                            !.seen = prior \cup fresh,
                            !.surfaced = @ /\ (turn.reset => mem.pending \in Changes)]
  BY Zenon DEF Context
<1>3. PICK carried \in Carries(records) :
          LET new == NewOf(records, turn.reset)
              kept == Kept(Guarded(new, turn.m), turn.reset)
              prior == IF turn.reset THEN By("owner", records) ELSE mem.seen
              fresh == Fresh(kept, prior)
              dropped == turn.reset /\ carried = 0
              cursor == CursorAfter(Kept(new, turn.reset), turn.m)
          IN /\ Fetched(records)
             /\ turn' = [turn EXCEPT !.pc = "resolve", !.replies = fresh, !.carried = carried]
             /\ mem' = [IF dropped THEN Unread ELSE mem EXCEPT
                            !.cursor = cursor,
                            !.seen = prior \cup fresh,
                            !.surfaced = @ /\ (turn.reset => mem.pending \in Changes)]
  BY <1>2
<1> DEFINE new == NewOf(records, turn.reset)
           kept == Kept(Guarded(new, turn.m), turn.reset)
           prior == IF turn.reset THEN By("owner", records) ELSE mem.seen
           fresh == Fresh(kept, prior)
           cursor == CursorAfter(Kept(new, turn.reset), turn.m)
           surfaced(m) == m.surfaced /\ (turn.reset => mem.pending \in Changes)
<1>4. \/ /\ turn.reset /\ carried = 0
         /\ mem' = [Unread EXCEPT !.cursor = cursor, !.seen = prior \cup fresh,
                                  !.surfaced = surfaced(Unread)]
      \/ /\ ~(turn.reset /\ carried = 0)
         /\ mem' = [mem EXCEPT !.cursor = cursor, !.seen = prior \cup fresh,
                               !.surfaced = surfaced(mem)]
  <2>1. CASE turn.reset /\ carried = 0
    BY <1>3, <2>1
  <2>2. CASE ~(turn.reset /\ carried = 0)
    BY <1>3, <2>2
  <2> QED BY <2>1, <2>2
<1>5. turn' = [turn EXCEPT !.pc = "resolve", !.replies = fresh, !.carried = carried]
  BY <1>3
<1> HIDE DEF fresh, prior, cursor, surfaced, kept, new
<1>6. /\ turn'.pc = "resolve" /\ turn'.m = turn.m /\ turn'.reset = turn.reset
      /\ turn'.replies = fresh /\ turn'.carried = carried
  BY <1>5 DEF Kind, TurnInv, TurnFields
<1>7. /\ mem'.seen = prior \cup fresh
      /\ mem'.pending = (IF turn.reset /\ carried = 0 THEN NoWrite ELSE mem.pending)
      /\ mem'.card = (IF turn.reset /\ carried = 0 THEN NoCard ELSE mem.card)
  BY <1>4 DEF Unread, Kind, OffInv, MemFields
<1>8. ReadWith(records, carried)
  BY <1>6, <1>7 DEF ReadWith, fresh, prior, kept, new
<1> QED BY <1>1, <1>8, <1>3

LEMMA CarryContext == ASSUME Kind, CarryInv, Context PROVE CarryInv'
<1>1. turn.pc = "context" /\ UNCHANGED <<chat, approvals>>
  BY ContextIs
<1>2. PICK records \in {Ids} \cup Partial \cup Lagging :
          \E carried \in Carries(records) : ReadWith(records, carried)
  BY ContextIs
<1>3. PICK carried \in Carries(records) : ReadWith(records, carried)
  BY <1>2
<1>4. /\ turn'.pc = "resolve" /\ turn'.m = turn.m /\ turn'.reset = turn.reset
      /\ turn'.carried = carried
  BY <1>3 DEF ReadWith
<1>5. Ids' = Ids /\ Cards(mem.card.what)' = Cards(mem'.card.what)
      /\ By("owner", Ids)' = By("owner", Ids)
      /\ \A y, what : His(y, what) => His(y, what)'
  <2>1. Ids' = Ids
    BY <1>1 DEF Ids
  <2>2. \A y, what : His(y, what) => His(y, what)'
    <3> TAKE y, what
    <3> QED BY <1>1, <2>1, HisStays DEF Kind, HeardInv
  <2> QED BY <1>1, <2>1, <2>2 DEF Cards, By
<1>6. mem'.card.id = 0 \/ mem'.card.id \in Cards(mem.card.what)'
  <2>1. mem'.card = NoCard \/ mem'.card = mem.card
    BY <1>3 DEF ReadWith
  <2> QED BY <1>5, <2>1 DEF NoCard, CarryInv
<1>7. turn'.replies \subseteq By("owner", Ids)'
  <2>1. records \subseteq Ids /\ turn.m \in Ids
    BY <1>1 DEF Partial, Lagging, By, Kind, HeardInv
  <2>2. NewOf(records, turn.reset) \subseteq Ids
    BY <2>1 DEF NewOf, Last
  <2>3. Guarded(NewOf(records, turn.reset), turn.m) \subseteq Ids
    BY <2>1, <2>2 DEF Guarded
  <2>4. Kept(Guarded(NewOf(records, turn.reset), turn.m), turn.reset) \subseteq Ids
    BY <2>3 DEF Kept
  <2> QED BY <1>3, <1>5, <2>4 DEF ReadWith, Fresh, By
<1>8. ASSUME turn'.carried # 0
      PROVE  /\ His(turn.carried, mem.pending)'
             /\ chat'[turn'.carried].tag => turn'.carried = turn'.m
  <2>1. turn.reset /\ carried = CarriedYes(records, turn.m) /\ carried # 0
    BY <1>4, <1>8 DEF Carries
  <2>2. His(carried, mem.pending) /\ (chat[carried].tag => carried = turn.m)
    BY <1>1, <2>1, CarriedIs
  <2>3. mem'.pending = mem.pending
    BY <1>3, <2>1 DEF ReadWith
  <2> QED BY <1>1, <1>4, <1>5, <2>2, <2>3 DEF His, Under, Cards, By
<1>9. ASSUME NEW i \in DOMAIN approvals
      PROVE  /\ approvals[i].by # {} /\ approvals[i].by \subseteq By("owner", Ids)'
             /\ approvals[i].carried =>
                  \A y \in approvals[i].by : His(y, approvals[i].what)'
  BY <1>1, <1>5, <1>9, ApprovalsStay
<1>10. \A m \in Ids' : chat'[m].tag => chat'[m].by = "owner" /\ chat'[m].says \in TagSays
  BY <1>1, <1>5 DEF CarryInv
<1>11. turn'.pc \in {"context", "resolve"} /\ turn'.reset => chat'[turn'.m].tag
  BY <1>1, <1>4 DEF CarryInv
<1> QED BY <1>1, <1>6, <1>7, <1>8, <1>9, <1>10, <1>11 DEF CarryInv

\* The only steps after the reading that change the card she remembers forget it.
LEMMA LaterCard ==
    ASSUME Kind, Steps, ~Context
    PROVE  /\ turn'.pc \notin {"context", "resolve", "idle"}
           /\ mem'.card = mem.card \/ mem'.card = NoCard
<1> USE DEF Kind, TurnInv, OffInv, TurnFields, MemFields, Stage
<1>0. ASSUME LastWords PROVE turn'.pc = "act"
  BY <1>0, LastWordsShape
<1>1. CASE Resolve
  <2>1. \/ turn' = Go("reason") \/ turn' = Go("act")
        \/ turn' = [Go("execute") EXCEPT !.write = mem.pending]
    BY <1>1 DEF Resolve
  <2>2. \/ UNCHANGED mem
        \/ mem' = [mem EXCEPT !.pending = NoWrite, !.card = NoCard, !.sig = NoWrite]
        \/ mem' = [mem EXCEPT !.pending = NoWrite, !.card = NoCard]
    BY <1>1 DEF Resolve, CallOff
  <2>3. turn'.pc \in {"reason", "act", "execute"}
    BY <2>1, GoShape
  <2>4. mem'.card = mem.card \/ mem'.card = NoCard
    BY <2>2
  <2> QED BY <2>3, <2>4
<1>2. CASE Answer \/ Propose \/ Tell \/ Resolved
  <2>1. CASE Answer
    BY <2>1, GoShape DEF Answer
  <2>2. CASE Propose
    BY <2>2, GoShape DEF Propose
  <2>3. CASE Tell
    BY <2>3, GoShape DEF Tell
  <2>4. CASE Resolved
    BY <2>4, GoShape DEF Resolved
  <2> QED BY <1>2, <2>1, <2>2, <2>3, <2>4
<1>3. CASE Search
  BY <1>3 DEF Search
<1>4. CASE Hold
  BY <1>4, GoShape DEF Hold
<1>5. CASE Uncomposed
  <2>1. turn'.pc \in {"reason", "act"}
    BY <1>0, <1>5, GoShape DEF Uncomposed
  <2> QED BY <1>5, <2>1 DEF Uncomposed
<1>6. CASE Find
  BY <1>6 DEF Find
<1>7. CASE Run
  BY <1>7, GoShape DEF Run
<1>8. CASE Call
  <2>1. PICK pc \in {"call", "respond"}, result \in Results :
          turn' = [turn EXCEPT !.pc = pc, !.tries = turn.tries + 1, !.result = result]
    <3>1. PICK result \in Results :
            turn' = [turn EXCEPT !.pc = IF result = "transient" /\ turn.tries + 1 < Attempts(turn.write)
                                        THEN "call" ELSE "respond",
                                 !.tries = turn.tries + 1, !.result = result]
      BY <1>8 DEF Call
    <3> QED BY <3>1
  <2> QED BY <1>8, <2>1, Zenon DEF Call
<1>9. CASE Report
  BY <1>9, GoShape DEF Report
<1>10. CASE ReadBack
  <2>1. turn'.pc \in {"reason", "act"}
    BY <1>0, <1>10, GoShape DEF ReadBack
  <2> QED BY <1>10, <2>1 DEF ReadBack
<1> QED BY <1>1, <1>2, <1>3, <1>4, <1>5, <1>6, <1>7, <1>8, <1>9, <1>10 DEF Steps

\* The one step that records a yes, with what it takes the yes to be.
Taken == IF turn.carried # 0 THEN {turn.carried} ELSE turn.replies
Approved == [by |-> Taken, what |-> mem.pending, carried |-> turn.carried # 0,
             off |-> mem.pending \in refused]

LEMMA OnlyResolve ==
    ASSUME Kind, [Next]_vars, approvals' # approvals
    PROVE  /\ Resolve /\ turn.pc = "resolve" /\ mem.pending # NoWrite
           /\ ~NotHis /\ OwnerVerdict = "yes"
           /\ approvals' = Append(approvals, Approved)
           /\ mem'.card = NoCard /\ mem'.pending = NoWrite
<1>1. Resolve
  BY DEF Next, TurnNext, Post, Deliver, Redeliver, Crash, Abort, Tick, Gate, Context, Answer,
         Propose, Search, Hold, Uncomposed, Find, Run, Call, Resolved, Tell, Report, ReadBack,
         Act, vars
<1>2. /\ mem.pending # NoWrite /\ ~NotHis /\ OwnerVerdict = "yes"
      /\ approvals' = Append(approvals, Approved)
      /\ mem' = [mem EXCEPT !.pending = NoWrite, !.card = NoCard]
  BY <1>1, Zenon DEF Resolve, Approved, Taken, CallOff
<1>3. mem'.card = NoCard /\ mem'.pending = NoWrite
  BY <1>2 DEF Kind, OffInv, MemFields
<1>4. turn.pc = "resolve"
  BY <1>1, Zenon DEF Resolve
<1> QED BY <1>1, <1>2, <1>3, <1>4

LEMMA ApprovedIs ==
    ASSUME Kind, NEW a, approvals' = Append(approvals, a)
    PROVE  /\ ASeq(approvals) /\ ASeq(approvals')
           /\ Len(approvals) \in Nat /\ DOMAIN approvals = 1..Len(approvals)
           /\ DOMAIN approvals' = 1..Len(approvals) + 1
           /\ approvals'[Len(approvals) + 1] = a
           /\ \A i \in DOMAIN approvals : approvals'[i] = approvals[i]
  BY AppendsOne DEF Kind, OffInv

LEMMA CarryResolve ==
    ASSUME Kind, CarryInv, [Next]_vars, approvals' # approvals PROVE CarryInv'
<1> DEFINE n == Len(approvals) + 1
<1>1. /\ Resolve /\ turn.pc = "resolve" /\ mem.pending # NoWrite /\ ~NotHis
      /\ approvals' = Append(approvals, Approved) /\ mem'.card = NoCard
  BY OnlyResolve
<1>2. /\ n \notin DOMAIN approvals /\ DOMAIN approvals' = DOMAIN approvals \cup {n}
      /\ approvals'[n] = Approved
      /\ \A i \in DOMAIN approvals : approvals'[i] = approvals[i]
  BY <1>1, ApprovedIs
<1>3. chat' = chat /\ turn'.pc \notin {"context", "resolve"}
  BY <1>1, LaterNodes, LaterCard DEF Steps, Context
<1>4. Ids' = Ids /\ By("owner", Ids)' = By("owner", Ids)
      /\ \A y, what : His(y, what) => His(y, what)'
  <2>1. Ids' = Ids
    BY <1>3 DEF Ids
  <2>2. \A y, what : His(y, what) => His(y, what)'
    <3> TAKE y, what
    <3> QED BY <1>3, <2>1, HisStays DEF Kind, HeardInv
  <2> QED BY <1>3, <2>1, <2>2 DEF By
<1>5. /\ Taken # {} /\ Taken \subseteq By("owner", Ids)
      /\ turn.carried # 0 => \A y \in Taken : His(y, mem.pending)
  BY <1>1 DEF CarryInv, Taken, NotHis, His
<1>6. ASSUME NEW i \in DOMAIN approvals'
      PROVE  /\ approvals'[i].by # {} /\ approvals'[i].by \subseteq By("owner", Ids)
             /\ approvals'[i].carried =>
                  \A y \in approvals'[i].by : His(y, approvals'[i].what)
  <2>1. CASE i = n
    <3>1. /\ Approved.by = Taken /\ Approved.what = mem.pending
          /\ Approved.carried <=> turn.carried # 0
      BY DEF Approved
    <3> QED BY <1>2, <1>5, <2>1, <3>1
  <2>2. CASE i \in DOMAIN approvals
    BY <1>2, <2>2 DEF CarryInv
  <2> QED BY <1>2, <2>1, <2>2
<1>7. \A i \in DOMAIN approvals' :
          /\ approvals'[i].by # {} /\ approvals'[i].by \subseteq By("owner", Ids)'
          /\ approvals'[i].carried =>
               \A y \in approvals'[i].by : His(y, approvals[i].what)'
  BY <1>4, <1>6
<1>8. \A m \in Ids' : chat'[m].tag => chat'[m].by = "owner" /\ chat'[m].says \in TagSays
  BY <1>3, <1>4 DEF CarryInv
<1> QED BY <1>1, <1>3, <1>7, <1>8 DEF CarryInv, NoCard

\* Nobody but him tags what he writes.
LEMMA CarryPost == ASSUME Kind, CarryInv, NEW msg \in Speech, Post(msg) PROVE CarryInv'
<1>1. chat' = Append(chat, msg) /\ UNCHANGED <<turn, mem, approvals>>
  BY Zenon DEF Post
<1>2. msg.tag => msg.by = "owner" /\ msg.says \in TagSays
  BY ConversationAssumption DEF HumanMessages, Human
<1>3. /\ ASeq(chat) /\ Ids \subseteq Ids' /\ \A m \in Ids : chat'[m] = chat[m]
      /\ \A m \in Ids' \ Ids : chat'[m] = msg
  <2>1. ASeq(chat)
    BY DEF Kind, HeardInv
  <2> QED BY <1>1, <2>1, AppendsOne DEF Ids
<1> QED BY <1>1, <1>2, <1>3, CarryGrows

LEMMA CarryAct == ASSUME Kind, CarryInv, Act PROVE CarryInv'
<1> DEFINE e == [by |-> "lisa", tag |-> FALSE, says |-> "other", card |-> turn.card]
           n == Len(chat) + 1
<1>1. turn' = Idle /\ UNCHANGED approvals
  BY DEF Act
<1>2. PICK sent, there \in {turn.says, FALSE} :
          /\ sent \in {turn.says, FALSE}
          /\ sent = turn.says => there = sent
          /\ chat' = IF there THEN Append(chat, e) ELSE chat
          /\ mem' = IF sent /\ turn.card # NoWrite
                    THEN [mem EXCEPT !.card = [id |-> n, what |-> turn.card]]
                    ELSE mem
  BY Zenon DEF Act
<1>3. /\ ASeq(chat) /\ Ids \subseteq Ids' /\ \A m \in Ids : chat'[m] = chat[m]
      /\ \A m \in Ids' \ Ids : chat'[m] = e
      /\ there => n \in Ids' /\ chat'[n] = e
  <2>1. ASeq(chat)
    BY DEF Kind, HeardInv
  <2>2. CASE there
    BY <1>2, <2>1, <2>2, AppendsOne DEF Ids
  <2>3. CASE ~there
    BY <1>2, <2>1, <2>3 DEF Ids
  <2> QED BY <2>1, <2>2, <2>3
<1>4. mem'.card = mem.card \/ mem'.card.id \in Cards(mem.card.what)'
  <2>1. CASE sent /\ turn.card # NoWrite
    <3>1. there
      BY <1>2, <2>1
    <3>2. mem'.card = [id |-> n, what |-> turn.card]
      BY <1>2, <2>1 DEF Kind, OffInv, MemFields
    <3> QED BY <1>3, <3>1, <3>2 DEF Cards, By
  <2>2. CASE ~(sent /\ turn.card # NoWrite)
    BY <1>2, <2>2
  <2> QED BY <2>1, <2>2
<1> QED BY <1>1, <1>3, <1>4, CarryGrows DEF Idle

LEMMA CarryGate == ASSUME Kind, CarryInv, Gate PROVE CarryInv'
<1>1. /\ waiting # <<>> /\ UNCHANGED <<chat, mem, approvals>> /\ turn.pc = "idle"
      /\ \/ UNCHANGED turn
         \/ Start(TRUE) /\ chat[Head(waiting)].tag
         \/ Start(FALSE)
  BY Zenon DEF Gate
<1>2. turn'.pc # "resolve"
      /\ (turn'.pc = "context" => \/ ~turn'.reset
                                  \/ turn'.m = Head(waiting) /\ chat[Head(waiting)].tag)
  BY <1>1 DEF Start, Idle
<1>3. Ids' = Ids /\ By("owner", Ids)' = By("owner", Ids)
      /\ Cards(mem.card.what)' = Cards(mem.card.what)
  BY <1>1 DEF Ids, By, Cards
<1>4. ASSUME NEW i \in DOMAIN approvals
      PROVE  /\ approvals[i].by # {} /\ approvals[i].by \subseteq By("owner", Ids)'
             /\ approvals[i].carried =>
                  \A y \in approvals[i].by : His(y, approvals[i].what)'
  BY <1>1, <1>3, <1>4, ApprovalsStay
<1> QED BY <1>1, <1>2, <1>3, <1>4 DEF CarryInv

LEMMA CarryKept == ASSUME Kind, CarryInv, [Next]_vars PROVE CarryInv'
<1>1. CASE approvals' # approvals
  BY <1>1, CarryResolve
<1>2. ASSUME NEW msg \in Speech, Post(msg) PROVE CarryInv'
  BY <1>2, CarryPost
<1>3. CASE Context
  BY <1>3, CarryContext
<1>4. CASE Gate
  BY <1>4, CarryGate
<1>5. CASE Act
  BY <1>5, CarryAct
<1>6. CASE Steps /\ ~Context /\ approvals' = approvals
  <2>1. /\ UNCHANGED <<chat, approvals>> /\ turn'.pc \notin {"context", "resolve"}
        /\ mem'.card = mem.card \/ mem'.card = NoCard
    BY <1>6, LaterNodes, LaterCard
  <2> QED BY <2>1, CarryGrows DEF Ids
<1>7. CASE UNCHANGED <<chat, approvals, mem>> /\ (turn' = Idle \/ UNCHANGED turn)
  BY <1>7, CarryGrows DEF Ids, Idle
<1> QED BY <1>1, <1>2, <1>3, <1>4, <1>5, <1>6, <1>7
        DEF Next, TurnNext, Steps, Deliver, Redeliver, Crash, Abort, Tick, vars

LEMMA CarryShows == ASSUME Kind, CarryInv PROVE CarriedWasSeen
<1> SUFFICES ASSUME NEW a \in Range(approvals), a.carried,
                    NEW y \in a.by, ~chat[y].tag
             PROVE  Under(y, a.what)
  BY Zenon DEF CarriedWasSeen, Under
<1>1. PICK i \in DOMAIN approvals : a = approvals[i]
  BY DEF Range
<1> QED BY <1>1 DEF CarryInv, His

\* The messages of his that sent a write.
Spoken == UNION {approvals[i].by : i \in DOMAIN approvals}

\* A message whose webhook will not start a turn again, if no process that
\* forgot what it handled is told again.
Barred(m) == /\ m \in handled \/ "crash" \in Range(used)
             /\ m \notin inbox \/ "redeliver" \in Range(used)
Over(m) == Barred(m) /\ m \notin Range(waiting)

NoTwins(s) == \A i, j \in DOMAIN s : s[i] = s[j] => i = j

\* Each message has one turn, and a tag that was a yes has had it.
QueueInv ==
    /\ NoTwins(waiting)
    /\ \A m \in Range(waiting) : Barred(m)
    /\ turn.pc \in {"context", "resolve"} => Over(turn.m)
    /\ \A u \in Spoken : chat[u].tag => Over(u)
    /\ turn.pc = "context" => ~(turn.m \in Spoken /\ chat[turn.m].tag)

LEMMA QueueAdds ==
    ASSUME NEW S, NEW s \in Seq(S), NEW e \in S, NoTwins(s), e \notin Range(s)
    PROVE  NoTwins(Append(s, e)) /\ Range(Append(s, e)) = Range(s) \cup {e}
<1>1. ASeq(s)
  BY DEF ASeq
<1>2. /\ DOMAIN Append(s, e) = DOMAIN s \cup {Len(s) + 1} /\ DOMAIN s = 1..Len(s)
      /\ Append(s, e)[Len(s) + 1] = e /\ \A i \in DOMAIN s : Append(s, e)[i] = s[i]
  BY <1>1, AppendsOne
<1> QED BY <1>2 DEF NoTwins, Range

LEMMA QueueTakes ==
    ASSUME NEW S, NEW s \in Seq(S), s # <<>>, NoTwins(s)
    PROVE  /\ NoTwins(Tail(s)) /\ Head(s) \in Range(s)
           /\ Range(Tail(s)) \subseteq Range(s) \ {Head(s)}
<1>1. /\ Len(s) \in Nat /\ DOMAIN s = 1..Len(s) /\ Len(s) # 0 /\ Head(s) = s[1]
      /\ DOMAIN Tail(s) = 1..Len(s) - 1 /\ \A i \in 1..Len(s) - 1 : Tail(s)[i] = s[i + 1]
  OBVIOUS
<1>2. \A i \in DOMAIN Tail(s) : i + 1 \in DOMAIN s /\ i + 1 # 1 /\ Tail(s)[i] = s[i + 1]
  BY <1>1
<1>3. 1 \in DOMAIN s /\ \A i \in DOMAIN Tail(s) : i \in Nat
  BY <1>1
<1>4. NoTwins(Tail(s))
  <2>1. \A i, j \in DOMAIN Tail(s) : s[i + 1] = s[j + 1] => i + 1 = j + 1
    BY <1>2 DEF NoTwins
  <2> QED BY <1>2, <1>3, <2>1 DEF NoTwins
<1>5. Range(Tail(s)) \subseteq Range(s) \ {Head(s)}
  BY <1>1, <1>2, <1>3 DEF NoTwins, Range
<1> QED BY <1>1, <1>3, <1>4, <1>5 DEF Range

\* What an approval adds to what has spoken.
LEMMA SpokenGrows ==
    ASSUME Kind, NEW a, approvals' = Append(approvals, a)
    PROVE  Spoken' = Spoken \cup a.by
<1>1. /\ DOMAIN approvals' = DOMAIN approvals \cup {Len(approvals) + 1}
      /\ approvals'[Len(approvals) + 1] = a
      /\ \A i \in DOMAIN approvals : approvals'[i] = approvals[i]
  BY ApprovedIs
<1> QED BY <1>1 DEF Spoken

LEMMA SpokenAreHis == ASSUME CarryInv PROVE Spoken \subseteq By("owner", Ids)
  BY DEF CarryInv, Spoken

LEMMA FaultAdds ==
    ASSUME ASeq(used), NEW f, Fault(f)
    PROVE  ASeq(used') /\ Range(used') = Range(used) \cup {f}
<1>1. used' = Append(used, f)
  BY DEF Fault
<1> QED BY <1>1, AppendsOne DEF Range

\* No fault is forgotten.
LEMMA FaultsStay ==
    ASSUME ASeq(used), [Next]_vars PROVE ASeq(used') /\ Range(used) \subseteq Range(used')
<1>1. UNCHANGED used \/ \E f : Fault(f)
  <2>1. ASSUME NEW msg, Post(msg) PROVE UNCHANGED used \/ \E f : Fault(f)
    BY <2>1, Zenon DEF Post
  <2>2. ASSUME NEW m, Deliver(m) \/ Redeliver(m) PROVE UNCHANGED used \/ \E f : Fault(f)
    BY <2>2, Zenon DEF Deliver, Redeliver
  <2>3. ASSUME Context PROVE UNCHANGED used \/ \E f : Fault(f)
    <3>1. PICK records : Fetched(records)
      BY <2>3, Zenon DEF Context
    <3> QED BY <3>1, Zenon DEF Fetched
  <2>4. ASSUME Find \/ Call PROVE UNCHANGED used \/ \E f : Fault(f)
    <3>1. PICK result : Outcome(result)
      BY <2>4, Zenon DEF Find, Call
    <3> QED BY <3>1, Zenon DEF Outcome
  <2>5. ASSUME Act PROVE UNCHANGED used \/ \E f : Fault(f)
    BY <2>5, Zenon DEF Act
  <2>6. ASSUME Crash \/ Abort PROVE UNCHANGED used \/ \E f : Fault(f)
    BY <2>6, Zenon DEF Crash, Abort
  <2>7. ASSUME \/ Tick \/ Gate \/ Resolve \/ Answer \/ Propose \/ Search \/ Hold \/ Uncomposed
               \/ Run \/ Resolved \/ Tell \/ Report \/ ReadBack \/ UNCHANGED vars
        PROVE  UNCHANGED used
    BY <2>7, Zenon DEF Tick, Gate, Resolve, Answer, Propose, Search, Hold, Uncomposed, Run, Resolved,
           Tell, Report, ReadBack, vars
  <2> QED BY <2>1, <2>2, <2>3, <2>4, <2>5, <2>6, <2>7 DEF Next, TurnNext
<1>2. ASSUME NEW f, Fault(f) PROVE ASeq(used') /\ Range(used) \subseteq Range(used')
  BY <1>2, FaultAdds
<1> QED BY <1>1, <1>2

LEMMA ForgotStays == ASSUME ASeq(used), [Next]_vars, Forgot PROVE Forgot'
  BY FaultsStay DEF Forgot

LEMMA BarredStays ==
    ASSUME Kind, ASeq(used), [Next]_vars, NEW m \in Ids, Barred(m) PROVE Barred(m)'
<1>0. Len(chat) + 1 \notin Ids
  <2>1. Len(chat) \in Nat
    BY AppendsOne DEF Kind, HeardInv
  <2> QED BY <2>1 DEF Ids
<1>1. Range(used) \subseteq Range(used')
  BY FaultsStay
<1>2. ASSUME NEW msg, Post(msg) PROVE Barred(m)'
  <2>1. handled \subseteq handled' /\ inbox' \subseteq inbox \cup {Len(chat) + 1}
    BY <1>2, Zenon DEF Post, Webhook
  <2> QED BY <1>0, <1>1, <2>1 DEF Barred
<1>3. ASSUME NEW n, Deliver(n) \/ Redeliver(n) PROVE Barred(m)'
  <2>1. handled \subseteq handled' /\ inbox' \subseteq inbox
    BY <1>3 DEF Deliver, Redeliver, Webhook
  <2> QED BY <1>1, <2>1 DEF Barred
<1>4. CASE Crash
  BY <1>1, <1>4, FaultAdds DEF Crash, Barred
<1>5. CASE UNCHANGED <<handled, inbox>>
  BY <1>1, <1>5 DEF Barred
<1>6. ASSUME Abort \/ Tick \/ TurnNext \/ UNCHANGED vars PROVE UNCHANGED <<handled, inbox>>
  BY <1>6, Zenon DEF Abort, Tick, TurnNext, vars, Gate, Context, Resolve, Answer, Propose, Search, Hold,
         Uncomposed, Find, Run, Call, Resolved, Tell, Report, ReadBack, Act
<1> QED BY <1>2, <1>3, <1>4, <1>5, <1>6 DEF Next

LEMMA QueueBegins == Init => QueueInv
<1> SUFFICES ASSUME Init PROVE QueueInv
  OBVIOUS
<1>1. DOMAIN waiting = {} /\ DOMAIN approvals = {} /\ turn.pc = "idle"
  BY DEF Init, Idle
<1> QED BY <1>1 DEF QueueInv, NoTwins, Range, Spoken

\* A webhook that comes finds its message in the queue, in a turn or behind it only when
\* this process has handled it.
LEMMA QueueWebhook ==
    ASSUME Kind, ASeq(used), CarryInv, QueueInv, [Next]_vars, NEW m \in Ids', Webhook(m), Barred(m)',
           m \in Ids /\ Barred(m) => m \in handled,
           UNCHANGED <<turn, approvals>>,
           Ids \subseteq Ids', \A x \in Ids : chat'[x] = chat[x]
    PROVE  QueueInv'
<1>1. \A x \in Ids : Barred(x) => Barred(x)'
  BY BarredStays
<1>2. /\ waiting \in Seq(Ids) /\ Range(waiting) \subseteq Ids
      /\ turn.pc # "idle" => turn.m \in Ids
      /\ Spoken' = Spoken /\ Spoken \subseteq Ids
  BY SpokenAreHis DEF Kind, HeardInv, Range, By, Spoken
<1>3. \/ waiting' = waiting
      \/ m \notin Range(waiting) /\ ~(m \in Ids /\ Over(m)) /\ waiting' = Append(waiting, m)
  BY <1>2 DEF Webhook, QueueInv, Over
<1>4. NoTwins(waiting') /\ Range(waiting') \subseteq Range(waiting) \cup {m}
  <2>1. waiting \in Seq(Ids')
    BY <1>2, Widens
  <2> DEFINE S == Ids'
  <2>2. waiting \in Seq(S) /\ m \in S
    BY <2>1
  <2> HIDE DEF S
  <2>3. NoTwins(waiting)
    BY DEF QueueInv
  <2>4. ASSUME m \notin Range(waiting)
        PROVE  /\ NoTwins(Append(waiting, m))
               /\ Range(Append(waiting, m)) = Range(waiting) \cup {m}
    BY <2>2, <2>3, <2>4, QueueAdds
  <2>5. CASE waiting' = waiting
    BY <2>3, <2>5
  <2>6. CASE m \notin Range(waiting) /\ waiting' = Append(waiting, m)
    BY <2>4, <2>6
  <2> QED BY <1>3, <2>5, <2>6
<1>5. \A x \in Ids : Over(x) => Over(x)'
  BY <1>1, <1>3, <1>4 DEF Over
<1>6. \A x \in Range(waiting') : Barred(x)'
  BY <1>1, <1>2, <1>4 DEF QueueInv
<1> QED BY <1>2, <1>4, <1>5, <1>6 DEF QueueInv

\* The queue is as it was or gone, and so are the turn and what has spoken.
LEMMA QueueElse ==
    ASSUME Kind, ASeq(used), CarryInv, QueueInv, [Next]_vars,
           waiting' = waiting \/ waiting' = <<>>,
           Ids \subseteq Ids', \A x \in Ids : chat'[x] = chat[x],
           \A u \in Spoken' \ Spoken : u \in Ids /\ (chat[u].tag => Over(u)),
           turn'.pc = "context" => turn' = turn /\ UNCHANGED approvals,
           turn'.pc = "resolve" => turn.pc \in {"context", "resolve"} /\ turn'.m = turn.m
    PROVE  QueueInv'
<1>1. \A x \in Ids : Barred(x) => Barred(x)'
  BY BarredStays
<1>2. /\ Range(waiting) \subseteq Ids
      /\ turn.pc # "idle" => turn.m \in Ids
      /\ Spoken \subseteq Ids
  BY SpokenAreHis DEF Kind, HeardInv, Range, By
<1>3. NoTwins(waiting') /\ Range(waiting') \subseteq Range(waiting)
  <2>1. DOMAIN <<>> = {}
    OBVIOUS
  <2> QED BY <2>1 DEF QueueInv, NoTwins, Range
<1>4. \A x \in Ids : Over(x) => Over(x)'
  BY <1>1, <1>3 DEF Over
<1>5. \A x \in Range(waiting') : Barred(x)'
  BY <1>1, <1>2, <1>3 DEF QueueInv
<1>6. turn'.pc \in {"context", "resolve"} => Over(turn.m)'
  BY <1>2, <1>4 DEF QueueInv
<1>7. \A u \in Spoken' : chat'[u].tag => Over(u)'
  BY <1>2, <1>4 DEF QueueInv
<1>8. turn'.pc = "context" => ~(turn'.m \in Spoken' /\ chat'[turn'.m].tag)
  BY <1>2 DEF QueueInv, Spoken
<1> QED BY <1>3, <1>5, <1>6, <1>7, <1>8 DEF QueueInv

\* A webhook that is barred and comes all the same was handled by this process.
LEMMA QueuePost ==
    ASSUME Kind, ASeq(used), CarryInv, QueueInv, [Next]_vars, NEW msg, Post(msg)
    PROVE  QueueInv'
<1>0. PICK n : n = Len(chat) + 1
  OBVIOUS
<1>1. chat' = Append(chat, msg) /\ UNCHANGED <<turn, approvals>>
  BY Zenon DEF Post
<1>2. ASeq(chat) /\ inbox \subseteq Ids
  BY DEF Kind, HeardInv
<1>3. /\ Ids \subseteq Ids' /\ \A m \in Ids : chat'[m] = chat[m]
      /\ n \in Ids' /\ n \notin Ids
  BY <1>0, <1>1, <1>2, AppendsOne DEF Ids
<1>4. CASE Webhook(n) /\ UNCHANGED inbox
  <2>1. Barred(n)'
    BY <1>2, <1>3, <1>4 DEF Barred, Webhook
  <2> QED BY <1>1, <1>3, <1>4, <2>1, QueueWebhook
<1>5. CASE UNCHANGED waiting
  BY <1>1, <1>3, <1>5, QueueElse DEF Spoken
<1> QED BY <1>0, <1>4, <1>5, Zenon DEF Post

LEMMA QueueDeliver ==
    ASSUME Kind, ASeq(used), CarryInv, QueueInv, [Next]_vars, ~Forgot',
           NEW m \in Ids, Deliver(m) \/ Redeliver(m)
    PROVE  QueueInv'
<1>1. Webhook(m) /\ UNCHANGED <<chat, turn, approvals>> /\ Ids' = Ids
  BY DEF Deliver, Redeliver, Ids
<1>2. Range(used) \subseteq Range(used')
  BY FaultsStay
<1>3. (Redeliver(m) => "redeliver" \in Range(used')) /\ (Deliver(m) => m \in inbox /\ m \notin inbox')
  BY FaultAdds DEF Deliver, Redeliver
<1>4. (Barred(m) => m \in handled) /\ Barred(m)'
  BY <1>1, <1>2, <1>3 DEF Webhook, Barred, Forgot
<1> QED BY <1>1, <1>4, QueueWebhook

LEMMA QueueGate ==
    ASSUME Kind, ASeq(used), CarryInv, QueueInv, [Next]_vars, Gate PROVE QueueInv'
<1>1. /\ waiting # <<>> /\ waiting' = Tail(waiting) /\ turn.pc = "idle"
      /\ UNCHANGED <<chat, inbox, handled, approvals>>
      /\ turn' = turn \/ \E reset : Start(reset)
  BY Zenon DEF Gate
<1>2. waiting \in Seq(Ids) /\ NoTwins(waiting) /\ Range(waiting) \subseteq Ids
  BY DEF Kind, HeardInv, QueueInv, Range
<1>3. /\ NoTwins(waiting') /\ Head(waiting) \in Range(waiting)
      /\ Range(waiting') \subseteq Range(waiting) \ {Head(waiting)}
  <2> DEFINE S == Ids
  <2>1. waiting \in Seq(S)
    BY <1>2
  <2> HIDE DEF S
  <2>2. /\ NoTwins(Tail(waiting)) /\ Head(waiting) \in Range(waiting)
        /\ Range(Tail(waiting)) \subseteq Range(waiting) \ {Head(waiting)}
    BY <1>1, <1>2, <2>1, QueueTakes
  <2> QED BY <1>1, <2>2
<1>4. \A x : Barred(x) => Barred(x)'
  BY <1>1, FaultsStay DEF Barred
<1>5. \A x : Over(x) => Over(x)'
  BY <1>3, <1>4 DEF Over
<1>6. PICK h : h = Head(waiting)
  OBVIOUS
<1>7. Over(h)' /\ ~Over(h)
  BY <1>3, <1>4, <1>6 DEF QueueInv, Over
<1>8. turn'.pc # "resolve" /\ (turn'.pc = "context" => turn'.m = h)
  BY <1>1, <1>6 DEF Start, Idle
<1> QED BY <1>1, <1>3, <1>4, <1>5, <1>7, <1>8 DEF QueueInv, Spoken, Over

\* A yes of several messages holds no tag, and a tag that is one is the tag of the turn.
LEMMA TakenTag ==
    ASSUME Kind, CarryInv, [Next]_vars, approvals' # approvals, NEW u \in Taken, chat[u].tag
    PROVE  turn.pc = "resolve" /\ u = turn.m
<1>1. turn.pc = "resolve" /\ ~NotHis /\ OwnerVerdict = "yes"
  BY OnlyResolve
<1>2. CASE turn.carried # 0
  BY <1>1, <1>2 DEF CarryInv, Taken
<1>3. CASE turn.carried = 0
  <2> DEFINE said == {Verdict(r) : r \in turn.replies}
  <2>1. u \in turn.replies /\ "other" \in said
    BY <1>3 DEF Taken, Verdict
  <2>2. Cardinality(said) = 1 /\ (CHOOSE v \in said : TRUE) = "yes"
    BY <1>1, <1>3, Zenon DEF OwnerVerdict
  <2>3. said = {"other"}
    <3>1. IsFiniteSet(said)
      <4>1. turn.replies \subseteq 1..Len(chat) /\ Len(chat) \in Nat
        BY <1>1, AppendsOne DEF CarryInv, By, Ids, Kind, HeardInv
      <4>2. IsFiniteSet(turn.replies)
        <5>1. \A s \in turn.replies : s \in Nat /\ s <= Len(chat)
          BY <4>1
        <5> QED BY <4>1, <5>1, FS_BoundedSetOfNaturals
      <4> DEFINE f == [r \in turn.replies |-> Verdict(r)]
      <4>3. f \in Surjection(turn.replies, said)
        BY DEF Surjection
      <4> HIDE DEF f, said
      <4> QED BY <4>2, <4>3, FS_Surjection
    <3> HIDE DEF said
    <3>2. \E x : said = {x}
      BY <2>2, <3>1, FS_Singleton
    <3> QED BY <2>1, <3>2
  <2> HIDE DEF said
  <2>4. (CHOOSE v \in said : TRUE) \in said
    BY <2>1
  <2> QED BY <2>2, <2>3, <2>4
<1> QED BY <1>1, <1>2, <1>3

LEMMA QueueKept ==
    ASSUME Kind, ASeq(used), CarryInv, QueueInv, [Next]_vars, ~Forgot' PROVE QueueInv'
<1>1. ASSUME NEW msg, Post(msg) PROVE QueueInv'
  BY <1>1, QueuePost
<1>2. ASSUME NEW m \in Ids, Deliver(m) \/ Redeliver(m) PROVE QueueInv'
  BY <1>2, QueueDeliver
<1>3. CASE Gate
  BY <1>3, QueueGate
<1>4. CASE approvals' # approvals
  <2>1. /\ Resolve /\ turn.pc = "resolve" /\ approvals' = Append(approvals, Approved)
    BY <1>4, OnlyResolve
  <2>2. UNCHANGED <<chat, waiting>> /\ turn'.pc \notin {"context", "resolve"}
    BY <2>1, LaterNodes, LaterCard DEF Steps, Context
  <2>3. Spoken' \ Spoken \subseteq Taken
    BY <2>1, SpokenGrows DEF Approved
  <2>4. \A u \in Taken : u \in Ids /\ (chat[u].tag => u = turn.m)
    BY <1>4, <2>1, TakenTag DEF CarryInv, Taken, His, By
  <2> QED BY <2>1, <2>2, <2>3, <2>4, QueueElse DEF QueueInv, Ids
<1>5. CASE Context
  <2>1. /\ UNCHANGED <<chat, waiting, approvals>> /\ turn.pc = "context"
        /\ turn'.pc = "resolve" /\ turn'.m = turn.m
    BY <1>5, ContextIs DEF ReadWith
  <2> QED BY <2>1, QueueElse DEF Ids, Spoken
<1>6. CASE Steps /\ ~Context /\ approvals' = approvals
  <2>1. /\ UNCHANGED <<chat, waiting, approvals>> /\ turn'.pc \notin {"context", "resolve"}
    BY <1>6, LaterNodes, LaterCard
  <2> QED BY <2>1, QueueElse DEF Ids, Spoken
<1>7. CASE Act
  <2>1. /\ UNCHANGED <<waiting, approvals>> /\ turn' = Idle
        /\ chat' = chat \/ \E e : chat' = Append(chat, e)
    BY <1>7, Zenon DEF Act
  <2>2. ASeq(chat)
    BY DEF Kind, HeardInv
  <2>3. Ids \subseteq Ids' /\ \A m \in Ids : chat'[m] = chat[m]
    BY <2>1, <2>2, AppendsOne DEF Ids
  <2> QED BY <2>1, <2>3, QueueElse DEF Spoken, Idle
<1>8. CASE /\ UNCHANGED <<chat, approvals>> /\ (turn' = Idle \/ UNCHANGED turn)
           /\ waiting' = waiting \/ waiting' = <<>>
  BY <1>8, QueueElse DEF Ids, Spoken, Idle
<1> QED BY <1>1, <1>2, <1>3, <1>4, <1>5, <1>6, <1>7, <1>8
        DEF Next, TurnNext, Steps, Crash, Abort, Tick, vars

\* What has sent a write was read before, and a card is remembered only while
\* no message after it has sent one.
OnceInv ==
    /\ \A i, j \in DOMAIN approvals : i # j => approvals[i].by \cap approvals[j].by = {}
    /\ Spoken \subseteq mem.seen
    /\ mem.card.id # 0 => \A u \in Spoken : u < mem.card.id
    /\ turn.pc = "resolve" =>
          /\ Taken \subseteq mem.seen
          /\ mem.pending # NoWrite => Taken \cap Spoken = {}

LEMMA OnceBegins == Init => OnceInv
<1> SUFFICES ASSUME Init PROVE OnceInv
  OBVIOUS
<1>1. DOMAIN approvals = {}
  BY DEF Init
<1> QED BY <1>1 DEF Init, OnceInv, Spoken, Idle, Unread, NoCard

\* With the query for his messages answered, a tag has read all that he ever wrote.
LEMMA TagReadsAll ==
    ASSUME ~Forgot', ASeq(used), Kind, CarryInv, turn.pc = "context", turn.reset,
           NEW records \in {Ids} \cup Partial \cup Lagging, Fetched(records),
           NEW carried, ReadWith(records, carried)
    PROVE  By("owner", Ids) \subseteq mem'.seen
<1>1. By("owner", Ids) \ {turn.m} \subseteq By("owner", records)
  <2>1. CASE records = Ids \/ records = Ids \ {turn.m}
    BY <2>1 DEF By
  <2>2. CASE Fault(IF Seeded(records) THEN "blind" ELSE "blank")
    <3>1. Seeded(records)
      BY <2>2, FaultAdds DEF Forgot
    <3> QED BY <3>1 DEF Seeded
  <2>3. records \in Lagging => records = Ids \ {turn.m}
    BY DEF Lagging
  <2> QED BY <2>1, <2>2, <2>3, Zenon DEF Fetched
<1>2. turn.m \in Guarded(NewOf(records, turn.reset), turn.m)
  BY DEF Guarded
<1>3. turn.m \in Kept(Guarded(NewOf(records, turn.reset), turn.m), turn.reset)
  BY <1>2 DEF Kept
<1>4. chat[turn.m].by = "owner"
  BY DEF Kind, HeardInv, CarryInv
<1>5. turn.m \in mem'.seen /\ By("owner", records) \subseteq mem'.seen
  BY <1>3, <1>4 DEF ReadWith, Fresh, By
<1> QED BY <1>1, <1>5

LEMMA OnceContext ==
    ASSUME ~Forgot', ASeq(used), Kind, CarryInv, QueueInv, OnceInv, Context PROVE OnceInv'
<1>1. turn.pc = "context" /\ UNCHANGED <<chat, approvals>>
  BY ContextIs
<1>2. PICK records \in {Ids} \cup Partial \cup Lagging :
          /\ Fetched(records)
          /\ \E carried \in Carries(records) : ReadWith(records, carried)
  BY ContextIs
<1>3. PICK carried \in Carries(records) : ReadWith(records, carried)
  BY <1>2
<1>4. /\ Spoken' = Spoken /\ Spoken \subseteq By("owner", Ids)
      /\ turn'.carried = carried
      /\ Taken' = IF carried # 0 THEN {carried} ELSE turn'.replies
  BY <1>1, <1>3, SpokenAreHis DEF Spoken, ReadWith, Taken
<1>5. ASSUME ~turn.reset PROVE OnceInv'
  <2>1. carried = 0
    BY <1>5 DEF Carries
  <2>2. /\ mem.seen \subseteq mem'.seen /\ turn'.replies \subseteq mem'.seen
        /\ turn'.replies \cap mem.seen = {}
        /\ mem'.card = mem.card
    BY <1>3, <1>5 DEF ReadWith, Fresh
  <2> QED BY <1>1, <1>4, <2>1, <2>2 DEF OnceInv
<1>6. ASSUME turn.reset PROVE OnceInv'
  <2>1. By("owner", Ids) \subseteq mem'.seen
    BY <1>1, <1>2, <1>3, <1>6, TagReadsAll
  <2>2. turn'.replies \subseteq mem'.seen
    BY <1>3 DEF ReadWith
  <2>3. CASE carried = 0
    <3>1. mem'.pending = NoWrite /\ mem'.card = NoCard
      BY <1>3, <1>6, <2>3 DEF ReadWith
    <3> QED BY <1>1, <1>4, <2>1, <2>2, <2>3, <3>1 DEF OnceInv, NoCard
  <2>4. CASE carried # 0
    <3>1. mem'.card = mem.card
      BY <1>3, <2>4 DEF ReadWith
    <3>2. /\ carried \in By("owner", Ids) /\ mem.card.id \in Ids
          /\ (carried = turn.m /\ chat[carried].tag) \/ mem.card.id < carried
      <4>1. carried = CarriedYes(records, turn.m)
        BY <1>6, <2>4 DEF Carries
      <4> QED BY <1>1, <1>6, <2>4, <4>1, CarriedIs DEF His
    <3>3. Ids \subseteq Nat /\ 0 \notin Ids
      BY AppendsOne DEF Ids, Kind, HeardInv
    <3>4. carried \notin Spoken
      <4>1. CASE carried = turn.m /\ chat[carried].tag
        BY <1>1, <4>1 DEF QueueInv
      <4>2. CASE mem.card.id < carried
        <5>1. \A u \in Spoken : u < mem.card.id /\ u \in Ids
          BY <1>4, <3>2, <3>3 DEF OnceInv, By
        <5>2. carried \in Nat /\ mem.card.id \in Nat
          BY <3>2, <3>3 DEF By
        <5>3. \A u \in Spoken : u < mem.card.id /\ u \in Nat
          BY <3>3, <5>1
        <5> QED BY <4>2, <5>2, <5>3
      <4> QED BY <3>2, <4>1, <4>2
    <3> QED BY <1>1, <1>4, <2>1, <2>4, <3>1, <3>2, <3>4 DEF OnceInv
  <2> QED BY <2>3, <2>4
<1> QED BY <1>5, <1>6

LEMMA OnceResolve ==
    ASSUME Kind, CarryInv, OnceInv, [Next]_vars, approvals' # approvals PROVE OnceInv'
<1> DEFINE n == Len(approvals) + 1
<1>1. /\ Resolve /\ turn.pc = "resolve" /\ mem.pending # NoWrite
      /\ approvals' = Append(approvals, Approved) /\ mem'.card = NoCard
  BY OnlyResolve
<1>2. /\ n \notin DOMAIN approvals /\ DOMAIN approvals' = DOMAIN approvals \cup {n}
      /\ approvals'[n] = Approved
      /\ \A i \in DOMAIN approvals : approvals'[i] = approvals[i]
  BY <1>1, ApprovedIs
<1>3. mem'.seen = mem.seen /\ turn'.pc # "resolve"
  BY <1>1, LaterNodes, LaterCard DEF Steps, Context
<1>4. Approved.by = Taken /\ Taken \cap Spoken = {} /\ Taken \subseteq mem.seen
  BY <1>1 DEF Approved, OnceInv
<1>5. \A i \in DOMAIN approvals : approvals[i].by \cap Taken = {}
  BY <1>4 DEF Spoken
<1>6. \A i, j \in DOMAIN approvals' : i # j => approvals'[i].by \cap approvals'[j].by = {}
  BY <1>2, <1>4, <1>5 DEF OnceInv
<1>7. Spoken' = Spoken \cup Taken
  BY <1>1, <1>4, SpokenGrows
<1> QED BY <1>1, <1>3, <1>4, <1>6, <1>7 DEF OnceInv, NoCard

LEMMA OnceElse ==
    ASSUME Kind, CarryInv, OnceInv, UNCHANGED approvals, mem'.seen = mem.seen,
           mem'.card = mem.card \/ mem'.card = NoCard \/ mem'.card.id = Len(chat) + 1,
           turn'.pc # "resolve" \/ UNCHANGED <<turn, mem>>
    PROVE  OnceInv'
<1>1. Spoken' = Spoken
  BY DEF Spoken
<1>2. mem'.card.id # 0 => \A u \in Spoken : u < mem'.card.id
  <2>1. Len(chat) \in Nat /\ \A u \in Spoken : u \in 1..Len(chat)
    BY SpokenAreHis, AppendsOne DEF By, Ids, Kind, HeardInv
  <2>2. CASE mem'.card.id = Len(chat) + 1
    BY <2>1, <2>2
  <2> QED BY <2>2 DEF OnceInv, NoCard
<1> QED BY <1>1, <1>2 DEF OnceInv, Taken

LEMMA OnceKept ==
    ASSUME ~Forgot', ASeq(used), Kind, CarryInv, QueueInv, OnceInv, [Next]_vars
    PROVE  OnceInv'
<1>1. CASE approvals' # approvals
  BY <1>1, OnceResolve
<1>2. CASE Context
  BY <1>2, OnceContext
<1>3. CASE Steps /\ ~Context /\ approvals' = approvals
  BY <1>3, LaterNodes, LaterCard, OnceElse
<1>4. CASE Act
  <2>1. UNCHANGED approvals /\ turn' = Idle
    BY <1>4 DEF Act
  <2>2. mem' = mem \/ mem' = [mem EXCEPT !.card = [id |-> Len(chat) + 1, what |-> turn.card]]
    BY <1>4 DEF Act
  <2>3. mem'.seen = mem.seen /\ (mem'.card = mem.card \/ mem'.card.id = Len(chat) + 1)
    BY <2>2 DEF Kind, OffInv, MemFields
  <2> QED BY <2>1, <2>3, OnceElse DEF Idle
<1>5. CASE Gate
  <2>1. UNCHANGED <<mem, approvals>> /\ (UNCHANGED turn \/ \E reset : Start(reset))
    BY <1>5, Zenon DEF Gate
  <2>2. UNCHANGED turn \/ turn'.pc = "context"
    BY <2>1 DEF Start, Idle
  <2> QED BY <2>1, <2>2, OnceElse
<1>6. CASE UNCHANGED <<mem, approvals>> /\ (turn' = Idle \/ UNCHANGED turn)
  BY <1>6, OnceElse DEF Idle
<1> QED BY <1>1, <1>2, <1>3, <1>4, <1>5, <1>6
        DEF Next, TurnNext, Steps, Post, Deliver, Redeliver, Crash, Abort, Tick, vars

LEMMA OnceShows ==
    ASSUME Kind, CarryInv, Forgot \/ OnceInv PROVE OneYesOneWrite
<1>1. Forgot \/ YesApprovesOnce
  BY DEF OnceInv, YesApprovesOnce
<1>2. \A a \in Range(approvals) : a.by # {} /\ a.by \subseteq By("owner", Ids)
  BY DEF CarryInv, Range
<1> QED BY <1>1, <1>2 DEF OneYesOneWrite

\* Whatever fails, is late, comes twice or is lost in a crash, a yes that a fresh tag
\* finds in the chat above is his, and answers the card of the very write it sends.
THEOREM CarriedIsAnswer == Spec => []CarriedWasSeen
<1>1. Init => Kind /\ CarryInv
  BY TurnBegins, OffBegins, HeardBegins, CarryBegins DEF Kind
<1>2. Kind /\ CarryInv /\ [Next]_vars => Kind' /\ CarryInv'
  BY TurnKept, OffKept, HeardKept, CarryKept DEF Kind
<1>3. Kind /\ CarryInv => CarriedWasSeen
  BY CarryShows
<1> QED BY <1>1, <1>2, <1>3, PTL DEF Spec

\* A write runs on a yes of the owner that no other write has run on, whatever fails, is
\* late, comes twice or is lost, as long as the code has not lost its memory in one of two
\* ways: no fresh tag went without his messages, and no webhook was sent again at all if a
\* process died.  With either, a yes may approve two writes.
THEOREM YesIsSpent == Spec => []OneYesOneWrite
<1> DEFINE Inv == Kind /\ CarryInv /\ ASeq(used) /\ (Forgot \/ (QueueInv /\ OnceInv))
<1>1. Init => Inv
  <2> SUFFICES ASSUME Init PROVE Inv
    OBVIOUS
  <2>1. used \in Seq({})
    BY DEF Init
  <2>2. ASeq(used)
    BY <2>1 DEF ASeq
  <2> QED BY <2>2, TurnBegins, OffBegins, HeardBegins, CarryBegins, QueueBegins, OnceBegins DEF Kind
<1>2. Inv /\ [Next]_vars => Inv'
  <2> SUFFICES ASSUME Inv, [Next]_vars PROVE Inv'
    OBVIOUS
  <2>1. Kind' /\ CarryInv'
    BY TurnKept, OffKept, HeardKept, CarryKept DEF Kind
  <2>2. ASeq(used')
    BY FaultsStay
  <2>3. ASSUME ~Forgot' PROVE (QueueInv /\ OnceInv)'
    <3>1. QueueInv /\ OnceInv
      BY <2>3, ForgotStays
    <3> QED BY <2>3, <3>1, QueueKept, OnceKept
  <2> QED BY <2>1, <2>2, <2>3
<1>3. Inv => OneYesOneWrite
  BY OnceShows
<1> QED BY <1>1, <1>2, <1>3, PTL DEF Spec

=============================================================================
