-------------------------------- MODULE Voice --------------------------------
(***************************************************************************)
(* Voice notes: the gate's decision, the ambient path                      *)
(* (app/nodes/auto_transcribe.py), the one he asks for                     *)
(* (app/nodes/transcribe.py), the transcript cache (app/cache.py), the     *)
(* daily cap (app/roster.py DailyCap), the provider                        *)
(* (app/transcription/assemblyai.py) and the delivery                      *)
(* (app/transcribe_reply.py), next to the roster they follow.              *)
(*                                                                         *)
(* The turns of one JID take a lock one after the other, and a chat with a *)
(* contact has two: what he sends goes under one of them and what the      *)
(* contact sends under the other.  Turns of other JIDs, the owner's edits  *)
(* of the roster, a death and the failures of Postgres, the provider and   *)
(* WhatsApp come in between any two awaits.                                *)
(***************************************************************************)
EXTENDS Roster

CONSTANTS
    Notes,      \* the voice notes
    Limit,      \* AUTO_TRANSCRIBE_DAILY_CAP
    LruMax      \* transcription_cache_max

ASSUME VoiceAssumption ==
    /\ Limit \in Nat
    /\ LruMax \in Nat \ {0}
    /\ None \notin Keys

VARIABLES
    home,       \* the chat of each note, None before anybody hears of it
    turn,       \* per JID: the turn that holds its lock
    lru,        \* TranscriptionService._lru, oldest first
    table,      \* the notes with a row in mary_log.transcripts
    counts,     \* DailyCap._counts of the day, by the key of the rule
    today,      \* <<note, rule>> of what went out unasked since the count began
    paid        \* how often a process with the table had a note transcribed

voice == <<home, turn, lru, table, counts, today, paid>>
allVars == <<vars, voice>>

\* A group has one JID, a chat with a contact one for each direction, and one
\* rule covers both (alt_key).
jid(c, me) == <<c, IF me /\ c \in Contacts THEN "to" ELSE "from">>
Jids == (Chats \X {"from"}) \cup (Contacts \X {"to"})

Free == [at |-> "free"]
At(j, place) == turn[j].at = place
Moves(j, place) == turn' = [turn EXCEPT ![j].at = place]
Rests(j) == turn' = [turn EXCEPT ![j] = Free]

\* The lock of the JID is free, and its next turn is about a note.
Begins(j, n, rule) ==
    /\ turn[j] = Free
    /\ turn' = [turn EXCEPT ![j] = [at |-> "wanted", note |-> n, rule |-> rule]]

\* Mutant: one more than the limit.
allowsOneMore(key) == Limit = 0 \/ counts[key] <= Limit

\* DailyCap: nought is no cap.
allows(key) == Limit = 0 \/ counts[key] < Limit
record(key) == IF Limit = 0 THEN counts ELSE [counts EXCEPT ![key] = @ + 1]

\* The transcript becomes the newest of the memory, which forgets the oldest.
Remember(n) ==
    LET s == Append(SelectSeq(lru, LAMBDA m : m # n), n)
    IN IF Len(s) > LruMax THEN Tail(s) ELSE s

\* A note arrives and the gate looks at the roster: a rule that covers it and
\* a cap that allows it send it to the transcriber.  A note without one, or a
\* long one, changes nothing: it is still a note he can ask for.
Records ==
    \E n \in Notes, c \in Chats, me \in BOOLEAN :
        /\ home[n] = None /\ home' = [home EXCEPT ![n] = c]
        /\ LET rule == should_transcribe(c, me)
           IN rule # None /\ allows(rule) /\ Begins(jid(c, me), n, rule)
        /\ UNCHANGED <<lru, table, counts, today, paid, turns, mishaps>>

\* He answers a note with the tag and asks for its transcript.
AsksFor ==
    \E n \in Notes, c \in Chats :
        /\ home[n] \in {None, c} /\ home' = [home EXCEPT ![n] = c]
        /\ turns < MaxTurns /\ turns' = turns + 1
        /\ Begins(jid(c, TRUE), n, None)
        /\ UNCHANGED <<lru, table, counts, today, paid, mishaps>>

\* TranscriptionService.get: the memory, or the row of the table.
Hits(j, n) ==
    /\ At(j, "wanted")
    /\ n \in Range(lru) \/ (attached /\ n \in table)
    /\ lru' = Remember(n) /\ Moves(j, "got")
    /\ UNCHANGED <<table, counts, today, paid, mishaps>>

\* Neither has it, or Postgres does not say.
Misses(j, n) ==
    /\ At(j, "wanted") /\ n \notin Range(lru)
    /\ IF attached /\ n \in table THEN Mishap ELSE UNCHANGED mishaps
    /\ Moves(j, "asking")
    /\ UNCHANGED <<lru, table, counts, today, paid>>

\* Download, upload and poll, whoever else is at it.  A transcript is
\* remembered, a failure is not.
Transcribes(j, n) ==
    /\ At(j, "asking")
    /\ paid' = IF attached THEN [paid EXCEPT ![n] = @ + 1] ELSE paid
    /\ lru' = Remember(n) /\ Moves(j, "heard")
    /\ UNCHANGED <<table, counts, today, mishaps>>

GivesUp(j) ==
    /\ At(j, "asking")
    /\ Mishap /\ Rests(j)
    /\ UNCHANGED <<lru, table, counts, today, paid>>

\* Mutant: the memory is the only cache.
PutNowhere(j, n) == table

\* What is on its way into the table, and out into the chat unasked.
Put(j, n) == IF At(j, "heard") /\ attached THEN table \cup {n} ELSE table
Unasked(j) == turn[j].rule # None
Out(j, n) == IF Unasked(j) THEN today \cup {<<n, turn[j].rule>>} ELSE today
Counted(j) == IF Unasked(j) THEN record(turn[j].rule) ELSE counts

\* The row goes into the table, unless that fails in silence, and the
\* transcript goes out, attached or in a file: one that cannot be sent is
\* counted with the rest, and silence is neither sent nor counted.
Delivers(j, n) ==
    /\ At(j, "heard") \/ At(j, "got")
    /\ \/ table' = Put(j, n) /\ today' = Out(j, n) /\ counts' = Counted(j) /\ UNCHANGED mishaps
       \/ table' = Put(j, n) /\ UNCHANGED <<today, counts, mishaps>>
       \/ table' = table /\ today' = Out(j, n) /\ counts' = Counted(j) /\ Mishap
       \/ table' = Put(j, n) /\ today' = today /\ counts' = Counted(j) /\ Mishap
    /\ Rests(j)
    /\ UNCHANGED <<lru, paid>>

\* Midnight in his timezone begins a new count.
Midnight ==
    /\ counts # [k \in Keys |-> 0]
    /\ counts' = [k \in Keys |-> 0] /\ today' = {}
    /\ UNCHANGED <<home, turn, lru, table, paid, turns, mishaps>>

\* A death takes the memory, the count and every turn under way with it.
Forgets ==
    /\ turn' = [j \in Jids |-> Free]
    /\ lru' = <<>> /\ counts' = [k \in Keys |-> 0] /\ today' = {}
    /\ UNCHANGED <<home, table, paid>>

VoiceInit ==
    /\ Init
    /\ home = [n \in Notes |-> None] /\ turn = [j \in Jids |-> Free]
    /\ lru = <<>> /\ table = {} /\ counts = [k \in Keys |-> 0] /\ today = {}
    /\ paid = [n \in Notes |-> 0]

Turns(j) ==
    /\ turn[j] # Free
    /\ LET n == turn[j].note
       IN Hits(j, n) \/ Misses(j, n) \/ Transcribes(j, n) \/ GivesUp(j) \/ Delivers(j, n)
    /\ UNCHANGED <<home, turns>>
Hears == Records \/ AsksFor \/ Midnight \/ \E j \in Jids : Turns(j)

VoiceNext ==
    \/ (Says \/ Loop \/ Serves) /\ UNCHANGED voice
    \/ Restarts /\ Forgets
    \/ Hears /\ UNCHANGED state

VoiceSpec == VoiceInit /\ [][VoiceNext]_allVars /\ WF_allVars((Loop \/ Serves) /\ UNCHANGED voice)

------------------------------------------------------------------------
(* Properties. *)

\* The turns that may be about a note of a rule's at one time.
Covered(k) == {j \in Jids : k \in {j[1], scope_for_kind(j[1])}}

\* The runaway guard (DailyCap: "it exists to stop a pathological day").  It
\* counts by rule and looks before the note is transcribed: in a day a rule
\* lets out the limit, and what other JIDs it covers had under way when the
\* limit was reached.  This is not the cap for each chat that roster.py:222,
\* config.py:103 and auto_transcribe.py:12 speak of: a chat with a rule of its
\* own and a blanket one has a count in both, and the chats of a blanket rule
\* have one count together.
RuleBounded ==
    Limit > 0 => \A k \in Keys :
        Cardinality({n \in Notes : <<n, k>> \in today}) <= Limit + Cardinality(Covered(k)) - 1

JidsOf(n) == {j \in Jids : j[1] = home[n]}

\* A note is transcribed once for each JID of its chat, and as often again for
\* each failure or death that may have lost the transcript.  cache.py:13 has
\* "at most once", which only a group keeps: the two JIDs of a contact have two
\* locks, and nothing holds the lookup and the purchase together.
PaidByJid == \A n \in Notes : paid[n] <= (1 + mishaps) * Cardinality(JidsOf(n))

=============================================================================
