------------------------------- MODULE Roster -------------------------------
(***************************************************************************)
(* The auto-transcription roster (app/roster.py) and the setup skill that  *)
(* edits it from the owner's chat with himself (app/tools/setup.py,        *)
(* app/skills/setup.py, app/skills/setup_format.py).                       *)
(*                                                                         *)
(* The gate reads a snapshot in memory; a task of the process reads the    *)
(* table anew every so often, and a write of the owner's goes through the  *)
(* table into the snapshot.  A write is an approved card: the model names  *)
(* a chat by a number, a key or a name, the card is composed from it, and  *)
(* the target is resolved again when he says yes.  The turns of one chat   *)
(* run one after the other (main.py's lock), so there is one write at a    *)
(* time; the task, a death and the store's failures come in between.       *)
(***************************************************************************)
EXTENDS Integers, SequencesExt

CONSTANTS
    Contacts, Groups,       \* the chats of the owner
    Alphabet,               \* the same chats, in the order of their labels
    Asked,                  \* the directions he asks for
    Earlier,                \* tables an earlier life may have left
    None,                   \* no rule, no rows, nothing pending
    MaxTurns,               \* bound on his messages in the self-chat
    MaxMishaps              \* bound on failures and deaths

Chats == Contacts \cup Groups
Dirs == {"inbound", "outbound", "both"}

ASSUME RosterAssumption ==
    /\ Asked \subseteq Dirs
    /\ Alphabet \in Seq(Chats) /\ Range(Alphabet) = Chats
    /\ Contacts \cap Groups = {}
    /\ Chats \cap {"all_contacts", "all_groups"} = {}
    /\ Earlier \subseteq [Chats \cup {"all_contacts", "all_groups"} -> Dirs \cup {None}]
    /\ {MaxTurns, MaxMishaps} \subseteq Nat

SCOPE_KEYS == {"all_contacts", "all_groups"}
Keys == Chats \cup SCOPE_KEYS
scope_for_kind(c) == IF c \in Groups THEN "all_groups" ELSE "all_contacts"

Empty == [k \in Keys |-> None]
Writes == {"enroll", "update", "remove"}

VARIABLES
    store,      \* the table transcribe_rules
    attached,   \* the process has the table: it could be opened at boot
    rules,      \* Roster._rules
    index,      \* Roster._index: what the gate finds by a chat's key
    reload,     \* what the task has read and not yet put in place
    op,         \* the verb of the setup handler under way
    listed,     \* listed_chats: the chat each number stands for
    seen,       \* seen_chat_keys
    pending,    \* the write awaiting his yes
    card,       \* the write its card named
    told,       \* what he was last told of each key
    turns, mishaps

roster == <<rules, index>>
thread == <<listed, seen, pending, card>>
state == <<store, attached, roster, reload, op, thread, told>>
vars == <<state, turns, mishaps>>

Mishap == mishaps < MaxMishaps /\ mishaps' = mishaps + 1
Idle == [verb |-> "none"]
Resting == op = Idle

------------------------------------------------------------------------
(* The snapshot. *)

Covers(dir, fromMe) == dir \in {"both", IF fromMe THEN "outbound" ELSE "inbound"}

\* The key of the rule that covers a voice note, or None: a chat's own rule
\* and the one for its kind add up, and the chat's own is asked first.
should_transcribe(c, fromMe) ==
    CASE index[c] # None /\ Covers(index[c], fromMe) -> c
      [] OTHER -> LET s == scope_for_kind(c)
                  IN IF rules[s] # None /\ Covers(rules[s], fromMe) THEN s ELSE None

Reindexed(rs) == [c \in Chats |-> rs[c]]

\* Mutant: the rows are put in place and the index is not made anew.
RefreshedUnindexed(rows) ==
    IF rows = None THEN UNCHANGED roster
    ELSE rules' = rows /\ UNCHANGED index

\* Rows that were read replace the snapshot; a read that failed keeps it.
Refreshed(rows) ==
    IF rows = None THEN UNCHANGED roster
    ELSE rules' = rows /\ index' = Reindexed(rows)

\* The list he is shown: contacts, then groups, each by label.
Numbering(rs) ==
    LET On(S) == SelectSeq(Alphabet, LAMBDA c : c \in S /\ rs[c] # None)
    IN On(Contacts) \o On(Groups)

\* The task asks the table, and later puts the answer in place.
LoopReads ==
    /\ attached /\ reload = <<>>
    /\ \/ reload' = <<store>> /\ UNCHANGED mishaps
       \/ reload' = <<None>> /\ Mishap
    /\ UNCHANGED <<store, attached, roster, op, thread, told, turns>>

LoopApplies ==
    /\ reload # <<>>
    /\ Refreshed(Head(reload)) /\ reload' = <<>>
    /\ UNCHANGED <<store, attached, op, thread, told, turns, mishaps>>

------------------------------------------------------------------------
(* The chat with himself: what names a chat, and what a yes runs. *)

\* A target is a number he said, or a key or name that stands for one chat.
Targets == [ordinal : 1 .. Cardinality(Chats)] \cup [key : Keys]

\* The chat an action targets: nobody, when the number is on no list.
resolve_target(a, list) ==
    IF "ordinal" \in DOMAIN a.target
    THEN IF a.target.ordinal \in DOMAIN list THEN list[a.target.ordinal] ELSE None
    ELSE a.target.key

\* Blanket rules are always a valid target; a chat has to have been surfaced.
setup_resolve_gate(a) ==
    LET k == resolve_target(a, listed) IN k \in SCOPE_KEYS \cup seen

Turn == Resting /\ turns < MaxTurns /\ turns' = turns + 1

\* A fresh tag forgets the loop: only the calendar's writes are carried over.
FreshTag ==
    /\ Turn
    /\ listed' = <<>> /\ seen' = {} /\ pending' = None /\ card' = None
    /\ UNCHANGED <<store, attached, roster, reload, op, told, mishaps>>

\* He forwards a contact's card: every number on it is surfaced.
ForwardsCard ==
    /\ Turn
    /\ \E c \in Contacts \ seen : seen' = seen \cup {c}
    /\ UNCHANGED <<store, attached, roster, reload, op, listed, pending, card, told, mishaps>>

\* He names a group: the best matches, or the most recent, take the numbers.
Resolves ==
    /\ Turn
    /\ \E cands \in SetToAllKPermutations(Groups) \ {<<>>} :
          listed' = cands /\ seen' = seen \cup Range(cands)
    /\ UNCHANGED <<store, attached, roster, reload, op, pending, card, told, mishaps>>

AsksForList ==
    /\ Turn
    /\ op' = [verb |-> "list", at |-> "sync", rows |-> None]
    /\ UNCHANGED <<store, attached, roster, reload, thread, told, mishaps>>

\* The model proposes a write, and the card names what it stands for now.
Proposes ==
    /\ Turn
    /\ \E v \in Writes, t \in Targets, d \in Asked :
          /\ "key" \in DOMAIN t => t.key \in seen \cup SCOPE_KEYS
          /\ v = "remove" => d = CHOOSE x \in Asked : TRUE
          /\ pending' = [verb |-> v, target |-> t, dir |-> d]
          /\ card' = <<resolve_target(pending', listed), IF v = "remove" THEN None ELSE d>>
    /\ UNCHANGED <<store, attached, roster, reload, op, listed, seen, told, mishaps>>

Declines ==
    /\ Turn /\ pending # None
    /\ pending' = None /\ card' = None
    /\ UNCHANGED <<store, attached, roster, reload, op, listed, seen, told, mishaps>>

\* His yes: the target is resolved again, and passes the gate or is refused.
SaysYes ==
    /\ Turn /\ pending # None
    /\ pending' = None /\ card' = None
    /\ op' = IF setup_resolve_gate(pending)
             THEN [verb |-> pending.verb, at |-> "sync", rows |-> None,
                   key |-> resolve_target(pending, listed),
                   dir |-> IF pending.verb = "remove" THEN None ELSE pending.dir]
             ELSE Idle
    /\ UNCHANGED <<store, attached, roster, reload, listed, seen, told, mishaps>>

------------------------------------------------------------------------
(* The handler: it reads the table, decides on the snapshot, and writes. *)

\* The table answers the read before the operation, or fails.
SyncReads ==
    /\ ~Resting /\ op.at = "sync" /\ attached
    /\ \/ op' = [op EXCEPT !.at = "synced", !.rows = store] /\ UNCHANGED mishaps
       \/ op' = [op EXCEPT !.at = "synced"] /\ Mishap
    /\ UNCHANGED <<store, attached, roster, reload, thread, told, turns>>

\* The handler may go on: its read is in place or failed, or there is no
\* table to read.
Synced == ~Resting /\ (op.at = "synced" \/ (op.at = "sync" /\ ~attached))
Snapshot ==
    IF op.rows # None
    THEN [rules |-> op.rows, index |-> Reindexed(op.rows)]
    ELSE [rules |-> rules, index |-> index]

Place(s) == rules' = s.rules /\ index' = s.index
\* What he may take his answer for: an answer without a table says nothing.
Tells(word) == told' = [told EXCEPT ![op.key] = IF attached THEN word ELSE None]
Waits(s) == Place(s) /\ op' = [op EXCEPT !.at = "write", !.rows = None]

\* A new list replaces the old numbering.
Lists(s) ==
    /\ op.verb = "list"
    /\ Place(s) /\ op' = Idle
    /\ listed' = Numbering(s.rules)
    /\ seen' = seen \cup {k \in Keys : s.rules[k] # None}
    /\ UNCHANGED <<pending, card, told>>

\* The row goes into the table, and later into the snapshot.
Upserts(s) ==
    /\ op.verb = "enroll" \/ (op.verb = "update" /\ s.rules[op.key] # None)
    /\ IF attached THEN Waits(s) /\ UNCHANGED told
       ELSE LET rs == [s.rules EXCEPT ![op.key] = op.dir]
            IN Place([rules |-> rs, index |-> Reindexed(rs)]) /\ Tells(op.dir) /\ op' = Idle

\* The rule leaves the snapshot before the table, and the index after it.
Removes(s) ==
    /\ op.verb = "remove" /\ s.rules[op.key] # None
    /\ LET rs == [s.rules EXCEPT ![op.key] = None]
       IN IF attached THEN Waits([s EXCEPT !.rules = rs]) /\ UNCHANGED told
          ELSE Place([rules |-> rs, index |-> Reindexed(rs)]) /\ Tells("gone") /\ op' = Idle

\* "That chat is not on the list."
NotFound(s) ==
    /\ op.verb \in {"update", "remove"} /\ s.rules[op.key] = None
    /\ Place(s) /\ op' = Idle
    /\ UNCHANGED told

Handles ==
    /\ Synced
    /\ \/ Lists(Snapshot)
       \/ (Upserts(Snapshot) \/ Removes(Snapshot) \/ NotFound(Snapshot)) /\ UNCHANGED thread
    /\ UNCHANGED <<store, attached, reload, turns, mishaps>>

Writing == ~Resting /\ op.at = "write"

\* The table takes the write, or fails before it or after it: he is told of
\* a failure either way.
WriteLands ==
    /\ Writing
    /\ store' = [store EXCEPT ![op.key] = op.dir]
    /\ op' = [op EXCEPT !.at = "landed"]
    /\ UNCHANGED <<attached, roster, reload, thread, told, turns, mishaps>>

\* Mutant: a failure is swallowed, as the transcript cache does.
WriteFailsQuietly ==
    /\ Writing /\ Mishap
    /\ store' \in {store, [store EXCEPT ![op.key] = op.dir]}
    /\ op' = Idle /\ Tells(IF op.verb = "remove" THEN "gone" ELSE op.dir)
    /\ UNCHANGED <<attached, roster, reload, thread, turns>>

WriteFails ==
    /\ Writing /\ Mishap
    /\ store' \in {store, [store EXCEPT ![op.key] = op.dir]}
    /\ op' = Idle /\ Tells(None)
    /\ UNCHANGED <<attached, roster, reload, thread, turns>>

\* The snapshot follows, as it is by now, and he is told.
Settles ==
    /\ ~Resting /\ op.at = "landed"
    /\ rules' = IF op.verb = "remove" THEN rules ELSE [rules EXCEPT ![op.key] = op.dir]
    /\ index' = Reindexed(rules')
    /\ op' = Idle /\ Tells(IF op.verb = "remove" THEN "gone" ELSE op.dir)
    /\ UNCHANGED <<store, attached, reload, thread, turns, mishaps>>

------------------------------------------------------------------------
(* The process dies and starts: the table is opened and read, or it is not *)
(* and memory is the whole roster.                                         *)

Boots ==
    \/ attached' = TRUE /\ rules' = store /\ mishaps' = mishaps + 1
    \/ attached' \in BOOLEAN /\ rules' = Empty /\ mishaps' = mishaps + 2

Restarts ==
    /\ Boots /\ mishaps' <= MaxMishaps
    /\ index' = Reindexed(rules')
    /\ reload' = <<>> /\ op' = Idle
    /\ told' = IF Resting \/ op.verb = "list" THEN told ELSE [told EXCEPT ![op.key] = None]
    /\ UNCHANGED <<store, thread, turns>>

Init ==
    /\ store \in Earlier /\ attached = TRUE
    /\ rules = store /\ index = Reindexed(store) /\ reload = <<>> /\ op = Idle
    /\ listed = <<>> /\ seen = {} /\ pending = None /\ card = None
    /\ told = [k \in Keys |-> None]
    /\ turns = 0 /\ mishaps = 0

Says == FreshTag \/ ForwardsCard \/ Resolves \/ AsksForList \/ Proposes \/ Declines \/ SaysYes
Loop == LoopReads \/ LoopApplies
Serves == SyncReads \/ Handles \/ WriteLands \/ WriteFails \/ Settles
Next == Says \/ Loop \/ Serves \/ Restarts

\* The task of the process and a handler go on; he need not say anything.
Fairness == WF_vars(LoopReads) /\ WF_vars(LoopApplies) /\ WF_vars(Serves)
Spec == Init /\ [][Next]_vars
FairSpec == Spec /\ Fairness

------------------------------------------------------------------------
(* Properties. *)

\* What he was told of a chat is what the table says of it, unless a write of
\* it is under way: a write that failed is never reported as made, and
\* neither a death nor a late read takes back what was (RosterStore: writes
\* raise, "because a write that failed must be reported").
HisWordIsStored ==
    \A k \in Keys :
        (told[k] # None /\ (Resting \/ op.verb = "list" \/ op.key # k))
            => store[k] = IF told[k] = "gone" THEN None ELSE told[k]

\* Once he says no more and the table answers, the gate finds what the table
\* has, for good: no late read, failed write or death leaves it with a rule
\* too many or too few.
RosterSettles == <>[](attached => rules = store /\ index = Reindexed(store))

=============================================================================
