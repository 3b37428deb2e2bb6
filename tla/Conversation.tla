----------------------------- MODULE Conversation -----------------------------
(***************************************************************************)
(* One WhatsApp chat with the Lisa flow in it: the owner and a contact     *)
(* write, the webhook of each message becomes a turn of the message graph, *)
(* and the turns take the chat's lock one after the other.  A turn reads   *)
(* the chat, reads the owner's answer to the write she holds, asks the     *)
(* model, holds or runs what it proposes, and sends a reply.  Messages     *)
(* keep arriving at every await of a turn.                                 *)
(*                                                                         *)
(* A message is its position in chat, which is also its age.  What it says *)
(* is only its class: a clean yes, a clean no, or anything else; a message *)
(* with the tag may also be a nudge (nothing more, or the command word of  *)
(* the card).  A write is a model value; the model behind the reasoner is  *)
(* a free choice.                                                          *)
(***************************************************************************)
EXTENDS Naturals, Sequences, FiniteSets, Functions

CONSTANTS
    Creates,      \* bookings the model may propose
    Changes,      \* updates and cancellations of the one event it can find
    Quiet,        \* the changes that are sent without notifying the guests
    NoWrite,      \* no write
    MaxHuman,     \* bound: how many messages the owner and the contact write
    Speech,       \* bound: which ones
    Window,       \* settings.context_window_messages
    MaxHops,      \* settings.max_tool_actions
    MaxAttempts,  \* _MAX_ATTEMPTS of the calendar tool
    Faults,       \* the faults of the environment that may happen
    MaxFaults     \* bound: how many do

Writes == Creates \cup Changes

\* The process dies, a node raises, a webhook is late or comes twice, a fresh
\* tag gets none of the owner's messages, another query for the chat fails,
\* the message that woke the turn is not in the store yet, a reply is not
\* sent, the calendar gives no good answer.
FaultKinds ==
    {"crash", "error", "late", "redeliver", "blank", "blind", "behind", "unsent", "outage"}

OwnerSays == {"yes", "no", "other"}
TagSays == {"yes", "nudge", "other"}

Human(by, tag, says) == [by |-> by, tag |-> tag, says |-> says, card |-> NoWrite]

HumanMessages ==
    {Human("owner", FALSE, s) : s \in OwnerSays}
        \cup {Human("owner", TRUE, s) : s \in TagSays}
        \cup {Human("contact", FALSE, s) : s \in OwnerSays}

ASSUME ConversationAssumption ==
    /\ Quiet \subseteq Changes
    /\ Creates \cap Changes = {}
    /\ NoWrite \notin Writes
    /\ MaxHuman \in Nat
    /\ Speech \subseteq HumanMessages
    /\ {Window, MaxHops} \subseteq Nat
    /\ MaxAttempts \in Nat \ {0}
    /\ Faults \subseteq FaultKinds
    /\ MaxFaults \in Nat

VARIABLES
    chat,       \* the messages of the chat, oldest first
    inbox,      \* messages whose webhook is late
    handled,    \* _seen: the webhooks this process has accepted
    waiting,    \* the turns queued at the lock of the chat
    turn,       \* the turn that holds the lock, with its per-turn scratch
    mem,        \* the checkpoint of the chat's thread
    left,       \* how long the window stays open: 0 closed, 1 seconds, 2 minutes
    approvals,  \* history: the yeses that sent a write to execute
    refused,    \* history: writes called off since they were last proposed
    used        \* history: the faults so far

vars == <<chat, inbox, handled, waiting, turn, mem, left, approvals, refused, used>>

Ids == 1..Len(chat)
By(who, S) == {m \in S : chat[m].by = who}
Oldest(S) == CHOOSE m \in S : \A n \in S : m <= n
Newest(S) == CHOOSE m \in S : \A n \in S : n <= m

NoCard == [id |-> 0, what |-> NoWrite]

\* What a clean process and a chat it has never read look like.
Idle == [pc |-> "idle", m |-> 0, reset |-> FALSE, replies |-> {}, carried |-> 0,
         read |-> FALSE, write |-> NoWrite, llm |-> "keep_listening",
         says |-> FALSE, card |-> NoWrite, hops |-> 0, tries |-> 0,
         result |-> "none"]
Unread == [cursor |-> 0, seen |-> {}, pending |-> NoWrite, card |-> NoCard,
           sig |-> NoWrite, surfaced |-> FALSE]

\* What a turn takes from one node to the next when nothing else is named.
Go(pc) == [Idle EXCEPT !.pc = pc, !.m = turn.m, !.hops = turn.hops]

Init ==
    /\ chat = <<>>
    /\ inbox = {}
    /\ handled = {}
    /\ waiting = <<>>
    /\ turn = Idle
    /\ mem = Unread
    /\ left = 0
    /\ approvals = <<>>
    /\ refused = {}
    /\ used = <<>>

-----------------------------------------------------------------------------
(* The chat and the webhooks.                                              *)

Fault(f) ==
    /\ f \in Faults
    /\ Len(used) < MaxFaults
    /\ used' = Append(used, f)

\* webhook: a message id this process has seen is dropped, any other one
\* queues for the lock of the chat.
Webhook(m) ==
    /\ handled' = handled \cup {m}
    /\ waiting' = IF m \in handled THEN waiting ELSE Append(waiting, m)

\* Somebody writes.  The webhook of the message comes at once, or it is late
\* and others overtake it.
Post(msg) ==
    /\ Cardinality(Ids \ By("lisa", Ids)) < MaxHuman
    /\ chat' = Append(chat, msg)
    /\ \/ Webhook(Len(chat) + 1) /\ UNCHANGED <<inbox, used>>
       \/ /\ Fault("late")
          /\ inbox' = inbox \cup {Len(chat) + 1}
          /\ UNCHANGED <<handled, waiting>>
    /\ UNCHANGED <<turn, mem, left, approvals, refused>>

\* A late webhook arrives.  One that never does is lost.
Deliver(m) ==
    /\ m \in inbox
    /\ inbox' = inbox \ {m}
    /\ Webhook(m)
    /\ UNCHANGED <<chat, turn, mem, left, approvals, refused, used>>

\* A webhook is sent again.
Redeliver(m) ==
    /\ m \in Ids \ By("lisa", Ids)
    /\ Fault("redeliver")
    /\ Webhook(m)
    /\ UNCHANGED <<chat, inbox, turn, mem, left, approvals, refused>>

\* The process dies and starts again: the turns and the list of handled
\* webhooks are gone, the checkpoint and the session marker stay.
Crash ==
    /\ Fault("crash")
    /\ handled' = {}
    /\ waiting' = <<>>
    /\ turn' = Idle
    /\ UNCHANGED <<chat, inbox, mem, left, approvals, refused>>

\* Time passes, and the window is nearer its end.
Tick ==
    /\ left > 0
    /\ left' = left - 1
    /\ UNCHANGED <<chat, inbox, handled, waiting, turn, mem, approvals, refused, used>>

\* A node raises, and the lock is released with what the nodes before it
\* have saved.
Abort ==
    /\ turn.pc # "idle"
    /\ Fault("error")
    /\ turn' = Idle
    /\ UNCHANGED <<chat, inbox, handled, waiting, mem, left, approvals, refused>>

-----------------------------------------------------------------------------
(* A turn: the gate.                                                       *)

Start(reset) ==
    turn' = [Idle EXCEPT !.pc = "context", !.m = Head(waiting), !.reset = reset]

\* parse and gate: the owner's tag opens the window and a new loop, any
\* message goes on while the window is open, every other one stops here.
Gate ==
    /\ turn.pc = "idle"
    /\ waiting # <<>>
    /\ waiting' = Tail(waiting)
    /\ \/ /\ chat[Head(waiting)].tag
          /\ left' = 1
          /\ Start(TRUE)
       \/ /\ ~chat[Head(waiting)].tag
          /\ left > 0
          /\ Start(FALSE)
          /\ UNCHANGED left
       \/ /\ ~chat[Head(waiting)].tag
          /\ left = 0
          /\ UNCHANGED <<turn, left>>
    /\ UNCHANGED <<chat, inbox, handled, mem, approvals, refused, used>>

-----------------------------------------------------------------------------
(* A turn: reading the chat.                                               *)

\* What a message means as an answer to the write on hold: the tag is a
\* word of its own, so a message that carries it is never a clean answer.
Verdict(m) == IF chat[m].tag THEN "other" ELSE chat[m].says

Last(S, n) == {m \in S : Cardinality({l \in S : l > m}) < n}

\* fetch_history: either of its two queries may fail, or both, and the
\* message that woke the turn may not be in the store yet.  For a fresh tag
\* what is fetched of his is also the list of what he has said before it.
Partial == {{}, By("contact", Ids), By("owner", Ids) \cup By("lisa", Ids)}
Lagging == IF turn.m = Len(chat) /\ turn.m > mem.cursor THEN {Ids \ {turn.m}} ELSE {}

Seeded(records) == turn.reset => By("owner", Ids) \subseteq By("owner", records)

Fetched(records) ==
    \/ records = Ids /\ UNCHANGED used
    \/ records \in Partial \ {Ids} /\ Fault(IF Seeded(records) THEN "blind" ELSE "blank")
    \/ records \in Lagging /\ Fault("behind")

\* The messages of this turn, before the one that woke it is added.
NewOf(records, reset) ==
    IF reset \/ mem.cursor \notin records
    THEN Last(records, Window)
    ELSE {m \in records : m > mem.cursor}

\* Mutants: what was fetched is trusted; what an earlier turn read is read again.
Trusted(new, m) == new
AllHis(kept, prior) == By("owner", kept)

\* The guard against the store being late: the message that woke the turn is
\* read whatever was fetched.
Guarded(new, m) == new \cup {m}

\* His messages no turn of this loop has read.
Fresh(kept, prior) == By("owner", kept) \ prior

\* Her own replies are dropped, except from the seed of a new loop.
Kept(new, reset) == IF reset THEN new ELSE new \ By("lisa", new)

\* The guard puts its message after all others, and the cursor on it.
CursorAfter(new, m) == IF m \in new THEN Newest(new) ELSE m

\* Mutant: any clean answer will do.
CleanAnswers(his) == \A r \in his : Verdict(r) # "other"

OnlyYes(his) == \A r \in his : Verdict(r) = "yes"

\* carried_yes: the owner's yes under the card that asked about the write on
\* hold, or 0.  Who spoke after the card decides.
CarriedYes(records, m) ==
    LET after == {r \in records \ {m} : r > mem.card.id}
        his == By("owner", after)
        yeses == IF his # {} THEN {Oldest(his)}
                 ELSE IF chat[m].says = "yes" THEN {m} ELSE {}
        stands ==
            /\ mem.pending # NoWrite
            /\ mem.card.what = mem.pending
            /\ mem.card.id \in records
            /\ By("lisa", after) = {}
            /\ OnlyYes(his)
            /\ \A r \in By("contact", after) :
                  (\A y \in his : r < y) => Verdict(r) = "yes"
            /\ chat[m].says # "other"
    IN IF stands /\ yeses # {} THEN Oldest(yeses) ELSE 0

\* What a fresh tag may find: 0 also when the card is too old or its event
\* has begun.
Carries(records) == IF turn.reset THEN {0, CarriedYes(records, turn.m)} ELSE {0}

\* context_node: the new messages become the turn, the cursor moves, and a
\* tag drops all that the last loop kept, unless his yes to the write on
\* hold stands.
Context ==
    /\ turn.pc = "context"
    /\ \E records \in {Ids} \cup Partial \cup Lagging :
       /\ Fetched(records)
       /\ \E carried \in Carries(records) :
          LET new == NewOf(records, turn.reset)
              kept == Kept(Guarded(new, turn.m), turn.reset)
              prior == IF turn.reset THEN By("owner", records) ELSE mem.seen
              fresh == Fresh(kept, prior)
              dropped == turn.reset /\ carried = 0
              cursor == CursorAfter(Kept(new, turn.reset), turn.m)
          IN /\ turn' = [turn EXCEPT !.pc = "resolve", !.replies = fresh, !.carried = carried]
             /\ mem' = [IF dropped THEN Unread ELSE mem EXCEPT
                            !.cursor = cursor,
                            !.seen = prior \cup fresh,
                            !.surfaced = @ /\ (turn.reset => mem.pending \in Changes)]
             /\ refused' = IF dropped THEN refused \cup ({mem.pending} \ {NoWrite}) ELSE refused
    /\ UNCHANGED <<chat, inbox, handled, waiting, left, approvals>>

-----------------------------------------------------------------------------
(* A turn: the owner's answer to the write on hold.                        *)

\* One verdict for all his messages this turn is the first to read.
OwnerVerdict ==
    LET said == {Verdict(r) : r \in turn.replies}
    IN IF turn.carried # 0 THEN "yes"
       ELSE IF Cardinality(said) = 1 THEN CHOOSE v \in said : TRUE
       ELSE "other"

\* A message of the owner that an earlier turn has read, or a contact who
\* agrees or declines: not an answer.
NotHis == turn.carried = 0 /\ turn.replies = {}
AlreadyRead == NotHis /\ chat[turn.m].by = "owner"
Bystander == NotHis /\ chat[turn.m].by = "contact" /\ Verdict(turn.m) # "other"

\* Mutant: the card goes and the write stays.
CardOff ==
    /\ mem' = [mem EXCEPT !.card = NoCard, !.sig = NoWrite]
    /\ refused' = refused \cup {mem.pending}

\* The proposal is dropped, and what was asked about it forgotten.
CallOff ==
    /\ mem' = [mem EXCEPT !.pending = NoWrite, !.card = NoCard, !.sig = NoWrite]
    /\ refused' = refused \cup {mem.pending}

\* resolve_pending_node.
Resolve ==
    /\ turn.pc = "resolve"
    /\ \/ /\ mem.pending = NoWrite                       \* nothing to answer
          /\ turn' = Go("reason")
          /\ UNCHANGED <<mem, approvals, refused>>
       \/ /\ mem.pending # NoWrite                       \* silence, and she keeps it
          /\ AlreadyRead \/ Bystander
          /\ turn' = Go("act")
          /\ UNCHANGED <<mem, approvals, refused>>
       \/ /\ mem.pending # NoWrite                       \* his yes
          /\ ~NotHis
          /\ OwnerVerdict = "yes"
          /\ approvals' = Append(approvals,
                [by |-> IF turn.carried # 0 THEN {turn.carried} ELSE turn.replies,
                 what |-> mem.pending, carried |-> turn.carried # 0,
                 off |-> mem.pending \in refused])
          /\ turn' = [Go("execute") EXCEPT !.write = mem.pending]
          /\ mem' = [mem EXCEPT !.pending = NoWrite, !.card = NoCard]
          /\ UNCHANGED refused
       \/ /\ mem.pending # NoWrite                       \* his no
          /\ ~NotHis
          /\ OwnerVerdict = "no"
          /\ CallOff
          /\ turn' = Go("reason")
          /\ UNCHANGED approvals
       \/ /\ mem.pending # NoWrite                       \* a correction, or chatter
          /\ IF NotHis THEN ~AlreadyRead /\ ~Bystander ELSE OwnerVerdict = "other"
          /\ turn' = Go("reason")
          /\ UNCHANGED <<mem, approvals, refused>>
    /\ UNCHANGED <<chat, inbox, handled, waiting, left, used>>

-----------------------------------------------------------------------------
(* A turn: the model, and the confirmation of what it proposes.            *)

\* reason_node with no action: a reply or silence, and what becomes of the
\* window.
Answer ==
    /\ turn.pc = "reason"
    /\ \E says \in BOOLEAN, llm \in {"keep_listening", "awaiting_answer", "close"} :
          turn' = [Go("act") EXCEPT !.says = says, !.llm = llm]
    /\ UNCHANGED <<chat, inbox, handled, waiting, mem, left, approvals, refused, used>>

\* reason_node with actions: a search, a write, or both.
Propose ==
    /\ turn.pc = "reason"
    /\ \E read \in BOOLEAN, write \in Writes \cup {NoWrite}, llm \in {"keep_listening", "close"} :
          /\ read \/ write # NoWrite
          /\ turn' = [Go("confirm") EXCEPT !.read = read, !.write = write, !.llm = llm]
    /\ UNCHANGED <<chat, inbox, handled, waiting, mem, left, approvals, refused, used>>

\* confirm_node, a search: it runs now.  A write beside it is held without a
\* card, when its card can be composed at all.
Search ==
    /\ turn.pc = "confirm"
    /\ turn.read
    /\ turn' = [turn EXCEPT !.pc = "execute", !.write = NoWrite]
    /\ \/ /\ turn.write # NoWrite
          /\ mem' = [mem EXCEPT !.pending = turn.write, !.card = NoCard]
          /\ refused' = refused \ {turn.write}
       \/ UNCHANGED <<mem, refused>>
    /\ UNCHANGED <<chat, inbox, handled, waiting, left, approvals, used>>

\* With no hops left the turn ends on whatever message the model last wrote.
LastWords ==
    \E says \in BOOLEAN : turn' = [Go("act") EXCEPT !.says = says, !.llm = turn.llm]

Asked(write) == mem.sig = write

\* confirm_node, a write: it is held and its card goes out, unless the last
\* card asked the same.  Either way the code waits for an answer.
Hold ==
    /\ turn.pc = "confirm"
    /\ ~turn.read
    /\ LET new == ~Asked(turn.write)
       IN turn' = [Go("act") EXCEPT !.llm = "awaiting_answer", !.says = new,
                                    !.card = IF new THEN turn.write ELSE NoWrite]
    /\ mem' = [mem EXCEPT !.pending = turn.write, !.sig = turn.write]
    /\ refused' = refused \ {turn.write}
    /\ UNCHANGED <<chat, inbox, handled, waiting, left, approvals, used>>

\* Mutant: the hop is not counted.
UncomposedFree ==
    /\ turn.pc = "confirm"
    /\ ~turn.read
    /\ \/ turn.hops < MaxHops /\ turn' = Go("reason")
       \/ turn.hops >= MaxHops /\ LastWords
    /\ UNCHANGED <<chat, inbox, handled, waiting, mem, left, approvals, refused, used>>

\* confirm_node, a write whose card cannot be composed: the model is asked
\* to put the question itself.
Uncomposed ==
    /\ turn.pc = "confirm"
    /\ ~turn.read
    /\ \/ /\ turn.hops < MaxHops
          /\ turn' = [Go("reason") EXCEPT !.hops = @ + 1]
       \/ /\ turn.hops >= MaxHops
          /\ LastWords
    /\ UNCHANGED <<chat, inbox, handled, waiting, mem, left, approvals, refused, used>>

-----------------------------------------------------------------------------
(* A turn: running the actions.                                            *)

Results == {"ok", "transient", "failed"}

Outcome(result) == IF result = "ok" THEN UNCHANGED used ELSE Fault("outage")

\* execute_node on a search: the event it finds may be changed from now on.
Find ==
    /\ turn.pc = "execute"
    /\ turn.read
    /\ \E result \in Results, found \in BOOLEAN :
          /\ Outcome(result)
          /\ found => result = "ok"
          /\ turn' = [turn EXCEPT !.pc = "respond", !.hops = @ + 1, !.result = result]
          /\ mem' = [mem EXCEPT !.surfaced = @ \/ found]
    /\ UNCHANGED <<chat, inbox, handled, waiting, left, approvals, refused>>

\* execute_node on the approved write: a change of an event no search of
\* this loop has surfaced is turned away, any other write is called.
Run ==
    /\ turn.pc = "execute"
    /\ ~turn.read
    /\ turn' = IF turn.write \in Changes /\ ~mem.surfaced
               THEN [Go("respond") EXCEPT !.hops = @ + 1, !.result = "failed"]
               ELSE [turn EXCEPT !.pc = "call", !.hops = @ + 1]
    /\ UNCHANGED <<chat, inbox, handled, waiting, mem, left, approvals, refused, used>>

\* _attempts_for: what may notify the guests again is tried once.
Attempts(write) == IF write \in Changes \ Quiet THEN 1 ELSE MaxAttempts

\* One try.  What reaches the calendar, and what its guests hear, is Events.
Call ==
    /\ turn.pc = "call"
    /\ \E result \in Results :
          LET tries == turn.tries + 1
              again == result = "transient" /\ tries < Attempts(turn.write)
          IN /\ Outcome(result)
             /\ turn' = [turn EXCEPT !.pc = IF again THEN "call" ELSE "respond",
                                     !.tries = tries, !.result = result]
    /\ UNCHANGED <<chat, inbox, handled, waiting, mem, left, approvals, refused>>

-----------------------------------------------------------------------------
(* A turn: the reply.                                                      *)

\* respond_node: a search for the event to cancel that finds just it is
\* answered with the card of the cancellation.
Resolved ==
    /\ turn.pc = "respond"
    /\ turn.read /\ turn.result = "ok" /\ mem.surfaced
    /\ \E write \in Changes :
          turn' = [Go("confirm") EXCEPT !.write = write, !.llm = turn.llm]
    /\ UNCHANGED <<chat, inbox, handled, waiting, mem, left, approvals, refused, used>>

\* respond_node: what succeeded is told in code.
Tell ==
    /\ turn.pc = "respond"
    /\ turn.result = "ok"
    /\ turn' = [Go("act") EXCEPT !.says = TRUE, !.llm = turn.llm]
    /\ UNCHANGED <<chat, inbox, handled, waiting, mem, left, approvals, refused, used>>

\* respond_node: what could not reach the calendar is told in code, and the
\* write on hold is dropped.
Report ==
    /\ turn.pc = "respond"
    /\ turn.result = "transient"
    /\ turn' = [Go("act") EXCEPT !.says = TRUE, !.llm = turn.llm]
    /\ mem' = [mem EXCEPT !.pending = NoWrite, !.sig = NoWrite]
    /\ refused' = refused \cup ({mem.pending} \ {NoWrite})
    /\ UNCHANGED <<chat, inbox, handled, waiting, left, approvals, used>>

\* respond_node: the model reads every other result, and any result in a
\* language the code has no words for, as long as there are hops left.
ReadBack ==
    /\ turn.pc = "respond"
    /\ \/ turn.hops < MaxHops /\ turn' = Go("reason")
       \/ turn.hops >= MaxHops /\ LastWords
    /\ UNCHANGED <<chat, inbox, handled, waiting, mem, left, approvals, refused, used>>

\* window_ttl: minutes while she waits for an answer.  gathering: her
\* workflow has open questions.
WindowTtl(gathering) ==
    IF turn.llm = "awaiting_answer" \/ mem.pending # NoWrite \/ gathering THEN 2 ELSE 1

\* act_node's window: a close shuts it, a turn that says nothing never
\* shortens it.
WindowAfter(sent, gathering) ==
    LET ttl == WindowTtl(gathering)
    IN IF turn.llm = "close" THEN 0
       ELSE IF ~sent /\ left > ttl THEN left ELSE ttl

\* act_node: the reply is sent, or fails to be, or is in the chat although
\* its answer was lost; a card known to be out is remembered with its place
\* in the chat; and the turn gives up the lock.
Act ==
    /\ turn.pc = "act"
    /\ \E sent \in {turn.says, FALSE}, there \in {turn.says, FALSE} :
          /\ IF sent = turn.says THEN there = sent /\ UNCHANGED used ELSE Fault("unsent")
          /\ left' \in {WindowAfter(sent, gathering) : gathering \in BOOLEAN}
          /\ chat' = IF there
                     THEN Append(chat, [by |-> "lisa", tag |-> FALSE, says |-> "other",
                                        card |-> turn.card])
                     ELSE chat
          /\ mem' = IF sent /\ turn.card # NoWrite
                    THEN [mem EXCEPT !.card = [id |-> Len(chat) + 1, what |-> turn.card]]
                    ELSE mem
    /\ turn' = Idle
    /\ UNCHANGED <<inbox, handled, waiting, approvals, refused>>

-----------------------------------------------------------------------------
TurnNext ==
    \/ Gate \/ Context \/ Resolve
    \/ Answer \/ Propose \/ Search \/ Hold \/ Uncomposed
    \/ Find \/ Run \/ Call
    \/ Resolved \/ Tell \/ Report \/ ReadBack \/ Act

Next ==
    \/ \E msg \in Speech : Post(msg)
    \/ \E m \in Ids : Deliver(m) \/ Redeliver(m)
    \/ Crash \/ Abort \/ Tick
    \/ TurnNext

Spec == Init /\ [][Next]_vars

-----------------------------------------------------------------------------
(* Properties.                                                             *)

\* What context.py:405-408 and state.py:54 say without a condition: no message
\* of his is allowed to approve anything twice.
YesApprovesOnce ==
    \A i, j \in DOMAIN approvals :
        i # j => approvals[i].by \cap approvals[j].by = {}

\* The two losses of memory after which the code reads a message of his
\* again: a fresh tag whose query for his messages failed does not know what
\* he said before it, and a process that started again does not know which
\* webhooks the one before it took.
Forgot == "blank" \in Range(used) \/ {"crash", "redeliver"} \subseteq Range(used)

\* As long as neither has happened, one message of his sends at most one
\* write to the calendar, whatever else goes wrong: a yes that an earlier
\* turn read ahead of its own, that is delivered late or twice, that a turn
\* with half the chat or with a late store reads past, or that a tag finds
\* again above is not taken for a second yes.  And nobody else's sends any.
OneYesOneWrite ==
    /\ \A a \in Range(approvals) : a.by # {} /\ a.by \subseteq By("owner", Ids)
    /\ Forgot \/ YesApprovesOnce

Cards(what) == {c \in By("lisa", Ids) : chat[c].card = what}

\* A yes that a fresh tag finds in the chat above is an answer to the card of
\* that very write (carry.py): the card is in the chat, his yes comes after
\* it, and between the two she has said nothing and he nothing but another
\* yes or the tag itself.
CarriedWasSeen ==
    \A a \in Range(approvals) :
        a.carried => \A y \in {m \in a.by : ~chat[m].tag} :
            \E c \in Cards(a.what) :
                /\ c < y
                /\ By("lisa", c + 1..y) = {}
                /\ \A r \in By("owner", c + 1..y) :
                      chat[r].says = "yes" \/ (chat[r].tag /\ chat[r].says = "nudge")

\* What carry.py:1 says of every yes that a fresh tag carries to the held
\* write: it is under the card of that write, also when it is the tag's own.
CarriedUnderCard ==
    \A a \in Range(approvals) :
        a.carried => \A y \in a.by : \E c \in Cards(a.what) : c < y

\* A proposal that he declined, that a fresh tag abandoned or that was
\* dropped after a failure is not approved before it is proposed again.
RefusedStaysRefused == \A i \in DOMAIN approvals : ~approvals[i].off

\* No message of his that gets through the gate goes unread: by the time his
\* own turn asks what he answered, that turn or an earlier one has read it,
\* although the store may be late and its queries fail.
OwnerIsHeard ==
    turn.pc \notin {"idle", "context"} /\ chat[turn.m].by = "owner"
        => turn.m \in mem.seen

\* What a turn has left to do: fewer hops first, then the nodes in order.
Stage == [idle |-> 0, act |-> 1, execute |-> 2, confirm |-> 3, reason |-> 4,
          respond |-> 5, call |-> 6, resolve |-> 6, context |-> 7]
Rank == (MaxHops + 2 - turn.hops) * (MaxAttempts + 9)
            + Stage[turn.pc] + (IF turn.pc = "call" THEN MaxAttempts - turn.tries ELSE 0)

\* Every step takes a turn nearer to its end, so no turn and no wait for the
\* lock behind it goes on for ever: the model cannot keep a chat in its loop
\* of searches, unasked questions and read-backs.
TurnsWindDown ==
    [][turn.pc # "idle" /\ turn' # turn => turn'.pc = "idle" \/ Rank' \in 0..Rank - 1]_vars

=============================================================================
