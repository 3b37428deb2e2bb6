---------------------------- MODULE MCConversation ----------------------------
(***************************************************************************)
(* Small instances of Conversation.                                        *)
(***************************************************************************)
EXTENDS Conversation

Owner(says) == Human("owner", FALSE, says)
Tag(says) == Human("owner", TRUE, says)
Contact(says) == Human("contact", FALSE, says)

\* What the small instances say: a tag that is a yes to the card above it and
\* a request when there is none, his answers, and a contact who agrees.
Talk == {Tag("yes"), Owner("yes"), Owner("no"), Contact("yes")}

\* The chat starts with his request, and its last word is his yes.
Opened == chat = <<>> \/ chat[1].tag
EndsOnHisYes ==
    LET human == Ids \ By("lisa", Ids)
        last == chat[Newest(human)]
    IN Cardinality(human) = MaxHuman => last.by = "owner" /\ last.says = "yes"

\* Nobody looks at the chat but context and act, and the gate before context
\* does not: what comes while a turn is elsewhere might as well come before
\* the gate or before act.  And the window might as well run down just before
\* a gate, since act leaves the larger of what it finds and what it sets, or
\* sets it whatever it finds.  A fault that changes nothing is none.
Noticed ==
    /\ left' < left /\ UNCHANGED turn => turn.pc = "idle" /\ waiting # <<>>
    /\ <<chat, waiting>>' # <<chat, waiting>> /\ UNCHANGED turn => turn.pc \in {"idle", "act"}
    /\ UNCHANGED <<chat, inbox, handled, waiting, turn, mem, left>> => UNCHANGED used

\* Two faults are of those that decide which messages a turn reads, and when;
\* after them the model does not search.
Reading == {"crash", "late", "redeliver", "blind", "behind"}
Paired == Len(used) < 2 \/ (Range(used) \subseteq Reading /\ ~Forgot /\ ~turn.read)

\* When the last message has been answered, nothing more is read or approved.
AnotherTurn ==
    \/ Cardinality(Ids \ By("lisa", Ids)) < MaxHuman
    \/ waiting # <<>> \/ inbox # {}
    \/ turn.pc \in {"context", "resolve", "execute"}

\* Tags that say yes, and nothing goes wrong.
Tags == {Tag("yes")}
Never == {}
=============================================================================
