------------------------------ MODULE Dispatcher ------------------------------
(***************************************************************************)
(* The dispatcher: the one webhook of the number, which sends every        *)
(* message of a chat on to the flow that owns it.  The owner of the chat   *)
(* is kept in a store for as long as the flow's window may be open.  Every *)
(* webhook is a coroutine of its own, so two of them interleave at each    *)
(* call of the store; what is forwarded travels in the background and      *)
(* arrives in any order.                                                   *)
(*                                                                         *)
(* One chat.  Time is a tick; a key of the store and a flow's window are   *)
(* the ticks they have left.                                               *)
(***************************************************************************)
EXTENDS Naturals, Sequences, FiniteSets

CONSTANTS
    Flows,          \* the flows, each under a tag of its own
    NoFlow,         \* no flow
    AutoTranscribe, \* AUTO_TRANSCRIBE_URL: the flow every voice note goes to
    WindowTtl,      \* WINDOW_TTL: how long an owner is kept
    FlowTtl,        \* the longest window of a flow
    Latency,        \* how long a flow may take from a message to its reply
    MaxMessages,    \* bound: how many messages the chat has
    Posted,         \* bound: which ones
    MaxLosses       \* bound: crashes, failed forwards and store errors

\* tag: the flow whose tag the text starts with; echo: a flow's own reply,
\* which comes back as the owner's.
Messages ==
    [by : {"owner", "contact"}, tag : Flows \cup {NoFlow}, kind : {"text"}]
        \cup [by : {"owner", "contact"}, tag : {NoFlow}, kind : {"audio"}]
        \cup [by : {"owner"}, tag : {NoFlow}, kind : {"echo"}]

\* docker-compose.yml keeps WINDOW_TTL at the flow's window plus the time it
\* has for a turn.
ASSUME DispatcherAssumption ==
    /\ NoFlow \notin Flows
    /\ Posted \subseteq Messages
    /\ AutoTranscribe \in Flows \cup {NoFlow}
    /\ {WindowTtl, FlowTtl, Latency, MaxMessages, MaxLosses} \subseteq Nat
    /\ FlowTtl > 0
    /\ WindowTtl >= FlowTtl + Latency

VARIABLES
    chat,      \* the messages of the chat, oldest first
    requests,  \* webhooks in progress
    owner,     \* the store: the owner of the chat, and the ticks left to the key
    mail,      \* what is forwarded and not dealt with, and for how long
    window,    \* the ticks left to each flow's window
    reached,   \* history: what each flow has been sent, as <<message, flow>>
    losses     \* faults so far

vars == <<chat, requests, owner, mail, window, reached, losses>>

Nobody == [flow |-> NoFlow, ttl |-> 0]

Init ==
    /\ chat = <<>>
    /\ requests = {}
    /\ owner = Nobody
    /\ mail = {}
    /\ window = [f \in Flows |-> 0]
    /\ reached = {}
    /\ losses = 0

-----------------------------------------------------------------------------
(* The webhook.                                                            *)

Ids == 1..Len(chat)
Own(m) == chat[m].kind = "echo"

\* Mutant: whoever types the tag summons.
AnyoneSummons(m) == chat[m].tag

Summons(m) == IF chat[m].by = "owner" THEN chat[m].tag ELSE NoFlow

\* Evolution posts a message of the chat.
Post(msg) ==
    /\ Len(chat) < MaxMessages
    /\ chat' = Append(chat, msg)
    /\ requests' = requests \cup {[m |-> Len(chat) + 1, pc |-> "route", flow |-> NoFlow]}
    /\ UNCHANGED <<owner, mail, window, reached, losses>>

\* A voice note goes to the transcribing flow whoever owns the chat.
Listeners(m) == IF chat[m].kind = "audio" THEN {AutoTranscribe} \ {NoFlow} ELSE {}

\* The background tasks of a request: one for each flow it is meant for.
Forward(m, flows) ==
    mail' = mail \cup {[m |-> m, flow |-> f, age |-> 0, pc |-> "sent"] : f \in flows}

\* Mutant: an owner is kept just as long as a flow's window.
ClaimShort(f) == owner' = [flow |-> f, ttl |-> FlowTtl]

Claim(f) == owner' = [flow |-> f, ttl |-> WindowTtl]

\* Mutant: a tag that changes nothing is not sent on.
SummonOnce(r) ==
    /\ r.pc = "route"
    /\ Summons(r.m) # NoFlow
    /\ Claim(Summons(r.m))
    /\ Forward(r.m, Listeners(r.m) \cup ({Summons(r.m)} \ {owner.flow}))
    /\ requests' = requests \ {r}
    /\ UNCHANGED <<chat, window, reached, losses>>

\* owners.set on the owner's tag: the flow of the tag owns the chat.
Summon(r) ==
    /\ r.pc = "route"
    /\ Summons(r.m) # NoFlow
    /\ Claim(Summons(r.m))
    /\ Forward(r.m, Listeners(r.m) \cup {Summons(r.m)})
    /\ requests' = requests \ {r}
    /\ UNCHANGED <<chat, window, reached, losses>>

\* owners.get on any other message: it goes to the owner, at once when it is
\* a flow's own reply; with no owner it is dropped, but a voice note.
Look(r) ==
    /\ r.pc = "route"
    /\ Summons(r.m) = NoFlow
    /\ IF owner.ttl > 0 /\ ~Own(r.m)
       THEN /\ requests' = (requests \ {r}) \cup {[r EXCEPT !.pc = "refresh", !.flow = owner.flow]}
            /\ UNCHANGED mail
       ELSE /\ requests' = requests \ {r}
            /\ Forward(r.m, Listeners(r.m) \cup (IF owner.ttl > 0 THEN {owner.flow} ELSE {}))
    /\ UNCHANGED <<chat, owner, window, reached, losses>>

\* owners.set on genuine conversation: the flow that was read stays the owner.
Refresh(r) ==
    /\ r.pc = "refresh"
    /\ Claim(r.flow)
    /\ Forward(r.m, Listeners(r.m) \cup {r.flow})
    /\ requests' = requests \ {r}
    /\ UNCHANGED <<chat, window, reached, losses>>

-----------------------------------------------------------------------------
(* The flows: their gates and their windows.                               *)

Quiet(f) == \A p \in mail : p.flow = f => p.pc = "sent"

\* A flow's gate, behind the lock of the chat: the owner's tag opens the
\* window, any message but her own is a turn while the window is open.
Receive(p) ==
    /\ p.pc = "sent"
    /\ Quiet(p.flow)
    /\ reached' = reached \cup {<<p.m, p.flow>>}
    /\ \/ /\ Summons(p.m) = p.flow
          /\ \E ttl \in 1..FlowTtl : window' = [window EXCEPT ![p.flow] = ttl]
          /\ mail' = (mail \ {p}) \cup {[p EXCEPT !.pc = "turn"]}
       \/ /\ Summons(p.m) # p.flow
          /\ window[p.flow] > 0 /\ ~Own(p.m)
          /\ mail' = (mail \ {p}) \cup {[p EXCEPT !.pc = "turn"]}
          /\ UNCHANGED window
       \/ /\ Summons(p.m) # p.flow
          /\ window[p.flow] = 0 \/ Own(p.m)
          /\ mail' = mail \ {p}
          /\ UNCHANGED window
    /\ UNCHANGED <<chat, requests, owner, losses>>

\* The end of a flow's turn: it shuts its window or opens it for some time.
Reply(p) ==
    /\ p.pc = "turn"
    /\ mail' = mail \ {p}
    /\ \E ttl \in 0..FlowTtl : window' = [window EXCEPT ![p.flow] = ttl]
    /\ UNCHANGED <<chat, requests, owner, reached, losses>>

Less(n) == IF n = 0 THEN 0 ELSE n - 1

\* A tick.  No flow takes longer over a message than Latency.
Tick ==
    /\ \A p \in mail : p.age < Latency
    /\ owner' = IF owner.ttl <= 1 THEN Nobody ELSE [owner EXCEPT !.ttl = @ - 1]
    /\ window' = [f \in Flows |-> Less(window[f])]
    /\ mail' = {[p EXCEPT !.age = @ + 1] : p \in mail}
    /\ owner.ttl > 0 \/ mail # {} \/ \E f \in Flows : window[f] > 0
    /\ UNCHANGED <<chat, requests, reached, losses>>

-----------------------------------------------------------------------------
(* Faults.                                                                 *)

Lose ==
    /\ losses < MaxLosses
    /\ losses' = losses + 1
    /\ UNCHANGED <<chat, owner, window, reached>>

\* The store answers a request with an error, and its message goes nowhere.
StoreFails(r) ==
    /\ requests' = requests \ {r}
    /\ UNCHANGED mail
    /\ Lose

\* _forward fails, or the flow dies with the message.
ForwardFails(p) ==
    /\ mail' = mail \ {p}
    /\ UNCHANGED requests
    /\ Lose

\* The dispatcher dies: the store is Redis and keeps the owner.
Crash ==
    /\ requests' = {}
    /\ mail' = {p \in mail : p.pc # "sent"}
    /\ Lose

-----------------------------------------------------------------------------
Handle(m) == \E r \in {q \in requests : q.m = m} : Summon(r) \/ Look(r) \/ Refresh(r)
Deal(m) == \E p \in {q \in mail : q.m = m} : Receive(p) \/ Reply(p)

Next ==
    \/ \E msg \in Posted : Post(msg)
    \/ \E r \in requests : Summon(r) \/ Look(r) \/ Refresh(r) \/ StoreFails(r)
    \/ \E p \in mail : Receive(p) \/ Reply(p) \/ ForwardFails(p)
    \/ Tick \/ Crash

Spec == Init /\ [][Next]_vars

\* The event loops of the dispatcher and of the flows go on with what has
\* been posted, and a lock is handed to whoever waits for it.
FairSpec == Spec /\ \A m \in 1..MaxMessages : WF_vars(Handle(m)) /\ SF_vars(Deal(m))

-----------------------------------------------------------------------------
(* Properties.                                                             *)

Requests(M) == [m : M, pc : {"route"}, flow : {NoFlow}]
                   \cup [m : M, pc : {"refresh"}, flow : Flows]
Mail(M) == [m : M, flow : Flows, age : 0..Latency, pc : {"sent", "turn"}]

TypeOK ==
    /\ chat \in Seq(Messages)
    /\ requests \subseteq Requests(Ids)
    /\ owner \in [flow : Flows, ttl : 1..WindowTtl] \cup {Nobody}
    /\ mail \subseteq Mail(Ids)
    /\ window \in [Flows -> 0..FlowTtl]
    /\ reached \subseteq Ids \X Flows
    /\ losses \in 0..MaxLosses

\* A message is dropped for want of an owner only when no flow would take it:
\* as long as a window is open the chat has an owner, although the key counts
\* from his last message and the window from the flow's reply.
NoContinuationDropped == \A f \in Flows : window[f] > 0 => owner.ttl > 0

\* Nothing but the owner's own tag lets a flow into the chat: neither a
\* contact's tag, nor a voice note, nor the echo of another flow's reply.
OnlyHeSummons ==
    \A f \in Flows : window[f] > 0 \/ (owner.ttl > 0 /\ owner.flow = f)
        => \E m \in Ids : chat[m].by = "owner" /\ chat[m].tag = f

Arrived(m) == losses > 0 \/ Summons(m) = NoFlow \/ <<m, Summons(m)>> \in reached

\* What he asks of a flow by its tag reaches it, unless something fails.
SummonArrives == \A m \in 1..MaxMessages : m \in Ids ~> m \in Ids /\ Arrived(m)

=============================================================================
