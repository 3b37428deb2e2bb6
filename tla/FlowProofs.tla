------------------------------ MODULE FlowProofs ------------------------------
(***************************************************************************)
(* Proofs about a flow, at its two ends.                                   *)
(*                                                                         *)
(* The dispatcher: types, that a chat whose window is open has an owner, and *)
(* that the owner's own tag let it in, for every number of flows and       *)
(* messages and every TTL that DispatcherAssumption allows.                *)
(*                                                                         *)
(* The review: what the judge is shown of a turn is the chat as it stood,  *)
(* and a loop that is marked has each of its turns graded, for every number *)
(* of loops and turns and every size of the queues and batches.  Both rest on *)
(* ReviewInv; at its core, a record's number parts the lines of its loop   *)
(* (Parted), which the writer keeps because what is queued comes after what *)
(* is stored (TableInv) and in the order of the turns (QueueInv).          *)
(***************************************************************************)
EXTENDS Dispatcher, Review, WellFoundedInduction, TLAPS

-----------------------------------------------------------------------------
(* Types.                                                                  *)

LEMMA TypeInit == Init => TypeOK
BY DispatcherAssumption DEF Init, TypeOK, Nobody, Ids

\* A new message leaves the numbers of the old ones what they were.
LEMMA PostGrows ==
    ASSUME TypeOK, NEW msg \in Messages, chat' = Append(chat, msg)
    PROVE  /\ chat' \in Seq(Messages)
           /\ Ids \subseteq Ids'
           /\ Len(chat) + 1 \in Ids'
           /\ \A m \in Ids : chat'[m] = chat[m]
           /\ chat'[Len(chat) + 1] = msg
BY DEF TypeOK, Ids

LEMMA SummonsType ==
    ASSUME TypeOK, NEW m \in Ids
    PROVE  Summons(m) \in Flows \cup {NoFlow}
<1>1. chat[m] \in Messages
    BY DEF TypeOK, Ids
<1> QED
    BY <1>1 DEF Messages, Summons

\* What a request sends on is mail for the flows.
LEMMA ForwardType ==
    ASSUME TypeOK, NEW m \in Ids, NEW S \in SUBSET Flows, Forward(m, S)
    PROVE  mail' \subseteq Mail(Ids)
BY DispatcherAssumption DEF TypeOK, Forward, Mail

LEMMA ListenersType == ASSUME NEW m PROVE Listeners(m) \in SUBSET Flows
BY DispatcherAssumption DEF Listeners

LEMMA ClaimType ==
    ASSUME NEW f \in Flows, Claim(f)
    PROVE  owner' \in [flow : Flows, ttl : 1..WindowTtl]
BY DispatcherAssumption DEF Claim

LEMMA TypePost ==
    ASSUME TypeOK, NEW msg \in Posted, Post(msg)
    PROVE  TypeOK'
<1>1. msg \in Messages
    BY DispatcherAssumption
<1>2. /\ chat' \in Seq(Messages)
      /\ Ids \subseteq Ids'
      /\ Len(chat) + 1 \in Ids'
    BY <1>1, PostGrows DEF Post
<1>3. requests' \subseteq Requests(Ids')
    BY <1>2 DEF Post, TypeOK, Requests
<1>4. mail' \subseteq Mail(Ids')
    BY <1>2 DEF Post, TypeOK, Mail
<1>5. reached' \subseteq Ids' \X Flows
    BY <1>2 DEF Post, TypeOK
<1> QED
    BY <1>2, <1>3, <1>4, <1>5 DEF Post, TypeOK

\* A step that leaves the chat alone and keeps the rest well-typed.
LEMMA TypeKept ==
    ASSUME TypeOK, UNCHANGED chat,
           requests' \subseteq Requests(Ids), mail' \subseteq Mail(Ids),
           owner' \in [flow : Flows, ttl : 1..WindowTtl] \cup {Nobody},
           window' \in [Flows -> 0..FlowTtl], reached' \subseteq Ids \X Flows,
           losses' \in 0..MaxLosses
    PROVE  TypeOK'
<1>1. Ids' = Ids
    BY DEF Ids
<1> QED
    BY <1>1 DEF TypeOK

LEMMA TypeRequest ==
    ASSUME TypeOK, NEW r \in requests, Summon(r) \/ Look(r) \/ Refresh(r)
    PROVE  TypeOK'
<1>1. r \in Requests(Ids) /\ r.m \in Ids
    BY DEF TypeOK, Requests
<1>2. Summons(r.m) \in Flows \cup {NoFlow} /\ Listeners(r.m) \in SUBSET Flows
    BY <1>1, SummonsType, ListenersType
<1>3. owner.ttl > 0 => owner.flow \in Flows
    BY DEF TypeOK, Nobody
<1>4. CASE Summon(r)
    <2>1. mail' \subseteq Mail(Ids)
        BY <1>1, <1>2, <1>4, ForwardType DEF Summon
    <2>2. owner' \in [flow : Flows, ttl : 1..WindowTtl]
        BY <1>2, <1>4, ClaimType DEF Summon
    <2> QED
        BY <1>2, <1>4, <2>1, <2>2, TypeKept DEF Summon, TypeOK
<1>5. CASE Look(r)
    <2>1. CASE owner.ttl > 0 /\ ~Own(r.m)
        <3>1. [r EXCEPT !.pc = "refresh", !.flow = owner.flow] \in Requests(Ids)
            BY <1>1, <1>3, <2>1 DEF Requests
        <3>2. requests' \subseteq Requests(Ids)
            BY <1>5, <2>1, <3>1 DEF Look, TypeOK
        <3> QED
            BY <1>5, <2>1, <3>2, TypeKept DEF Look, TypeOK
    <2>2. CASE ~(owner.ttl > 0 /\ ~Own(r.m))
        <3> DEFINE S == Listeners(r.m) \cup (IF owner.ttl > 0 THEN {owner.flow} ELSE {})
        <3>1. S \in SUBSET Flows
            BY <1>2, <1>3
        <3>2. Forward(r.m, S)
            BY <1>5, <2>2 DEF Look
        <3>3. mail' \subseteq Mail(Ids)
            BY <1>1, <3>1, <3>2, ForwardType
        <3> QED
            BY <1>5, <2>2, <3>3, TypeKept DEF Look, TypeOK
    <2> QED
        BY <2>1, <2>2
<1>6. CASE Refresh(r)
    <2>1. r.flow \in Flows
        BY <1>1, <1>6 DEF Refresh, Requests
    <2>2. mail' \subseteq Mail(Ids)
        BY <1>1, <1>2, <1>6, <2>1, ForwardType DEF Refresh
    <2>3. owner' \in [flow : Flows, ttl : 1..WindowTtl]
        BY <1>6, <2>1, ClaimType DEF Refresh
    <2> QED
        BY <1>6, <2>2, <2>3, TypeKept DEF Refresh, TypeOK
<1> QED
    BY <1>4, <1>5, <1>6

LEMMA TypeFlow ==
    ASSUME TypeOK, NEW p \in mail, Receive(p) \/ Reply(p)
    PROVE  TypeOK'
<1>1. p \in Mail(Ids) /\ p.m \in Ids /\ p.flow \in Flows
    BY DEF TypeOK, Mail
<1>2. CASE Receive(p)
    <2>1. window' \in [Flows -> 0..FlowTtl]
        BY <1>1, <1>2, DispatcherAssumption DEF Receive, TypeOK
    <2>2. mail' \subseteq Mail(Ids)
        BY <1>1, <1>2 DEF Receive, TypeOK, Mail
    <2>3. reached' \subseteq Ids \X Flows
        BY <1>1, <1>2 DEF Receive, TypeOK
    <2> QED
        BY <1>2, <2>1, <2>2, <2>3, TypeKept DEF Receive, TypeOK
<1>3. CASE Reply(p)
    <2>1. window' \in [Flows -> 0..FlowTtl]
        BY <1>1, <1>3, DispatcherAssumption DEF Reply, TypeOK
    <2> QED
        BY <1>3, <2>1, TypeKept DEF Reply, TypeOK
<1> QED
    BY <1>2, <1>3

LEMMA TypeTick == ASSUME TypeOK, Tick PROVE TypeOK'
<1>1. owner' \in [flow : Flows, ttl : 1..WindowTtl] \cup {Nobody}
    <2>1. CASE owner.ttl <= 1
        BY <2>1 DEF Tick
    <2>2. CASE ~(owner.ttl <= 1)
        <3>1. owner \in [flow : Flows, ttl : 1..WindowTtl]
            BY <2>2 DEF TypeOK, Nobody
        <3>2. owner' = [owner EXCEPT !.ttl = @ - 1]
            BY <2>2 DEF Tick
        <3>3. owner.ttl - 1 \in 1..WindowTtl
            BY <2>2, <3>1, DispatcherAssumption
        <3> QED
            BY <3>1, <3>2, <3>3
    <2> QED
        BY <2>1, <2>2
<1>2. window' \in [Flows -> 0..FlowTtl]
    BY DispatcherAssumption DEF Tick, TypeOK, Less
<1>3. ASSUME NEW p \in mail PROVE [p EXCEPT !.age = @ + 1] \in Mail(Ids)
    <2>1. p \in Mail(Ids) /\ p.age \in 0..Latency /\ p.age < Latency
        BY DEF Tick, TypeOK, Mail
    <2>2. p.age + 1 \in 0..Latency
        BY <2>1, DispatcherAssumption
    <2> QED
        BY <2>1, <2>2 DEF Mail
<1>4. mail' \subseteq Mail(Ids)
    BY <1>3 DEF Tick
<1> QED
    BY <1>1, <1>2, <1>4, TypeKept DEF Tick, TypeOK

\* A fault only takes requests and mail away.
Fault == Crash \/ (\E r \in requests : StoreFails(r)) \/ (\E p \in mail : ForwardFails(p))

LEMMA FaultTakes ==
    ASSUME TypeOK, Fault
    PROVE  /\ requests' \subseteq requests /\ mail' \subseteq mail
           /\ UNCHANGED <<chat, owner, window, reached>>
           /\ losses' \in 0..MaxLosses
BY DispatcherAssumption DEF Fault, Crash, StoreFails, ForwardFails, Lose, TypeOK

LEMMA TypeNext == TypeOK /\ [Next]_vars => TypeOK'
<1> SUFFICES ASSUME TypeOK, [Next]_vars PROVE TypeOK'
    OBVIOUS
<1>1. ASSUME NEW msg \in Posted, Post(msg) PROVE TypeOK'
    BY <1>1, TypePost
<1>2. ASSUME NEW r \in requests, Summon(r) \/ Look(r) \/ Refresh(r) PROVE TypeOK'
    BY <1>2, TypeRequest
<1>3. ASSUME NEW p \in mail, Receive(p) \/ Reply(p) PROVE TypeOK'
    BY <1>3, TypeFlow
<1>4. CASE Tick
    BY <1>4, TypeTick
<1>5. CASE Fault
    BY <1>5, FaultTakes, TypeKept DEF TypeOK
<1>6. CASE UNCHANGED vars
    BY <1>6, TypeKept DEF vars, TypeOK
<1> QED
    BY <1>1, <1>2, <1>3, <1>4, <1>5, <1>6 DEF Next, Fault

\* The variables of the dispatcher hold what TypeOK says.
THEOREM TypeCorrect == Spec => []TypeOK
BY TypeInit, TypeNext, PTL DEF Spec

-----------------------------------------------------------------------------
(* A chat with an open window has an owner.                                *)

\* The key has been set, or set again, since this message was sent on.
Paid(p) == owner.ttl + p.age >= WindowTtl

\* A turn and a tag on its way to the gate open the window without asking, so
\* the key was set when they were sent on.  Any other message opens it only
\* while it is open, so a key that is there is enough; an echo never does.
Covered(p) ==
    /\ p.pc = "turn" \/ Summons(p.m) = p.flow => Paid(p)
    /\ Own(p.m) \/ owner.ttl = 0 \/ Paid(p)

WindowsCovered == \A f \in Flows : window[f] <= owner.ttl

CInv == TypeOK /\ WindowsCovered /\ \A p \in mail : Covered(p)

LEMMA TtlType ==
    ASSUME TypeOK
    PROVE  /\ owner.ttl \in 0..WindowTtl
           /\ \A p \in mail : /\ p \in Mail(Ids) /\ p.m \in Ids /\ p.flow \in Flows
                              /\ p.age \in 0..Latency /\ p.pc \in {"sent", "turn"}
           /\ \A f \in Flows : window[f] \in 0..FlowTtl
BY DispatcherAssumption DEF TypeOK, Nobody, Mail

LEMMA InitCovered == Init => CInv
BY TypeInit, DispatcherAssumption DEF Init, CInv, WindowsCovered, Nobody

\* Setting the key covers whatever is on its way.
LEMMA ClaimCovers ==
    ASSUME CInv, NEW f \in Flows, Claim(f), UNCHANGED <<chat, window>>
    PROVE  (\A p \in Mail(Ids) : Covered(p)') /\ WindowsCovered'
<1>1. owner'.ttl = WindowTtl /\ WindowTtl \in Nat /\ FlowTtl \in Nat /\ FlowTtl <= WindowTtl
    BY DispatcherAssumption DEF Claim
<1>2. \A p \in Mail(Ids) : p.age \in Nat
    BY DispatcherAssumption DEF Mail
<1>3. \A p \in Mail(Ids) : Paid(p)'
    BY <1>1, <1>2 DEF Paid
<1>4. \A g \in Flows : window[g] \in 0..FlowTtl
    BY TtlType DEF CInv
<1> QED
    BY <1>1, <1>3, <1>4 DEF Covered, WindowsCovered

LEMMA PostCovered ==
    ASSUME CInv, NEW msg \in Posted, Post(msg)
    PROVE  (\A p \in mail : Covered(p))' /\ WindowsCovered'
<1>1. \A m \in Ids : chat'[m] = chat[m]
    BY PostGrows, DispatcherAssumption DEF Post, CInv
<1>2. \A p \in mail : p.m \in Ids
    BY TtlType DEF CInv
<1>3. \A p \in mail : Summons(p.m)' = Summons(p.m) /\ Own(p.m)' = Own(p.m)
    BY <1>1, <1>2 DEF Summons, Own
<1> QED
    BY <1>3 DEF Post, CInv, Covered, Paid, WindowsCovered

LEMMA RequestCovered ==
    ASSUME CInv, NEW r \in requests, Summon(r) \/ Look(r) \/ Refresh(r)
    PROVE  (\A p \in mail : Covered(p))' /\ WindowsCovered'
<1>0. TypeOK' /\ mail' \subseteq Mail(Ids) /\ TypeOK
    <2>1. TypeOK'
        BY TypeRequest DEF CInv
    <2>2. Ids' = Ids
        BY DEF Summon, Look, Refresh, Ids
    <2> QED
        BY <2>1, <2>2 DEF TypeOK, CInv
<1>1. r \in Requests(Ids) /\ r.m \in Ids
    BY <1>0 DEF TypeOK, Requests
<1>2. Summons(r.m) \in Flows \cup {NoFlow}
    BY <1>0, <1>1, SummonsType
<1>3. CASE Summon(r)
    BY <1>0, <1>2, <1>3, ClaimCovers DEF Summon
<1>4. CASE Refresh(r)
    <2>1. r.flow \in Flows
        BY <1>1, <1>4 DEF Refresh, Requests
    <2> QED
        BY <1>0, <1>4, <2>1, ClaimCovers DEF Refresh
<1>5. CASE Look(r)
    <2>1. ASSUME NEW p \in mail PROVE Covered(p)'
        BY <1>5 DEF Look, CInv, Covered, Paid, Summons, Own
    <2>2. ASSUME NEW p \in mail', p \notin mail PROVE Covered(p)'
        <3>1. p.m = r.m /\ p.pc = "sent" /\ p.flow \in Flows
            BY <1>0, <1>5, <2>2 DEF Look, Forward, Mail
        <3>2. Summons(r.m) = NoFlow /\ (owner.ttl = 0 \/ Own(r.m))
            BY <1>0, <1>5, <2>2, TtlType DEF Look
        <3>3. NoFlow \notin Flows
            BY DispatcherAssumption
        <3> QED
            BY <1>5, <3>1, <3>2, <3>3 DEF Look, Covered, Summons, Own
    <2> QED
        BY <1>5, <2>1, <2>2 DEF Look, CInv, WindowsCovered
<1> QED
    BY <1>3, <1>4, <1>5

\* A flow that the key was set for may open its window as wide as it likes.
LEMMA PaidOpens ==
    ASSUME TypeOK, NEW p \in mail, Paid(p)
    PROVE  FlowTtl <= owner.ttl
BY TtlType, DispatcherAssumption DEF Paid

LEMMA FlowCovered ==
    ASSUME CInv, NEW p \in mail, Receive(p) \/ Reply(p)
    PROVE  (\A q \in mail : Covered(q))' /\ WindowsCovered'
<1>0. TypeOK /\ Covered(p) /\ p \in Mail(Ids)
    BY TtlType DEF CInv
<1>1. \A q \in mail : Covered(q)'
    BY DEF CInv, Covered, Paid, Summons, Own, Receive, Reply
<1>2. CASE Reply(p)
    <2>1. FlowTtl <= owner.ttl
        BY <1>0, <1>2, PaidOpens DEF Reply, Covered
    <2>2. WindowsCovered'
        BY <1>0, <1>2, <2>1, TtlType, DispatcherAssumption DEF Reply, CInv, WindowsCovered, TypeOK
    <2> QED
        BY <1>1, <1>2, <2>2 DEF Reply
<1>3. CASE Receive(p)
    <2> DEFINE q == [p EXCEPT !.pc = "turn"]
    <2>1. CASE Summons(p.m) = p.flow
        <3>1. Paid(p)
            BY <1>0, <2>1 DEF Covered
        <3>2. FlowTtl <= owner.ttl
            BY <1>0, <3>1, PaidOpens
        <3>3. Covered(q)'
            BY <1>0, <1>3, <3>1 DEF Receive, Covered, Paid, Mail
        <3>4. WindowsCovered'
            BY <1>0, <1>3, <2>1, <3>2, TtlType, DispatcherAssumption
               DEF Receive, CInv, WindowsCovered, TypeOK
        <3> QED
            BY <1>1, <1>3, <2>1, <3>3, <3>4 DEF Receive
    <2>2. CASE Summons(p.m) # p.flow /\ window[p.flow] > 0 /\ ~Own(p.m)
        <3>1. owner.ttl > 0
            BY <1>0, <2>2, TtlType, DispatcherAssumption DEF CInv, WindowsCovered
        <3>2. Paid(p)
            BY <1>0, <2>2, <3>1 DEF Covered
        <3>3. Covered(q)'
            BY <1>0, <1>3, <3>2 DEF Receive, Covered, Paid, Mail
        <3> QED
            BY <1>1, <1>3, <2>2, <3>3 DEF Receive, CInv, WindowsCovered
    <2>3. CASE Summons(p.m) # p.flow /\ (window[p.flow] = 0 \/ Own(p.m))
        <3>1. mail' = mail \ {p} /\ UNCHANGED <<window, owner>>
            BY <1>0, <1>3, <2>3, TtlType, DispatcherAssumption DEF Receive
        <3> QED
            BY <1>1, <3>1 DEF CInv, WindowsCovered
    <2> QED
        BY <1>0, <2>1, <2>2, <2>3, TtlType, DispatcherAssumption
<1> QED
    BY <1>2, <1>3

\* A tick costs the key and a window one each, and makes what is on its way
\* one older.
LEMMA TickCovered ==
    ASSUME CInv, Tick
    PROVE  (\A p \in mail : Covered(p))' /\ WindowsCovered'
<1>0. TypeOK /\ owner.ttl \in 0..WindowTtl /\ {WindowTtl, FlowTtl, Latency} \subseteq Nat
    BY TtlType, DispatcherAssumption DEF CInv
<1>1. owner'.ttl = Less(owner.ttl)
    <2>1. owner \in [flow : Flows, ttl : 1..WindowTtl] \cup {Nobody}
        BY <1>0 DEF TypeOK
    <2> QED
        BY <1>0, <2>1 DEF Tick, Less, Nobody
<1>2. ASSUME NEW p \in mail PROVE Covered([p EXCEPT !.age = @ + 1])'
    <2> DEFINE q == [p EXCEPT !.age = @ + 1]
    <2>1. /\ p \in Mail(Ids) /\ p.age \in Nat /\ p.age < Latency
          /\ Covered(p)
        BY <1>0, TtlType DEF Tick, CInv
    <2>2. q.m = p.m /\ q.flow = p.flow /\ q.pc = p.pc /\ q.age = p.age + 1
        BY <2>1 DEF Mail
    <2>3. Paid(p) => Paid(q)'
        BY <1>0, <1>1, <2>1, <2>2, DispatcherAssumption DEF Paid, Less
    <2>4. owner.ttl = 0 => owner'.ttl = 0
        BY <1>1 DEF Less
    <2> QED
        BY <2>1, <2>2, <2>3, <2>4 DEF Covered, Tick, Summons, Own
<1>3. WindowsCovered'
    <2>1. ASSUME NEW f \in Flows PROVE Less(window[f]) <= Less(owner.ttl)
        BY <1>0, TtlType DEF CInv, WindowsCovered, Less
    <2> QED
        BY <1>1, <2>1 DEF Tick, WindowsCovered
<1> QED
    BY <1>2, <1>3 DEF Tick

LEMMA NextCovered == CInv /\ [Next]_vars => CInv'
<1> DEFINE Goal == (\A p \in mail : Covered(p))' /\ WindowsCovered'
<1> SUFFICES ASSUME CInv, [Next]_vars PROVE Goal
    BY TypeNext DEF CInv
<1>1. ASSUME NEW msg \in Posted, Post(msg) PROVE Goal
    BY <1>1, PostCovered
<1>2. ASSUME NEW r \in requests, Summon(r) \/ Look(r) \/ Refresh(r) PROVE Goal
    BY <1>2, RequestCovered
<1>3. ASSUME NEW p \in mail, Receive(p) \/ Reply(p) PROVE Goal
    BY <1>3, FlowCovered
<1>4. CASE Tick
    BY <1>4, TickCovered
<1>5. CASE Fault
    <2>1. mail' \subseteq mail /\ UNCHANGED <<chat, owner, window>>
        BY <1>5, FaultTakes DEF CInv
    <2> QED
        BY <2>1 DEF CInv, WindowsCovered, Covered, Paid, Summons, Own
<1>6. CASE UNCHANGED vars
    BY <1>6 DEF vars, CInv, WindowsCovered, Covered, Paid, Summons, Own
<1> QED
    BY <1>1, <1>2, <1>3, <1>4, <1>5, <1>6 DEF Next, Fault

\* A message is dropped for want of an owner only when every flow's window is
\* shut, whatever the TTLs, as long as WINDOW_TTL leaves a flow the time it
\* takes on top of its longest window.
THEOREM Continuations == Spec => []NoContinuationDropped
<1>1. CInv => NoContinuationDropped
    BY TtlType, DispatcherAssumption DEF CInv, WindowsCovered, NoContinuationDropped
<1> QED
    BY <1>1, InitCovered, NextCovered, PTL DEF Spec

-----------------------------------------------------------------------------
(* Whoever is in the chat was summoned.                                    *)

Summoned(f) == \E m \in Ids : chat[m].by = "owner" /\ chat[m].tag = f

\* So are the owner in the store, the owner a continuation is about to write
\* back, and the flow that is in a turn or listens.
HInv ==
    /\ TypeOK
    /\ owner.ttl > 0 => Summoned(owner.flow)
    /\ \A r \in requests : r.pc = "refresh" => Summoned(r.flow)
    /\ \A p \in mail : p.pc = "turn" => Summoned(p.flow)
    /\ \A f \in Flows : window[f] > 0 => Summoned(f)

\* No message is ever taken out of the chat.
LEMMA SummonedStays ==
    ASSUME TypeOK, [Next]_vars, NEW f, Summoned(f)
    PROVE  Summoned(f)'
<1>1. CASE UNCHANGED chat
    BY <1>1 DEF Summoned, Ids
<1>2. ASSUME NEW msg \in Posted, Post(msg) PROVE Summoned(f)'
    <2>1. Ids \subseteq Ids' /\ \A m \in Ids : chat'[m] = chat[m]
        BY <1>2, PostGrows, DispatcherAssumption DEF Post
    <2> QED
        BY <2>1 DEF Summoned
<1> QED
    BY <1>1, <1>2 DEF Next, vars, Summon, Look, Refresh, StoreFails, Receive, Reply,
        ForwardFails, Tick, Crash, Lose

\* The tag of a message of his is what Summoned asks for.
LEMMA TagSummons ==
    ASSUME NEW m \in Ids, Summons(m) # NoFlow
    PROVE  Summoned(Summons(m))
BY DEF Summons, Summoned

LEMMA HRequest ==
    ASSUME HInv, NEW r \in requests, Summon(r) \/ Look(r) \/ Refresh(r)
    PROVE  /\ owner'.ttl > 0 => Summoned(owner'.flow)
           /\ \A q \in requests' : q.pc = "refresh" => Summoned(q.flow)
           /\ \A p \in mail' : p.pc = "turn" => Summoned(p.flow)
<1>0. r.m \in Ids /\ r \in Requests(Ids)
    BY DEF HInv, TypeOK, Requests
<1>1. \A p \in mail' : p.pc = "turn" => p \in mail
    BY DEF Summon, Look, Refresh, Forward
<1>2. CASE Summon(r)
    BY <1>0, <1>1, <1>2, TagSummons DEF Summon, Claim, HInv
<1>3. CASE Refresh(r)
    BY <1>1, <1>3 DEF Refresh, Claim, HInv
<1>4. CASE Look(r)
    <2>1. ASSUME NEW q \in requests', q.pc = "refresh", q \notin requests
          PROVE  Summoned(q.flow)
        <3>1. q = [r EXCEPT !.pc = "refresh", !.flow = owner.flow] /\ owner.ttl > 0
            BY <1>4, <2>1 DEF Look
        <3>2. q.flow = owner.flow
            BY <1>0, <3>1 DEF Requests
        <3> QED
            BY <3>1, <3>2 DEF HInv
    <2> QED
        BY <1>1, <1>4, <2>1 DEF Look, HInv
<1> QED
    BY <1>2, <1>3, <1>4

LEMMA HFlow ==
    ASSUME HInv, NEW p \in mail, Receive(p) \/ Reply(p)
    PROVE  /\ \A q \in mail' : q.pc = "turn" => Summoned(q.flow)
           /\ \A f \in Flows : window'[f] > 0 => Summoned(f)
<1>0. /\ p \in Mail(Ids) /\ p.m \in Ids /\ p.flow \in Flows /\ NoFlow \notin Flows
      /\ window \in [Flows -> 0..FlowTtl]
    BY DispatcherAssumption DEF HInv, TypeOK, Mail
<1> DEFINE q == [p EXCEPT !.pc = "turn"]
<1>1. q.flow = p.flow
    BY <1>0 DEF Mail
<1>2. \A s \in mail' : s \in mail \/ s = q
    BY DEF Receive, Reply
<1>3. \A f \in Flows : f # p.flow => window'[f] = window[f]
    BY <1>0 DEF Receive, Reply
<1>4. CASE Summoned(p.flow)
    BY <1>1, <1>2, <1>3, <1>4 DEF HInv
<1>5. CASE ~Summoned(p.flow)
    <2>1. Summons(p.m) # p.flow
        BY <1>0, <1>5, TagSummons
    <2>2. window[p.flow] = 0 /\ p.pc # "turn"
        BY <1>0, <1>5 DEF HInv
    <2>3. mail' = mail \ {p} /\ UNCHANGED window
        BY <2>1, <2>2 DEF Receive, Reply
    <2> QED
        BY <2>3 DEF HInv
<1> QED
    BY <1>4, <1>5

LEMMA HTick ==
    ASSUME HInv, Tick
    PROVE  /\ owner'.ttl > 0 => Summoned(owner'.flow)
           /\ \A p \in mail' : p.pc = "turn" => Summoned(p.flow)
           /\ \A f \in Flows : window'[f] > 0 => Summoned(f)
<1>1. ASSUME NEW p \in mail
      PROVE  /\ [p EXCEPT !.age = @ + 1].pc = p.pc
             /\ [p EXCEPT !.age = @ + 1].flow = p.flow
    BY DEF HInv, TypeOK, Mail
<1>2. \A p \in mail' : p.pc = "turn" => Summoned(p.flow)
    <2>1. mail' = {[p EXCEPT !.age = @ + 1] : p \in mail}
        BY DEF Tick
    <2>2. \A p \in mail : p.pc = "turn" => Summoned(p.flow)
        BY DEF HInv
    <2>3. ASSUME NEW q \in mail', q.pc = "turn" PROVE Summoned(q.flow)
        <3>1. PICK p \in mail : q = [p EXCEPT !.age = @ + 1]
            BY <2>1
        <3>2. q.pc = p.pc /\ q.flow = p.flow
            BY <1>1, <3>1
        <3> QED
            BY <2>2, <2>3, <3>2
    <2> QED
        BY <2>3
<1>3. owner'.ttl > 0 => Summoned(owner'.flow)
    <2>1. owner \in [flow : Flows, ttl : 1..WindowTtl] \cup {Nobody} /\ WindowTtl \in Nat
        BY DispatcherAssumption DEF HInv, TypeOK
    <2> QED
        BY <2>1 DEF Tick, HInv, Nobody
<1>4. \A f \in Flows : window'[f] > 0 => window[f] > 0
    <2>1. \A f \in Flows : window[f] \in Nat
        BY DispatcherAssumption DEF HInv, TypeOK
    <2> QED
        BY <2>1 DEF Tick, Less
<1> QED
    BY <1>2, <1>3, <1>4 DEF HInv

LEMMA HNext == HInv /\ [Next]_vars => HInv'
<1> SUFFICES ASSUME HInv, [Next]_vars PROVE HInv'
    OBVIOUS
<1>0. TypeOK' /\ \A f : Summoned(f) => Summoned(f)'
    BY TypeNext, SummonedStays DEF HInv
<1> DEFINE Now ==
        /\ owner'.ttl > 0 => Summoned(owner'.flow)
        /\ \A r \in requests' : r.pc = "refresh" => Summoned(r.flow)
        /\ \A p \in mail' : p.pc = "turn" => Summoned(p.flow)
        /\ \A f \in Flows : window'[f] > 0 => Summoned(f)
<1>1. ASSUME NEW msg \in Posted, Post(msg) PROVE Now
    BY <1>1 DEF Post, HInv
<1>2. ASSUME NEW r \in requests, Summon(r) \/ Look(r) \/ Refresh(r) PROVE Now
    <2>1. UNCHANGED window
        BY <1>2 DEF Summon, Look, Refresh
    <2> QED
        BY <1>2, <2>1, HRequest DEF HInv
<1>3. ASSUME NEW p \in mail, Receive(p) \/ Reply(p) PROVE Now
    <2>1. UNCHANGED <<owner, requests>>
        BY <1>3 DEF Receive, Reply
    <2> QED
        BY <1>3, <2>1, HFlow DEF HInv
<1>4. ASSUME Tick PROVE Now
    BY <1>4, HTick DEF Tick, HInv
<1>5. ASSUME (\E r \in requests : StoreFails(r)) \/ (\E p \in mail : ForwardFails(p)) \/ Crash
      PROVE  Now
    BY <1>5 DEF StoreFails, ForwardFails, Crash, Lose, HInv
<1>6. ASSUME UNCHANGED vars PROVE Now
    BY <1>6 DEF vars, HInv
<1>7. Now
    BY <1>1, <1>2, <1>3, <1>4, <1>5, <1>6 DEF Next
<1> QED
    BY <1>0, <1>7 DEF HInv

\* Whatever a contact types, whatever is replayed and whatever is lost: a flow
\* owns a chat or listens to it only when the owner's own tag let it in.
THEOREM HeSummons == Spec => []OnlyHeSummons
<1>1. Init => HInv
    BY TypeInit DEF Init, HInv, Nobody
<1>2. HInv => OnlyHeSummons
    BY DEF HInv, OnlyHeSummons, Summoned
<1> QED
    BY <1>1, <1>2, HNext, PTL DEF Spec

-----------------------------------------------------------------------------
(* The review: what the log keeps true of a loop.                          *)

Entries == [loop : Loops, trace : Nat, kind : {"his", "hers", "record"}, of : Nat, closes : BOOLEAN]

\* Work is still to come in a loop.
Live(l) == busy[l] # 0 \/ phase[l] \in {"new", "open"}

\* What is in the tables and in the queue is of the turns there were; and the
\* running turn of a loop is its last, with no record yet.
TurnsInv ==
    /\ turns \in Nat /\ latest \in [Loops -> Nat]
    /\ busy \in [Loops -> Nat] /\ phase \in [Loops -> {"new", "open", "gone"}]
    /\ \A l \in Loops : busy[l] <= turns
    /\ \A e \in events \cup Range(queue) :
          /\ e.trace <= turns
          /\ busy[e.loop] # 0 => /\ e.trace <= busy[e.loop]
                                 /\ e.kind = "record" => e.trace < busy[e.loop]

\* In the queue the lines of a loop are in the order of their turns, the record
\* of a turn the last of it, and a record that closes the loop the last of all.
QueueInv ==
    /\ queue \in Seq(Entries)
    /\ \A i \in 1..Len(queue) :
          LET r == queue[i] IN
          /\ r.closes => r.kind = "record" /\ ~Live(r.loop)
          /\ \A j \in (i + 1)..Len(queue) : queue[j].loop = r.loop =>
                /\ r.trace <= queue[j].trace
                /\ r.kind = "record" => r.trace < queue[j].trace
                /\ ~r.closes

\* What is in the table came before what is in the queue.
TableInv ==
    \A e \in events :
        /\ e.loop \in Loops /\ e.trace \in Nat /\ e.seq \in Nat
        /\ e.kind \in {"his", "hers", "record"}
        /\ \A i \in 1..Len(queue) : queue[i].loop = e.loop =>
              /\ e.trace <= queue[i].trace
              /\ e.kind = "record" => e.trace < queue[i].trace

\* More is to be numbered in a loop, past the first k of the queue.
More(l, k) == Live(l) \/ \E i \in (k + 1)..Len(queue) : queue[i].loop = l

\* The counter is above every number given, while it is to give more.
Below(table, counters, k) ==
    \A e \in table : e.loop \notin split /\ More(e.loop, k) => e.seq < counters[e.loop]

\* A record's number parts what its turn or an earlier one logged from the rest.
Parted(table) ==
    \A r, e \in table :
        r.kind = "record" /\ e.loop = r.loop /\ e # r /\ r.loop \notin split =>
            (e.seq < r.seq <=> e.trace <= r.trace)

NumbersInv ==
    /\ seqs \in [Loops -> Nat]
    /\ Below(events, seqs, 0) /\ Parted(events)

-----------------------------------------------------------------------------
(* The review: what a pass keeps true of its loop.                         *)

WorkersInv ==
    /\ worker = [w \in Workers |-> worker[w]]
    /\ \A w \in Workers :
          /\ worker[w] = [pc |-> worker[w].pc, todo |-> worker[w].todo, loop |-> worker[w].loop,
                          turns |-> worker[w].turns, graded |-> worker[w].graded]
          /\ worker[w].pc \notin {"grade", "empty"} => worker[w].turns = {}

\* A turn in hand is one of the loop's records, before all that is in the queue.
Recorded(l, t) == \E r \in RecordsOf(l) : r.seq = t.seq /\ r.trace = t.trace

TurnsInHand ==
    \A w \in Workers : \A t \in worker[w].turns : Recorded(worker[w].loop, t)

-----------------------------------------------------------------------------
(* The review: what the grades keep true of the records.                   *)

Verdict(l, r) == [loop |-> l, seq |-> r.seq, verdict |-> r.trace, reply |-> r.trace]

\* A grade is the one of the record that has its number.
Graded(table) ==
    \A v \in reviews : v.loop \notin split =>
        /\ v.reply = v.verdict
        /\ \A r \in table : r.loop = v.loop /\ r.kind = "record" /\ r.seq = v.seq => r.trace = v.verdict

GradesInv ==
    /\ \A v \in reviews : v = [loop |-> v.loop, seq |-> v.seq, verdict |-> v.verdict, reply |-> v.reply]
    /\ \A v \in reviews : v.loop \in Loops /\ v.seq \in Nat
    /\ Below(reviews, seqs, 0) /\ Graded(events)

\* A pass has graded what it has not in hand.
Settled(w, r) ==
    \/ Verdict(worker[w].loop, r) \in reviews
    \/ worker[w].pc = "grade" /\ \E t \in worker[w].turns : t.seq = r.seq /\ t.trace = r.trace

PassesInv ==
    \A w \in Workers, r \in events :
        /\ worker[w].pc \in {"grade", "empty"} /\ worker[w].loop \notin split \cup missed
        /\ r.loop = worker[w].loop /\ r.kind = "record"
        => Settled(w, r)

LogInv == TurnsInv /\ QueueInv /\ TableInv /\ NumbersInv /\ GradesInv

PassInv == WorkersInv /\ TurnsInHand /\ JudgedInContext /\ PassesInv /\ DoneIsGraded

ReviewInv == LogInv /\ PassInv

-----------------------------------------------------------------------------
(* The review: a batch is numbered record by record.                       *)

LEMMA LeastNumber ==
    ASSUME NEW T \in SUBSET Nat, T # {}
    PROVE  \E n \in T : \A m \in T : n <= m
<1> DEFINE R == OpToRel(<, Nat)
<1>1. IsWellFoundedOn(R, Nat)
    BY NatLessThanWellFounded
<1>2. \A x, y \in Nat : x < y => <<x, y>> \in R
    BY DEF OpToRel
<1> HIDE DEF R
<1>3. PICK x \in T : \A y \in T : ~(<<y, x>> \in R)
    BY <1>1, WFMin
<1>4. \A y \in T : ~(y < x)
    BY <1>2, <1>3
<1>5. \A y \in T : x <= y
    BY <1>4
<1> QED
    BY <1>5

AllNumbered(base, s) == FoldLeft(Numbered, base, s)

\* What the numbering of a batch of n goes through.
Steps(f, base, s, n) ==
    /\ f[0] = base
    /\ \A i \in 1..n : f[i] = Numbered(f[i - 1], s[i])
    /\ AllNumbered(base, s) = f[n]

\* The fold of a batch is the last of the states after each of its records.  The
\* fold's recursive function exists: a least batch for which it did not would be
\* one record longer than one for which it does.
LEMMA FoldsByRecord ==
    ASSUME NEW base, NEW s, NEW n \in Nat, DOMAIN s = 1..n
    PROVE  \E f : Steps(f, base, s, n)
<1> DEFINE Def(it, S) == IF S = {} THEN base ELSE Numbered(it[S \ {Max(S)}], s[Max(S)])
           Solved(m) == \E g : g = [S \in SUBSET (1..m) |-> Def(g, S)]
           iter[S \in SUBSET DOMAIN s] == Def(iter, S)
           f == [i \in 0..n |-> iter[1..i]]
<1>1. Solved(0)
  <2> DEFINE g == [S \in SUBSET (1..0) |-> base]
  <2>1. \A S \in SUBSET (1..0) : Def(g, S) = base
      OBVIOUS
  <2> HIDE DEF Def
  <2>2. g = [S \in SUBSET (1..0) |-> Def(g, S)]
      BY <2>1
  <2> QED
      BY <2>2
<1>2. ASSUME NEW m \in Nat, Solved(m) PROVE Solved(m + 1)
  <2>1. PICK g : g = [S \in SUBSET (1..m) |-> Def(g, S)]
      BY <1>2
  <2> DEFINE h == [S \in SUBSET (1..(m + 1)) |->
                      IF m + 1 \in S THEN Numbered(g[S \ {m + 1}], s[m + 1]) ELSE g[S]]
  <2>2. ASSUME NEW S \in SUBSET (1..(m + 1)) PROVE h[S] = Def(h, S)
    <3>1. CASE m + 1 \in S
      <4>1. Max(S) = m + 1
        <5>1. \A y \in S : y \in Nat /\ m + 1 >= y
            OBVIOUS
        <5>2. \A x \in S : (\A y \in S : x >= y) => x = m + 1
            BY <3>1, <5>1
        <5> QED
            BY <3>1, <5>1, <5>2 DEF Max
      <4>2. S \ {m + 1} \in SUBSET (1..m)
          OBVIOUS
      <4>3. h[S \ {m + 1}] = g[S \ {m + 1}]
        <5>1. S \ {m + 1} \in SUBSET (1..(m + 1))
            OBVIOUS
        <5> QED
            BY <5>1
      <4>4. h[S] = Numbered(g[S \ {m + 1}], s[m + 1])
          BY <3>1
      <4> HIDE DEF h
      <4> QED
          BY <3>1, <4>1, <4>3, <4>4
    <3>2. CASE m + 1 \notin S
      <4>1. S \in SUBSET (1..m)
          BY <3>2
      <4>2. h[S] = g[S]
          BY <3>2
      <4>3. h[S \ {Max(S)}] = g[S \ {Max(S)}]
        <5>1. S \ {Max(S)} \in SUBSET (1..(m + 1)) /\ m + 1 \notin S \ {Max(S)}
            BY <3>2
        <5> QED
            BY <5>1
      <4>4. g[S] = Def(g, S)
        <5> HIDE DEF Def
        <5> QED
            BY <2>1, <4>1
      <4> HIDE DEF h
      <4> QED
          BY <4>2, <4>3, <4>4
    <3> QED
        BY <3>1, <3>2
  <2>3. h = [S \in SUBSET (1..(m + 1)) |-> h[S]]
      OBVIOUS
  <2> HIDE DEF h, Def
  <2>4. h = [S \in SUBSET (1..(m + 1)) |-> Def(h, S)]
      BY <2>2, <2>3
  <2> QED
      BY <2>4
<1>3. Solved(n)
  <2> HIDE DEF Solved
  <2> DEFINE T == {m \in Nat : ~Solved(m)}
  <2> SUFFICES ASSUME T # {} PROVE FALSE
      OBVIOUS
  <2>1. PICK m \in T : \A k \in T : m <= k
      BY LeastNumber
  <2>2. m # 0
      BY <1>1
  <2>3. m - 1 \in Nat /\ Solved(m - 1)
    <3>1. m - 1 \in Nat /\ ~(m <= m - 1)
        BY <2>2
    <3> QED
        BY <2>1, <3>1
  <2>4. Solved((m - 1) + 1)
      BY <1>2, <2>3
  <2>5. (m - 1) + 1 = m
      OBVIOUS
  <2> QED
      BY <2>4, <2>5
<1>4. iter = [S \in SUBSET (1..n) |-> Def(iter, S)]
  <2>1. DOMAIN s = 1..n
      OBVIOUS
  <2>2. iter = CHOOSE g : g = [S \in SUBSET (1..n) |-> Def(g, S)]
    <3> HIDE DEF Def
    <3> QED
        BY <2>1
  <2>3. PICK g : g = [S \in SUBSET (1..n) |-> Def(g, S)]
      BY <1>3
  <2> HIDE DEF Def, iter
  <2> QED
      BY <2>2, <2>3
<1>5. f[0] = base
  <2>1. 1..0 = {} /\ {} \in SUBSET (1..n)
      OBVIOUS
  <2>2. iter[{}] = Def(iter, {})
    <3> HIDE DEF Def, iter
    <3> QED
        BY <1>4, <2>1
  <2> HIDE DEF iter
  <2> QED
      BY <2>1, <2>2
<1>6. ASSUME NEW i \in 1..n PROVE f[i] = Numbered(f[i - 1], s[i])
  <2>1. Max(1..i) = i
      BY DEF Max
  <2>2. (1..i) \ {i} = 1..(i - 1) /\ 1..i # {} /\ 1..i \in SUBSET (1..n)
    <3>1. i \in 1..i /\ \A j \in 1..i : j \in 1..n
        OBVIOUS
    <3>2. \A j : j \in (1..i) \ {i} <=> j \in 1..(i - 1)
        OBVIOUS
    <3> QED
        BY <3>1, <3>2
  <2>3. iter[1..i] = Def(iter, 1..i)
    <3> HIDE DEF Def, iter
    <3> QED
        BY <1>4, <2>2
  <2>4. f[i] = iter[1..i] /\ f[i - 1] = iter[1..(i - 1)]
    <3> HIDE DEF iter
    <3> QED
        OBVIOUS
  <2> HIDE DEF iter, f
  <2> QED
      BY <2>1, <2>2, <2>3, <2>4
<1>7. AllNumbered(base, s) = f[n]
  <2>1. AllNumbered(base, s) = iter[DOMAIN s]
      BY DEF AllNumbered, FoldLeft, MapThenFoldSet
  <2>2. f[n] = iter[1..n]
    <3> HIDE DEF iter
    <3> QED
        OBVIOUS
  <2> HIDE DEF iter, f
  <2> QED
      BY <2>1, <2>2
<1> HIDE DEF f
<1> QED
    BY <1>5, <1>6, <1>7 DEF Steps

\* What the table, the counters and the grades are after k records of the queue
\* were numbered.
Numbering(acc, k) ==
    /\ acc.seqs \in [Loops -> Nat]
    /\ events \subseteq acc.events
    /\ \A e \in acc.events : e \in events \/ \E i \in 1..k, n \in Nat : e = Row(queue[i], n)
    /\ Below(acc.events, acc.seqs, k) /\ Parted(acc.events)
    /\ Below(reviews, acc.seqs, k) /\ Graded(acc.events)

\* The next record of the queue takes the next number of its loop, above all that
\* the loop has; a record that closes it takes the counter, and nothing follows.
LEMMA NextIsNumbered ==
    ASSUME QueueInv, TableInv, GradesInv, NEW k \in 0..(Len(queue) - 1), NEW acc, Numbering(acc, k)
    PROVE  Numbering(Numbered(acc, queue[k + 1]), k + 1)
<1> DEFINE r == queue[k + 1]
           n == acc.seqs[r.loop]
           row == Row(r, n)
           counters == [acc.seqs EXCEPT ![r.loop] = IF r.closes THEN 0 ELSE n + 1]
           table == Numbered(acc, r).events
<1>0. k \in Nat /\ k + 1 \in 1..Len(queue) /\ Len(queue) \in Nat /\ queue \in Seq(Entries)
    BY DEF QueueInv
<1>1. r \in Entries /\ r.loop \in Loops /\ n \in Nat
  <2>1. r \in Entries
      BY <1>0
  <2>2. r.loop \in Loops
      BY <2>1 DEF Entries
  <2> QED
      BY <2>1, <2>2 DEF Numbering
<1>2. /\ row.loop = r.loop /\ row.trace = r.trace /\ row.seq = n /\ row.kind = r.kind
      /\ row.trace \in Nat
    BY <1>1 DEF Row, Entries
<1>3. Numbered(acc, r).seqs = counters /\ (table = acc.events \/ table = acc.events \cup {row})
    BY DEF Numbered
<1>4. /\ counters \in [Loops -> Nat]
      /\ \A l \in Loops \ {r.loop} : counters[l] = acc.seqs[l]
      /\ ~r.closes => counters[r.loop] = n + 1
    BY <1>1 DEF Numbering
<1>5. ASSUME NEW e \in acc.events
      PROVE  /\ e.loop \in Loops /\ e.trace \in Nat /\ e.seq \in Nat
             /\ e.loop = r.loop => /\ e.trace <= r.trace
                                   /\ e.kind = "record" => e.trace < r.trace
  <2>1. CASE e \in events
      BY <1>0, <2>1 DEF TableInv
  <2>2. CASE \E i \in 1..k, m \in Nat : e = Row(queue[i], m)
    <3>1. PICK i \in 1..k, m \in Nat : e = Row(queue[i], m)
        BY <2>2
    <3>2. queue[i] \in Entries /\ i \in 1..Len(queue) /\ k + 1 \in (i + 1)..Len(queue)
        BY <1>0
    <3>3. e.loop = queue[i].loop /\ e.trace = queue[i].trace /\ e.kind = queue[i].kind /\ e.seq = m
        BY <3>1 DEF Row
    <3> QED
        BY <3>2, <3>3 DEF QueueInv, Entries
  <2> QED
      BY <2>1, <2>2 DEF Numbering
<1>6. \A l : More(l, k + 1) => More(l, k)
    BY <1>0 DEF More
<1>7. More(r.loop, k)
    BY <1>0 DEF More
<1>8. r.closes => ~More(r.loop, k + 1)
  <2> SUFFICES ASSUME r.closes PROVE ~More(r.loop, k + 1)
      OBVIOUS
  <2>1. ~Live(r.loop)
      BY <1>0 DEF QueueInv
  <2>2. \A j \in ((k + 1) + 1)..Len(queue) : queue[j].loop # r.loop
      BY <1>0 DEF QueueInv
  <2> QED
      BY <2>1, <2>2 DEF More
<1> HIDE DEF counters, row, n, table
<1>9. ASSUME NEW T, Below(T, acc.seqs, k), \A e \in T : e.loop \in Loops /\ e.seq \in Nat
      PROVE  Below(T, counters, k + 1)
  <2> SUFFICES ASSUME NEW e \in T, e.loop \notin split, More(e.loop, k + 1)
               PROVE  e.seq < counters[e.loop]
      BY DEF Below
  <2>1. e.seq < acc.seqs[e.loop]
      BY <1>6, <1>9 DEF Below
  <2>2. CASE e.loop # r.loop
      BY <1>4, <1>9, <2>1, <2>2
  <2>3. CASE e.loop = r.loop
    <3>1. counters[e.loop] = n + 1
        BY <1>4, <1>8, <2>3
    <3>2. e.seq < n
        BY <2>1, <2>3 DEF n
    <3> QED
        BY <1>1, <1>9, <3>1, <3>2
  <2> QED
      BY <2>2, <2>3
<1>10. \A e \in acc.events : e.loop = r.loop /\ r.loop \notin split => e.seq < n
    BY <1>7 DEF Numbering, Below, n
<1>11. Below(table, counters, k + 1)
  <2>1. Below(acc.events, counters, k + 1)
      BY <1>5, <1>9 DEF Numbering
  <2>2. More(r.loop, k + 1) => row.seq < counters[row.loop]
      BY <1>1, <1>2, <1>4, <1>8
  <2> QED
      BY <1>2, <1>3, <2>1, <2>2 DEF Below
<1>12. Parted(table)
  <2> SUFFICES ASSUME NEW q \in table, NEW e \in table,
                      q.kind = "record", e.loop = q.loop, e # q, q.loop \notin split
               PROVE  e.seq < q.seq <=> e.trace <= q.trace
      BY DEF Parted
  <2>1. CASE q \in acc.events /\ e \in acc.events
      BY <2>1 DEF Numbering, Parted
  <2>2. CASE q = row /\ e \in acc.events
      BY <1>1, <1>2, <1>5, <1>10, <2>2
  <2>3. CASE q \in acc.events /\ e = row
    <3>1. q.seq < n /\ q.trace < r.trace
        BY <1>2, <1>5, <1>10, <2>3
    <3> QED
        BY <1>1, <1>2, <1>5, <2>3, <3>1
  <2> QED
      BY <1>3, <2>1, <2>2, <2>3
<1>13. Graded(table)
  <2>1. ASSUME NEW v \in reviews, v.loop = r.loop, r.loop \notin split PROVE v.seq < n
      BY <1>7, <2>1 DEF Numbering, Below, n
  <2>2. ASSUME NEW v \in reviews, v.loop = r.loop, r.loop \notin split PROVE row.seq # v.seq
      BY <1>1, <1>2, <2>1, <2>2
  <2> QED
      BY <1>2, <1>3, <2>2 DEF Numbering, Graded
<1> QED
  <2>1. events \subseteq table
      BY <1>3 DEF Numbering
  <2>2. \A e \in table : e \in events \/ \E i \in 1..(k + 1), m \in Nat : e = Row(queue[i], m)
    <3>1. \E i \in 1..(k + 1), m \in Nat : row = Row(queue[i], m)
        BY <1>0, <1>1 DEF row
    <3>2. ASSUME NEW e \in acc.events
          PROVE  e \in events \/ \E i \in 1..(k + 1), m \in Nat : e = Row(queue[i], m)
      <4>1. \A i \in 1..k : i \in 1..(k + 1)
          BY <1>0
      <4> QED
          BY <4>1 DEF Numbering
    <3> QED
        BY <1>3, <3>1, <3>2
  <2>3. Below(reviews, counters, k + 1)
      BY <1>9 DEF Numbering, GradesInv
  <2> QED
      BY <1>3, <1>4, <1>11, <1>12, <1>13, <2>1, <2>2, <2>3 DEF Numbering, table

\* First: as much of a sequence as there is room for.
LEMMA Firsts ==
    ASSUME NEW S, NEW s \in Seq(S), NEW n \in Nat
    PROVE  /\ First(s, n) \in Seq(S)
           /\ Len(First(s, n)) <= Len(s)
           /\ \A i \in 1..Len(First(s, n)) : First(s, n)[i] = s[i]
<1> DEFINE m == IF Len(s) < n THEN Len(s) ELSE n
<1>1. m \in Nat /\ m <= Len(s) /\ First(s, n) = SubSeq(s, 1, m)
    BY DEF First
<1> HIDE DEF m
<1> QED
    BY <1>1

\* The batch the writer takes, numbered to its end.
LEMMA BatchIsNumbered ==
    ASSUME QueueInv, TableInv, NumbersInv, GradesInv,
           NEW batch, batch = First(queue, FlushMax)
    PROVE  /\ Len(batch) \in 0..Len(queue)
           /\ Numbering(AllNumbered([seqs |-> seqs, events |-> events, rows |-> rows], batch),
                        Len(batch))
<1> DEFINE base == [seqs |-> seqs, events |-> events, rows |-> rows]
           b == Len(batch)
<1>1. queue \in Seq(Entries) /\ FlushMax \in Nat
    BY ReviewAssumption DEF QueueInv
<1>2. batch \in Seq(Entries) /\ b <= Len(queue) /\ \A i \in 1..b : batch[i] = queue[i]
    BY <1>1, Firsts
<1>3. b \in Nat /\ DOMAIN batch = 1..b /\ Len(queue) \in Nat
    BY <1>1, <1>2
<1> HIDE DEF b, base
<1>4. PICK f : Steps(f, base, batch, b)
    BY <1>3, FoldsByRecord
<1>5. Numbering(f[0], 0)
  <2>1. base.seqs = seqs /\ base.events = events
      BY DEF base
  <2> QED
      BY <1>4, <2>1 DEF Steps, Numbering, NumbersInv, GradesInv
<1>6. ASSUME NEW k \in 0..(b - 1), Numbering(f[k], k) PROVE Numbering(f[k + 1], k + 1)
  <2>1. k + 1 \in 1..b /\ k \in 0..(Len(queue) - 1) /\ (k + 1) - 1 = k
      BY <1>2, <1>3
  <2>2. f[k + 1] = Numbered(f[k], queue[k + 1])
      BY <1>2, <1>4, <2>1 DEF Steps
  <2> QED
      BY <1>6, <2>1, <2>2, NextIsNumbered
<1>7. \A k \in 0..b : Numbering(f[k], k)
  <2> DEFINE T == {k \in 0..b : ~Numbering(f[k], k)}
  <2> SUFFICES ASSUME T # {} PROVE FALSE
      OBVIOUS
  <2>1. T \in SUBSET Nat
      BY <1>3
  <2>2. PICK k \in T : \A m \in T : k <= m
      BY <2>1, LeastNumber
  <2>3. k # 0
      BY <1>5
  <2>4. k - 1 \in 0..(b - 1) /\ k - 1 \in 0..b /\ ~(k <= k - 1) /\ (k - 1) + 1 = k
      BY <1>3, <2>3
  <2>5. Numbering(f[k - 1], k - 1)
      BY <2>2, <2>4
  <2>6. Numbering(f[k], k)
      BY <1>6, <2>4, <2>5
  <2> QED
      BY <2>6
<1>8. b \in 0..b /\ b \in 0..Len(queue)
    BY <1>2, <1>3
<1> QED
    BY <1>4, <1>7, <1>8 DEF b, base, Steps

\* What a flush leaves: the rest of the queue, and the table and counters of its
\* batch, or the counters alone.
LEMMA FlushNumbers ==
    ASSUME QueueInv, TableInv, NumbersInv, GradesInv, Flushes
    PROVE  \E b \in 0..Len(queue) : \E acc :
              /\ Numbering(acc, b)
              /\ queue' = SubSeq(queue, b + 1, Len(queue)) /\ seqs' = acc.seqs
              /\ \/ UNCHANGED <<events, missed>>
                 \/ /\ events' = acc.events
                    /\ missed' = missed \cup {l \in Begun : \E e \in acc.events \ events :
                                                  e.loop = l /\ e.kind = "record"}
<1> DEFINE batch == First(queue, FlushMax)
           after == AllNumbered([seqs |-> seqs, events |-> events, rows |-> rows], batch)
<1>1. Len(batch) \in 0..Len(queue) /\ Numbering(after, Len(batch))
    BY BatchIsNumbered
<1>2. /\ queue' = SubSeq(queue, Len(batch) + 1, Len(queue)) /\ seqs' = after.seqs
      /\ \/ UNCHANGED <<events, missed>>
         \/ /\ events' = after.events
            /\ missed' = missed \cup {l \in Begun : \E e \in after.events \ events :
                                          e.loop = l /\ e.kind = "record"}
    BY Zenon DEF Flushes, AllNumbered
<1> HIDE DEF batch, after
<1> QED
    BY <1>1, <1>2

\* ... and so the log is as it was, with a few more rows and a shorter queue.
LEMMA FlushKeepsLog ==
    ASSUME TurnsInv, QueueInv, TableInv, NumbersInv, GradesInv, Flushes
    PROVE  TurnsInv' /\ QueueInv' /\ TableInv' /\ NumbersInv' /\ GradesInv'
<1>a. PICK b \in 0..Len(queue) : \E acc :
              /\ Numbering(acc, b)
              /\ queue' = SubSeq(queue, b + 1, Len(queue)) /\ seqs' = acc.seqs
              /\ events' = acc.events \/ events' = events
    BY FlushNumbers
<1>0. PICK acc :
              /\ Numbering(acc, b)
              /\ queue' = SubSeq(queue, b + 1, Len(queue)) /\ seqs' = acc.seqs
              /\ events' = acc.events \/ events' = events
    BY <1>a
<1>1. UNCHANGED <<phase, busy, latest, turns, reviews, split>>
    BY DEF Flushes, chats, grades
<1>2. queue \in Seq(Entries) /\ Len(queue) \in Nat /\ b \in Nat /\ b <= Len(queue)
    BY DEF QueueInv
<1>3. /\ queue' \in Seq(Entries) /\ Len(queue') = Len(queue) - b
      /\ \A i \in 1..Len(queue') : b + i \in 1..Len(queue) /\ queue'[i] = queue[b + i]
    BY <1>0, <1>2
<1>4. events \subseteq events' /\ events' \subseteq acc.events
    BY <1>0 DEF Numbering
<1>5. \A l : Live(l)' = Live(l)
    BY <1>1 DEF Live
<1>6. \A l : More(l, 0)' => More(l, b)
  <2> SUFFICES ASSUME NEW l, NEW i \in 1..Len(queue'), queue'[i].loop = l PROVE More(l, b)
      BY <1>5 DEF More
  <2>1. b + i \in (b + 1)..Len(queue) /\ queue[b + i].loop = l
      BY <1>2, <1>3
  <2> QED
      BY <2>1 DEF More
<1>7. ASSUME NEW e \in events' \ events
      PROVE  \E i \in 1..b : /\ i \in 1..Len(queue) /\ queue[i] \in Entries
                             /\ e.loop = queue[i].loop /\ e.trace = queue[i].trace
                             /\ e.kind = queue[i].kind /\ e.seq \in Nat
  <2>1. PICK i \in 1..b, n \in Nat : e = Row(queue[i], n)
      BY <1>0, <1>4 DEF Numbering
  <2>2. i \in 1..Len(queue) /\ queue[i] \in Entries
      BY <1>2
  <2> QED
      BY <2>1, <2>2 DEF Row
<1>8. TurnsInv'
  <2>1. ASSUME NEW e \in (events \cup Range(queue))'
        PROVE  \E x \in events \cup Range(queue) : x.loop = e.loop /\ x.trace = e.trace /\ x.kind = e.kind
    <3>1. CASE e \in events
        BY <3>1
    <3>2. CASE e \in events' \ events
      <4>1. PICK i \in 1..b : /\ i \in 1..Len(queue)
                              /\ e.loop = queue[i].loop /\ e.trace = queue[i].trace
                              /\ e.kind = queue[i].kind
          BY <1>7, <3>2
      <4>2. queue[i] \in Range(queue)
          BY <1>2, <4>1 DEF Range
      <4> QED
          BY <4>1, <4>2
    <3>3. CASE e \in Range(queue)'
      <4>1. PICK i \in 1..Len(queue') : e = queue'[i]
          BY <1>3, <3>3 DEF Range
      <4>2. e = queue[b + i] /\ b + i \in 1..Len(queue)
          BY <1>3, <4>1
      <4>3. e \in Range(queue)
          BY <1>2, <4>2 DEF Range
      <4> QED
          BY <4>3
    <3> QED
        BY <3>1, <3>2, <3>3
  <2> QED
      BY <1>1, <2>1 DEF TurnsInv
<1>9. QueueInv'
  <2>1. ASSUME NEW i \in 1..Len(queue'), NEW j \in (i + 1)..Len(queue')
        PROVE  b + i \in 1..Len(queue) /\ b + j \in ((b + i) + 1)..Len(queue) /\ j \in 1..Len(queue')
      BY <1>2, <1>3
  <2> QED
      BY <1>3, <1>5, <2>1 DEF QueueInv
<1>10. TableInv'
  <2> SUFFICES ASSUME NEW e \in events'
               PROVE  /\ e.loop \in Loops /\ e.trace \in Nat /\ e.seq \in Nat
                      /\ e.kind \in {"his", "hers", "record"}
                      /\ \A j \in 1..Len(queue') : queue'[j].loop = e.loop =>
                            /\ e.trace <= queue'[j].trace
                            /\ e.kind = "record" => e.trace < queue'[j].trace
      BY DEF TableInv
  <2>1. CASE e \in events
      BY <1>3, <2>1 DEF TableInv
  <2>2. CASE e \notin events
    <3>1. PICK i \in 1..b : /\ i \in 1..Len(queue) /\ queue[i] \in Entries
                            /\ e.loop = queue[i].loop /\ e.trace = queue[i].trace
                            /\ e.kind = queue[i].kind /\ e.seq \in Nat
        BY <1>7, <2>2
    <3>2. \A j \in 1..Len(queue') : b + j \in (i + 1)..Len(queue) /\ queue'[j] = queue[b + j]
        BY <1>2, <1>3, <3>1
    <3> QED
        BY <3>1, <3>2 DEF QueueInv, Entries
  <2> QED
      BY <2>1, <2>2
<1>11. NumbersInv'
  <2>1. Below(acc.events, acc.seqs, b) /\ Parted(acc.events) /\ acc.seqs \in [Loops -> Nat]
      BY <1>0 DEF Numbering
  <2>2. Below(events, seqs, 0)'
      BY <1>0, <1>1, <1>4, <1>6, <2>1 DEF Below
  <2>3. Parted(events)'
      BY <1>1, <1>4, <2>1 DEF Parted
  <2> QED
      BY <1>0, <2>1, <2>2, <2>3 DEF NumbersInv
<1>12. GradesInv'
  <2>1. Below(reviews, acc.seqs, b) /\ Graded(acc.events)
      BY <1>0 DEF Numbering
  <2>2. Below(reviews, seqs, 0)'
      BY <1>0, <1>1, <1>6, <2>1 DEF Below
  <2>3. Graded(events)'
      BY <1>1, <1>4, <2>1 DEF Graded
  <2> QED
      BY <1>1, <2>2, <2>3 DEF GradesInv
<1> QED
    BY <1>8, <1>9, <1>10, <1>11, <1>12

-----------------------------------------------------------------------------
(* The review: the turns.                                                  *)

\* What is queued comes after what was, as far as there is room.
LEMMA QueueGrows ==
    ASSUME queue \in Seq(Entries), NEW new \in Seq(Entries), Enqueues(new)
    PROVE  /\ queue' \in Seq(Entries)
           /\ \A i \in 1..Len(queue') :
                 \/ i \in 1..Len(queue) /\ queue'[i] = queue[i]
                 \/ /\ i > Len(queue) /\ i - Len(queue) \in 1..Len(new)
                    /\ queue'[i] = new[i - Len(queue)]
<1> DEFINE s == queue \o new
<1>1. s \in Seq(Entries) /\ Len(s) = Len(queue) + Len(new)
    OBVIOUS
<1>2. \A i \in 1..Len(s) :
         s[i] = IF i <= Len(queue) THEN queue[i] ELSE new[i - Len(queue)]
    OBVIOUS
<1>3. queue' = First(s, QueueMax) /\ QueueMax \in Nat
    BY ReviewAssumption DEF Enqueues
<1> HIDE DEF s
<1>4. /\ queue' \in Seq(Entries) /\ Len(queue') <= Len(s)
      /\ \A i \in 1..Len(queue') : queue'[i] = s[i]
    BY <1>1, <1>3, Firsts
<1>5. ASSUME NEW i \in 1..Len(queue')
      PROVE  \/ i \in 1..Len(queue) /\ queue'[i] = queue[i]
             \/ /\ i > Len(queue) /\ i - Len(queue) \in 1..Len(new)
                /\ queue'[i] = new[i - Len(queue)]
  <2>1. i \in 1..Len(s) /\ i \in Nat /\ Len(queue) \in Nat /\ Len(new) \in Nat
      BY <1>1, <1>4
  <2>2. CASE i <= Len(queue)
      BY <1>2, <1>4, <2>1, <2>2
  <2>3. CASE i > Len(queue)
      BY <1>1, <1>2, <1>4, <2>1, <2>3
  <2> QED
      BY <2>1, <2>2, <2>3
<1> QED
    BY <1>4, <1>5

\* What a turn queues is all of its trace, its record last; nothing of the loop
\* has come from a later turn, and no record from this one.
Queues(l, T, new) ==
    /\ new \in Seq(Entries)
    /\ \A i \in 1..Len(new) :
          /\ new[i].loop = l /\ new[i].trace = T
          /\ new[i].kind = "record" => i = Len(new)
          /\ new[i].closes => new[i].kind = "record" /\ ~Live(l)'

Latest(l, T) ==
    \A x \in events \cup Range(queue) : x.loop = l =>
        x.trace <= T /\ (x.kind = "record" => x.trace < T)

LEMMA TurnQueues ==
    ASSUME TurnsInv, QueueInv, TableInv, NumbersInv, GradesInv,
           NEW l \in Loops, NEW T \in Nat, NEW new,
           Queues(l, T, new), Latest(l, T), Enqueues(new), Live(l),
           \A k \in Loops \ {l} : Live(k)' => Live(k),
           UNCHANGED <<events, seqs, reviews, split>>
    PROVE  QueueInv' /\ TableInv' /\ NumbersInv' /\ GradesInv'
<1>1. /\ queue' \in Seq(Entries)
      /\ \A i \in 1..Len(queue') :
            \/ i \in 1..Len(queue) /\ queue'[i] = queue[i]
            \/ /\ i > Len(queue) /\ i - Len(queue) \in 1..Len(new)
               /\ queue'[i] = new[i - Len(queue)]
    BY QueueGrows DEF QueueInv, Queues
<1>2. queue \in Seq(Entries) /\ Len(queue) \in Nat /\ Len(queue') \in Nat /\ Len(new) \in Nat
    BY <1>1 DEF QueueInv, Queues
<1>3. \A i \in 1..Len(queue) : /\ queue[i].loop = l => queue[i].trace <= T
                               /\ queue[i].loop = l /\ queue[i].kind = "record" => queue[i].trace < T
                               /\ queue[i].loop = l => ~queue[i].closes
                               /\ queue[i].loop \in Loops
  <2> SUFFICES ASSUME NEW i \in 1..Len(queue)
               PROVE  /\ queue[i].loop = l => queue[i].trace <= T
                      /\ queue[i].loop = l /\ queue[i].kind = "record" => queue[i].trace < T
                      /\ queue[i].loop = l => ~queue[i].closes
                      /\ queue[i].loop \in Loops
      OBVIOUS
  <2>1. queue[i] \in Range(queue) /\ queue[i] \in Entries
      BY <1>2 DEF Range
  <2> QED
      BY <2>1 DEF Latest, QueueInv, Entries
<1>4. QueueInv'
  <2> DEFINE Follows(i) ==
                \A j \in (i + 1)..Len(queue') : queue'[j].loop = queue'[i].loop =>
                    /\ queue'[i].trace <= queue'[j].trace
                    /\ queue'[i].kind = "record" => queue'[i].trace < queue'[j].trace
                    /\ ~queue'[i].closes
             Closes(i, k) == queue'[i].closes => queue'[i].kind = "record" /\ ~Live(k)'
  <2>1. ASSUME NEW i \in 1..Len(queue), i \in 1..Len(queue'), queue'[i] = queue[i],
               NEW k \in Loops, k = queue[i].loop
        PROVE  Follows(i) /\ Closes(i, k)
    <3>1. Closes(i, k)
        BY <1>3, <2>1 DEF QueueInv
    <3>2. ASSUME NEW j \in (i + 1)..Len(queue'), queue'[j].loop = queue'[i].loop
          PROVE  /\ queue[i].trace <= queue'[j].trace
                 /\ queue[i].kind = "record" => queue[i].trace < queue'[j].trace
                 /\ ~queue[i].closes
      <4>0. j \in 1..Len(queue')
          BY <1>2, <2>1
      <4>1. CASE j \in 1..Len(queue) /\ queue'[j] = queue[j]
        <5>1. j \in (i + 1)..Len(queue)
            BY <1>2, <4>1
        <5> QED
            BY <2>1, <3>2, <4>1, <5>1 DEF QueueInv
      <4>2. CASE j - Len(queue) \in 1..Len(new) /\ queue'[j] = new[j - Len(queue)]
        <5>1. queue'[j].trace = T /\ queue'[j].loop = l
            BY <4>2 DEF Queues
        <5> QED
            BY <1>3, <2>1, <3>2, <5>1
      <4> QED
          BY <1>1, <4>0, <4>1, <4>2
    <3> QED
        BY <2>1, <3>1, <3>2
  <2>2. ASSUME NEW i \in 1..Len(queue'), i > Len(queue), i - Len(queue) \in 1..Len(new),
               queue'[i] = new[i - Len(queue)]
        PROVE  Follows(i) /\ Closes(i, l) /\ queue'[i].loop = l
    <3>1. /\ queue'[i].trace = T /\ queue'[i].loop = l
          /\ queue'[i].closes => queue'[i].kind = "record" /\ ~Live(l)'
          /\ queue'[i].kind = "record" => i - Len(queue) = Len(new)
        BY <2>2 DEF Queues
    <3>2. ASSUME NEW j \in (i + 1)..Len(queue')
          PROVE  queue'[j].trace = T /\ queue'[i].kind # "record"
      <4>1. j \in 1..Len(queue') /\ ~(j \in 1..Len(queue))
          BY <1>2, <2>2
      <4>2. j - Len(queue) \in 1..Len(new) /\ queue'[j] = new[j - Len(queue)]
          BY <1>1, <4>1
      <4>3. i - Len(queue) < Len(new)
          BY <1>2, <2>2, <4>2
      <4> QED
          BY <1>2, <3>1, <4>2, <4>3 DEF Queues
    <3>3. queue'[i].closes => ~(\E j \in (i + 1)..Len(queue') : TRUE)
        BY <3>1, <3>2
    <3> QED
        BY <3>1, <3>2, <3>3
  <2>3. ASSUME NEW i \in 1..Len(queue')
        PROVE  Follows(i) /\ \E k \in Loops : k = queue'[i].loop /\ Closes(i, k)
    <3>1. CASE i \in 1..Len(queue) /\ queue'[i] = queue[i]
        BY <1>3, <2>1, <3>1
    <3>2. CASE i > Len(queue) /\ i - Len(queue) \in 1..Len(new) /\ queue'[i] = new[i - Len(queue)]
        BY <2>2, <3>2
    <3> QED
        BY <1>1, <3>1, <3>2
  <2> QED
      BY <1>1, <2>3 DEF QueueInv, Live
<1>5. TableInv'
  <2> SUFFICES ASSUME NEW e \in events, NEW i \in 1..Len(queue'), queue'[i].loop = e.loop
               PROVE  /\ e.trace <= queue'[i].trace
                      /\ e.kind = "record" => e.trace < queue'[i].trace
      BY DEF TableInv
  <2>1. CASE i \in 1..Len(queue) /\ queue'[i] = queue[i]
      BY <2>1 DEF TableInv
  <2>2. CASE i - Len(queue) \in 1..Len(new) /\ queue'[i] = new[i - Len(queue)]
      BY <2>2 DEF Queues, Latest
  <2> QED
      BY <1>1, <2>1, <2>2
<1>6. \A k \in Loops : More(k, 0)' => More(k, 0)
  <2> SUFFICES ASSUME NEW k \in Loops \ {l}, More(k, 0)' PROVE More(k, 0)
      BY DEF More
  <2>1. CASE Live(k)'
      BY <2>1 DEF More
  <2>2. CASE \E i \in (0 + 1)..Len(queue') : queue'[i].loop = k
    <3>1. PICK i \in 1..Len(queue') : queue'[i].loop = k
        BY <2>2
    <3>2. i \in 1..Len(queue) /\ queue'[i] = queue[i]
        BY <1>1, <3>1 DEF Queues
    <3> QED
        BY <3>1, <3>2 DEF More
  <2> QED
      BY <2>1, <2>2 DEF More
<1>7. NumbersInv'
    BY <1>6 DEF NumbersInv, Below, Parted, TableInv
<1>8. GradesInv'
    BY <1>6 DEF GradesInv, Below, Graded
<1> QED
    BY <1>4, <1>5, <1>7, <1>8

\* What is in the table and in the queue is of a loop and a turn.
LEMMA EntriesAre ==
    ASSUME QueueInv, TableInv
    PROVE  /\ \A i \in 1..Len(queue) : /\ queue[i] \in Entries /\ queue[i] \in Range(queue)
                                      /\ queue[i].loop \in Loops
           /\ \A e \in events \cup Range(queue) : e.loop \in Loops /\ e.trace \in Nat
<1>1. queue \in Seq(Entries)
    BY DEF QueueInv
<1>2. \A i \in 1..Len(queue) : queue[i] \in Entries /\ queue[i] \in Range(queue)
    BY <1>1 DEF Range
<1>3. \A x \in Entries : x.loop \in Loops /\ x.trace \in Nat
    BY DEF Entries
<1>4. \A e \in Range(queue) : e \in Entries
    BY <1>1 DEF Range
<1> QED
    BY <1>2, <1>3, <1>4 DEF TableInv

\* A line and another make two.
LEMMA OneAndOne ==
    ASSUME NEW x, NEW y
    PROVE  <<>> \o <<y>> = <<y>> /\ <<x>> \o <<y>> = <<x, y>>
<1> DEFINE s == <<x>> \o <<y>>
           t == <<x, y>>
<1>1. <<x>> \in Seq({x, y}) /\ <<y>> \in Seq({x, y}) /\ t \in Seq({x, y}) /\ Len(t) = 2
    OBVIOUS
<1>2. s \in Seq({x, y}) /\ Len(s) = 2 /\ s[1] = x /\ s[2] = y /\ t[1] = x /\ t[2] = y
    BY <1>1
<1> HIDE DEF s, t
<1>3. \A i \in 1..2 : s[i] = t[i]
    BY <1>2
<1>4. s = t
    BY <1>1, <1>2, <1>3
<1>5. <<>> \o <<y>> = <<y>>
    OBVIOUS
<1> QED
    BY <1>4, <1>5 DEF s, t

LEMMA OneOrTwo ==
    ASSUME NEW S, NEW x \in S, NEW y \in S
    PROVE  /\ <<y>> \in Seq(S) /\ <<x, y>> \in Seq(S)
           /\ \A i \in 1..Len(<<y>>) : <<y>>[i] = y /\ i = Len(<<y>>)
           /\ \A i \in 1..Len(<<x, y>>) : <<x, y>>[i] = x \/ (<<x, y>>[i] = y /\ i = Len(<<x, y>>))
<1>1. <<y>> \in Seq(S) /\ <<x, y>> \in Seq(S)
    OBVIOUS
<1>2. \A i \in 1..Len(<<y>>) : <<y>>[i] = y /\ i = Len(<<y>>)
    OBVIOUS
<1>3. \A i \in 1..Len(<<x, y>>) : <<x, y>>[i] = x \/ (<<x, y>>[i] = y /\ i = Len(<<x, y>>))
    OBVIOUS
<1> QED
    BY <1>1, <1>2, <1>3

LEMMA TurnCounts ==
    ASSUME TurnsInv, QueueInv, TableInv, NEW l \in Loops, NEW T \in Nat, NEW new,
           Queues(l, T, new), Enqueues(new), UNCHANGED events,
           turns' \in Nat, turns <= turns', T <= turns',
           busy' \in [Loops -> Nat], phase' \in [Loops -> {"new", "open", "gone"}],
           latest' \in [Loops -> Nat],
           \A k \in Loops \ {l} : busy'[k] = busy[k],
           busy'[l] # 0 => /\ busy'[l] = T /\ Latest(l, T)
                           /\ \A i \in 1..Len(new) : new[i].kind # "record"
    PROVE  TurnsInv'
<1>1. /\ queue' \in Seq(Entries)
      /\ \A i \in 1..Len(queue') :
            \/ i \in 1..Len(queue) /\ queue'[i] = queue[i]
            \/ /\ i > Len(queue) /\ i - Len(queue) \in 1..Len(new)
               /\ queue'[i] = new[i - Len(queue)]
    BY QueueGrows DEF QueueInv, Queues
<1>2. \A k \in Loops : busy'[k] <= turns'
  <2>1. turns \in Nat /\ \A k \in Loops : busy[k] \in Nat /\ busy[k] <= turns
      BY DEF TurnsInv
  <2>2. busy'[l] <= turns'
      OBVIOUS
  <2>3. \A k \in Loops \ {l} : busy'[k] <= turns'
      BY <2>1
  <2> QED
      BY <2>2, <2>3
<1>3. ASSUME NEW e \in events \cup Range(queue)
      PROVE  e.trace <= turns' /\ e.loop \in Loops /\ e.trace \in Nat
    BY EntriesAre DEF TurnsInv
<1>4. ASSUME NEW e \in events \cup Range(queue)
      PROVE  busy'[e.loop] # 0 => /\ e.trace <= busy'[e.loop]
                                  /\ e.kind = "record" => e.trace < busy'[e.loop]
  <2>1. CASE e.loop = l
      BY <2>1 DEF Latest
  <2>2. CASE e.loop # l
      BY <1>3, <2>2 DEF TurnsInv
  <2> QED
      BY <2>1, <2>2
<1>5. ASSUME NEW e \in (events \cup Range(queue))'
      PROVE  /\ e.trace <= turns'
             /\ busy'[e.loop] # 0 => /\ e.trace <= busy'[e.loop]
                                     /\ e.kind = "record" => e.trace < busy'[e.loop]
  <2>1. CASE e \in events \cup Range(queue)
      BY <1>3, <1>4, <2>1
  <2>2. CASE e \notin events \cup Range(queue)
    <3>1. PICK i \in 1..Len(queue') : e = queue'[i]
        BY <1>1, <2>2 DEF Range
    <3>2. ~(i \in 1..Len(queue) /\ queue'[i] = queue[i])
        BY <2>2, <3>1 DEF Range, QueueInv
    <3>3. PICK j \in 1..Len(new) : e = new[j]
        BY <1>1, <3>1, <3>2
    <3>4. e.loop = l /\ e.trace = T
        BY <3>3 DEF Queues
    <3> QED
        BY <3>3, <3>4
  <2> QED
      BY <2>1, <2>2
<1> QED
    BY <1>2, <1>5 DEF TurnsInv

\* No pass sees a step that leaves the table, the grades and the workers alone.
LEMMA PassUndisturbed ==
    ASSUME PassInv, UNCHANGED <<worker, events, split, missed, reviews, done>>
    PROVE  PassInv'
    BY DEF PassInv, WorkersInv, TurnsInHand, JudgedInContext, PassesInv, Settled, DoneIsGraded,
           Recorded, RecordsOf, LinesOf, Verdict

LEMMA LogUndisturbed ==
    ASSUME LogInv, UNCHANGED <<phase, busy, latest, turns, queue, seqs, events, reviews, split>>
    PROVE  LogInv'
    BY DEF LogInv, TurnsInv, QueueInv, TableInv, NumbersInv, GradesInv, Below, Parted, Graded,
           More, Live

\* The turns so far are behind a new one.
LEMMA NewTurnIsLatest ==
    ASSUME LogInv, NEW l \in Loops PROVE Latest(l, turns + 1)
<1>1. \A x \in events \cup Range(queue) : x.trace \in Nat /\ x.trace <= turns
    BY EntriesAre DEF LogInv, TurnsInv
<1>2. turns \in Nat
    BY DEF LogInv, TurnsInv
<1> QED
    BY <1>1, <1>2 DEF Latest

\* The steps by which a turn begins: a line or two under a new trace.
LEMMA TurnBegins ==
    ASSUME LogInv, NEW l \in Loops, NEW new, new \in Seq(Entries), Enqueues(new),
           \A i \in 1..Len(new) : /\ new[i].loop = l /\ new[i].trace = turns + 1
                                  /\ new[i].kind # "record" /\ ~new[i].closes,
           phase[l] \in {"new", "open"},
           turns' = turns + 1, busy' = [busy EXCEPT ![l] = turns + 1],
           phase' = [phase EXCEPT ![l] = "open"],
           UNCHANGED <<latest, events, seqs, reviews, split>>
    PROVE  LogInv'
<1>1. turns \in Nat /\ busy \in [Loops -> Nat] /\ phase \in [Loops -> {"new", "open", "gone"}]
    BY DEF LogInv, TurnsInv
<1>2. Queues(l, turns + 1, new)
    BY DEF Queues
<1>3. Latest(l, turns + 1)
    BY NewTurnIsLatest
<1>4. Live(l) /\ \A k \in Loops \ {l} : Live(k)' => Live(k)
    BY <1>1 DEF Live
<1>5. QueueInv' /\ TableInv' /\ NumbersInv' /\ GradesInv'
    BY <1>1, <1>2, <1>3, <1>4, TurnQueues DEF LogInv
<1>6. TurnsInv'
  <2>1. /\ busy' \in [Loops -> Nat] /\ busy'[l] = turns + 1
        /\ \A k \in Loops \ {l} : busy'[k] = busy[k]
        /\ phase' \in [Loops -> {"new", "open", "gone"}] /\ latest' \in [Loops -> Nat]
      BY <1>1 DEF LogInv, TurnsInv
  <2>2. turns' \in Nat /\ turns <= turns' /\ turns + 1 <= turns' /\ turns + 1 \in Nat
      BY <1>1
  <2> QED
      BY <1>2, <1>3, <2>1, <2>2, TurnCounts DEF LogInv
<1> QED
    BY <1>5, <1>6 DEF LogInv

LEMMA TurnKeepsInv ==
    ASSUME ReviewInv, NEW l \in Loops, Turn(l)
    PROVE  ReviewInv'
<1>0. LogInv /\ PassInv
    BY DEF ReviewInv
<1>1. turns \in Nat /\ busy \in [Loops -> Nat] /\ phase \in [Loops -> {"new", "open", "gone"}]
    BY <1>0 DEF LogInv, TurnsInv
<1>2. UNCHANGED <<worker, events, split, missed, reviews, done, seqs>>
    BY DEF Turn, Opens, Continues, Raises, Expires, Acts, log, grades, chats
<1>3. PassInv'
    BY <1>0, <1>2, PassUndisturbed
<1>4. CASE Opens(l)
  <2> DEFINE new == <<Line(l, turns + 1, "hers", 0), Line(l, turns + 1, "his", turns + 1)>>
  <2>1. new \in Seq(Entries)
      BY <1>1 DEF Line, Entries
  <2>2. \A i \in 1..Len(new) : /\ new[i].loop = l /\ new[i].trace = turns + 1
                               /\ new[i].kind # "record" /\ ~new[i].closes
      BY DEF Line
  <2>3. /\ turns' = turns + 1 /\ busy' = [busy EXCEPT ![l] = turns + 1]
        /\ phase' = [phase EXCEPT ![l] = "open"] /\ phase[l] \in {"new", "open"}
        /\ Enqueues(new) /\ UNCHANGED latest
      BY <1>4 DEF Opens
  <2> HIDE DEF new
  <2>4. LogInv'
      BY <1>0, <1>2, <2>1, <2>2, <2>3, TurnBegins
  <2> QED
      BY <1>3, <2>4 DEF ReviewInv
<1>5. CASE Continues(l)
  <2>1. PICK again \in {<<>>, <<Line(l, turns', "hers", latest[l])>>} :
             /\ again # <<>> => latest[l] # 0
             /\ Enqueues(again \o <<Line(l, turns', "his", turns')>>)
      BY <1>5 DEF Continues
  <2> DEFINE new == again \o <<Line(l, turns', "his", turns')>>
  <2>2. turns' = turns + 1 /\ busy' = [busy EXCEPT ![l] = turns + 1] /\ phase[l] = "open"
        /\ UNCHANGED <<phase, latest>>
      BY <1>5 DEF Continues
  <2>3. new \in Seq(Entries) /\ \A i \in 1..Len(new) :
              /\ new[i].loop = l /\ new[i].trace = turns + 1
              /\ new[i].kind # "record" /\ ~new[i].closes
    <3> DEFINE x == Line(l, turns + 1, "hers", latest[l])
               y == Line(l, turns + 1, "his", turns + 1)
    <3>1. latest[l] \in Nat
        BY <1>0 DEF LogInv, TurnsInv
    <3>2. /\ x \in Entries /\ y \in Entries
          /\ \A z \in {x, y} : /\ z.loop = l /\ z.trace = turns + 1
                               /\ z.kind # "record" /\ ~z.closes
        BY <1>1, <3>1 DEF Line, Entries
    <3>3. again \in {<<>>, <<x>>} /\ new = again \o <<y>>
        BY <2>2
    <3> HIDE DEF x, y, new
    <3>4. new = <<y>> \/ new = <<x, y>>
        BY <3>3, OneAndOne
    <3>5. /\ new \in Seq(Entries) /\ \A i \in 1..Len(new) : new[i] \in {x, y}
      <4>1. CASE new = <<y>>
          BY <3>2, <4>1, OneOrTwo
      <4>2. CASE new = <<x, y>>
          BY <3>2, <4>2, OneOrTwo
      <4> QED
          BY <3>4, <4>1, <4>2
    <3> QED
        BY <3>2, <3>5
  <2>4. phase' = [phase EXCEPT ![l] = "open"]
      BY <1>1, <2>2
  <2> HIDE DEF new
  <2>5. LogInv'
      BY <1>0, <1>2, <2>1, <2>2, <2>3, <2>4, TurnBegins DEF new
  <2> QED
      BY <1>3, <2>5 DEF ReviewInv
<1>6. ASSUME NEW replies \in BOOLEAN, NEW close \in BOOLEAN, Acts(l, replies, close)
      PROVE  ReviewInv'
  <2> DEFINE T == busy[l]
             lines == IF replies THEN <<Line(l, T, "hers", T)>> ELSE <<>>
             new == lines \o <<Record(l, T, close)>>
  <2>1. /\ busy[l] # 0 /\ busy' = [busy EXCEPT ![l] = 0]
        /\ phase' = [phase EXCEPT ![l] = IF close THEN "gone" ELSE "open"]
        /\ Enqueues(new) /\ UNCHANGED turns
      BY <1>6 DEF Acts
  <2>2. T \in Nat /\ T <= turns
      BY <1>0, <1>1 DEF LogInv, TurnsInv
  <2>3. close => ~Live(l)'
      BY <1>1, <2>1 DEF Live
  <2>4. latest' \in [Loops -> Nat]
      BY <1>0, <1>1, <1>6 DEF LogInv, TurnsInv, Acts
  <2>5. Queues(l, T, new)
    <3> DEFINE x == Line(l, T, "hers", T)
               y == Record(l, T, close)
    <3>1. /\ x \in Entries /\ x.loop = l /\ x.trace = T /\ x.kind = "hers" /\ x.closes = FALSE
          /\ y \in Entries /\ y.loop = l /\ y.trace = T /\ y.kind = "record" /\ y.closes = close
        BY <2>2 DEF Line, Record, Entries
    <3>2. new = <<>> \o <<y>> \/ new = <<x>> \o <<y>>
        OBVIOUS
    <3> HIDE DEF x, y, new, T
    <3>3. new = <<y>> \/ new = <<x, y>>
        BY <3>2, OneAndOne
    <3>4. CASE new = <<y>>
        BY <2>3, <3>1, <3>4, OneOrTwo DEF Queues
    <3>5. CASE new = <<x, y>>
        BY <2>3, <3>1, <3>5, OneOrTwo DEF Queues
    <3> QED
        BY <3>3, <3>4, <3>5
  <2> HIDE DEF new, T
  <2>6. Latest(l, T)
      BY <1>0, <2>1 DEF T, LogInv, TurnsInv, Latest
  <2>7. Live(l) /\ \A k \in Loops \ {l} : Live(k)' => Live(k)
      BY <1>1, <2>1 DEF Live
  <2>8. QueueInv' /\ TableInv' /\ NumbersInv' /\ GradesInv'
      BY <1>0, <1>2, <2>1, <2>2, <2>5, <2>6, <2>7, TurnQueues DEF LogInv
  <2>9. TurnsInv'
    <3>1. busy' \in [Loops -> Nat] /\ phase' \in [Loops -> {"new", "open", "gone"}]
          /\ busy'[l] = 0 /\ \A k \in Loops \ {l} : busy'[k] = busy[k]
        BY <1>1, <2>1
    <3> QED
        BY <1>0, <1>1, <1>2, <2>1, <2>2, <2>4, <2>5, <3>1, TurnCounts DEF LogInv
  <2> QED
      BY <1>3, <2>8, <2>9 DEF ReviewInv, LogInv
<1>7. CASE Raises(l) \/ Expires(l)
  <2>1. UNCHANGED <<turns, latest, queue>>
      BY <1>7 DEF Raises, Expires, log, chats
  <2>2. \/ busy' = [busy EXCEPT ![l] = 0] /\ UNCHANGED phase
        \/ phase' = [phase EXCEPT ![l] = "gone"] /\ UNCHANGED busy
      BY <1>7 DEF Raises, Expires
  <2>3. /\ busy' \in [Loops -> Nat] /\ phase' \in [Loops -> {"new", "open", "gone"}]
        /\ \A k \in Loops : (busy'[k] = busy[k] \/ busy'[k] = 0) /\ (Live(k)' => Live(k))
      BY <1>1, <2>2 DEF Live
  <2>4. TurnsInv'
    <3>1. \A e \in events \cup Range(queue) : e.loop \in Loops
        BY <1>0, EntriesAre DEF LogInv
    <3> QED
        BY <1>0, <1>2, <2>1, <2>3, <3>1 DEF LogInv, TurnsInv
  <2>5. QueueInv'
    <3>1. \A i \in 1..Len(queue) : queue[i].loop \in Loops
        BY <1>0, EntriesAre DEF LogInv
    <3>2. \A k \in Loops : ~Live(k) => ~Live(k)'
        BY <2>3
    <3>3. \A i \in 1..Len(queue) : queue[i].closes => ~Live(queue[i].loop)'
        BY <1>0, <2>1, <3>1, <3>2 DEF LogInv, QueueInv, Live
    <3> QED
        BY <1>0, <2>1, <3>3 DEF LogInv, QueueInv
  <2>6. \A k \in Loops : More(k, 0)' => More(k, 0)
      BY <2>1, <2>3 DEF More
  <2>7. TableInv' /\ NumbersInv' /\ GradesInv'
      BY <1>0, <1>2, <2>1, <2>6
         DEF LogInv, TableInv, NumbersInv, GradesInv, Below, Parted, Graded
  <2> QED
      BY <1>3, <2>4, <2>5, <2>7 DEF ReviewInv, LogInv
<1> QED
    BY <1>4, <1>5, <1>6, <1>7 DEF Turn

-----------------------------------------------------------------------------
(* The review: the writer and the passes.                                  *)

\* A record is told by its number.
LEMMA OneRecordPerNumber ==
    ASSUME LogInv, NEW l, l \notin split, NEW r \in RecordsOf(l), NEW q \in RecordsOf(l), q.seq = r.seq
    PROVE  q = r
<1> SUFFICES ASSUME q # r PROVE FALSE
    OBVIOUS
<1>1. r.seq \in Nat /\ r.trace \in Nat /\ q.trace \in Nat
    BY DEF LogInv, TableInv, RecordsOf
<1>2. (q.seq < r.seq <=> q.trace <= r.trace) /\ (r.seq < q.seq <=> r.trace <= q.trace)
    BY DEF LogInv, NumbersInv, Parted, RecordsOf
<1> QED
    BY <1>1, <1>2

\* What the judge is shown of a loop when it is loaded.
LEMMA LoadedInContext ==
    ASSUME LogInv, NEW l, NEW t \in load_turns(l)
    PROVE  /\ Recorded(l, t)
           /\ l \notin split =>
                 t.lines = {e \in LinesOf(l) : e.trace < t.trace \/ (e.trace = t.trace /\ e.kind = "his")}
<1>1. PICK r \in RecordsOf(l) :
         t = [seq |-> r.seq, trace |-> r.trace,
              lines |-> context_for({e \in LinesOf(l) : e.seq < r.seq}, r.trace)]
    BY DEF load_turns
<1>2. t.seq = r.seq /\ t.trace = r.trace
      /\ t.lines = context_for({e \in LinesOf(l) : e.seq < r.seq}, r.trace)
    BY <1>1
<1>3. Recorded(l, t)
    BY <1>2 DEF Recorded
<1>4. ASSUME l \notin split, NEW e \in LinesOf(l)
      PROVE  e.seq < r.seq /\ ~(e.trace = r.trace /\ e.kind = "hers")
                <=> e.trace < r.trace \/ (e.trace = r.trace /\ e.kind = "his")
  <2>1. e.trace \in Nat /\ r.trace \in Nat /\ e.kind \in {"his", "hers"}
      BY DEF LogInv, TableInv, LinesOf, RecordsOf
  <2>2. e.seq < r.seq <=> e.trace <= r.trace
      BY <1>4 DEF LogInv, NumbersInv, Parted, LinesOf, RecordsOf
  <2> QED
      BY <2>1, <2>2
<1>5. l \notin split =>
         t.lines = {e \in LinesOf(l) : e.trace < t.trace \/ (e.trace = t.trace /\ e.kind = "his")}
    BY <1>2, <1>4 DEF context_for
<1> QED
    BY <1>3, <1>5

\* The writer: a later line is of a later turn than any in hand, and a record it
\* adds under a pass puts the loop among the missed.
LEMMA FlushKeepsInv == ASSUME ReviewInv, Flushes PROVE ReviewInv'
<1>0. LogInv /\ PassInv
    BY DEF ReviewInv
<1>1. LogInv'
    BY <1>0, FlushKeepsLog DEF LogInv
<1>2. PICK b \in 0..Len(queue) : \E acc :
         /\ Numbering(acc, b)
         /\ \/ UNCHANGED <<events, missed>>
            \/ /\ events' = acc.events
               /\ missed' = missed \cup {l \in Begun : \E e \in acc.events \ events :
                                             e.loop = l /\ e.kind = "record"}
    BY <1>0, FlushNumbers DEF LogInv
<1>3. PICK acc :
         /\ Numbering(acc, b)
         /\ \/ UNCHANGED <<events, missed>>
            \/ /\ events' = acc.events
               /\ missed' = missed \cup {l \in Begun : \E e \in acc.events \ events :
                                             e.loop = l /\ e.kind = "record"}
    BY <1>2
<1>4. UNCHANGED <<worker, reviews, done, split>>
    BY DEF Flushes, grades
<1>5. CASE UNCHANGED <<events, missed>>
    BY <1>0, <1>1, <1>4, <1>5, PassUndisturbed DEF ReviewInv
<1>6. CASE /\ events' = acc.events
           /\ missed' = missed \cup {l \in Begun : \E e \in acc.events \ events :
                                         e.loop = l /\ e.kind = "record"}
  <2>1. events \subseteq events' /\ missed \subseteq missed'
      BY <1>3, <1>6 DEF Numbering
  <2>2. ASSUME NEW e \in events' \ events, NEW r \in events, r.kind = "record", r.loop = e.loop
        PROVE  r.trace < e.trace
    <3>1. PICK i \in 1..b, n \in Nat : e = Row(queue[i], n)
        BY <1>3, <1>6 DEF Numbering
    <3>2. i \in 1..Len(queue) /\ e.loop = queue[i].loop /\ e.trace = queue[i].trace
        BY <1>0, <3>1 DEF LogInv, QueueInv, Row
    <3> QED
        BY <1>0, <2>2, <3>2 DEF LogInv, TableInv
  <2>3. TurnsInHand'
      BY <1>0, <1>4, <2>1 DEF PassInv, TurnsInHand, Recorded, RecordsOf
  <2>4. JudgedInContext'
    <3> SUFFICES ASSUME NEW w \in Workers, worker[w].loop \notin split, NEW t \in worker[w].turns
                 PROVE  t.lines = {e \in LinesOf(worker[w].loop)' :
                                      e.trace < t.trace \/ (e.trace = t.trace /\ e.kind = "his")}
        BY <1>4 DEF JudgedInContext
    <3> DEFINE l == worker[w].loop
    <3>1. PICK r \in RecordsOf(l) : r.trace = t.trace
        BY <1>0 DEF PassInv, TurnsInHand, Recorded
    <3>2. t.lines = {e \in LinesOf(l) : e.trace < t.trace \/ (e.trace = t.trace /\ e.kind = "his")}
        BY <1>0 DEF PassInv, JudgedInContext
    <3>3. ASSUME NEW e \in LinesOf(l)', e \notin LinesOf(l) PROVE r.trace < e.trace
        BY <1>4, <2>2, <3>1, <3>3 DEF LinesOf, RecordsOf
    <3>4. \A e \in events' : e.trace \in Nat
        BY <1>1 DEF LogInv, TableInv
    <3>5. r.trace \in Nat
        BY <1>0 DEF LogInv, TableInv, RecordsOf
    <3>6. ASSUME NEW e, e \in LinesOf(l)' \ LinesOf(l)
          PROVE  ~(e.trace < t.trace) /\ e.trace # t.trace
        BY <3>1, <3>3, <3>4, <3>5, <3>6 DEF LinesOf
    <3>7. LinesOf(l) \subseteq LinesOf(l)'
        BY <1>4, <2>1 DEF LinesOf
    <3>8. LinesOf(l)' = LinesOf(worker[w].loop)'
        OBVIOUS
    <3> HIDE DEF l
    <3> QED
        BY <3>2, <3>6, <3>7, <3>8
  <2>5. ASSUME NEW l \in Begun, l \notin missed', NEW r \in RecordsOf(l)'
        PROVE  r \in RecordsOf(l)
      BY <1>6, <2>5 DEF RecordsOf
  <2>6. PassesInv'
    <3> SUFFICES ASSUME NEW w \in Workers, NEW r \in events',
                        worker[w].pc \in {"grade", "empty"},
                        worker[w].loop \notin split \cup missed',
                        r.loop = worker[w].loop, r.kind = "record"
                 PROVE  Settled(w, r)
        BY <1>4 DEF PassesInv, Settled, Verdict
    <3>1. worker[w].loop \in Begun
        BY DEF Begun
    <3>2. r \in events
        BY <1>6, <3>1
    <3> QED
        BY <1>0, <2>1, <3>2 DEF PassInv, PassesInv
  <2>7. DoneIsGraded'
    <3> SUFFICES ASSUME NEW l \in done \ (split \cup missed'), NEW r \in RecordsOf(l)'
                 PROVE  Verdict(l, r) \in reviews
        BY <1>4 DEF DoneIsGraded, Verdict
    <3>1. l \in Begun
        BY DEF Begun
    <3>2. r \in RecordsOf(l)
        BY <2>5, <3>1
    <3> QED
        BY <1>0, <2>1, <3>2 DEF PassInv, DoneIsGraded, Verdict
  <2> QED
      BY <1>0, <1>1, <1>4, <2>3, <2>4, <2>6, <2>7 DEF ReviewInv, PassInv, WorkersInv
<1> QED
    BY <1>3, <1>5, <1>6

\* A worker that goes on to the next loop has no turn in hand.
LEMMA GoesOn ==
    ASSUME WorkersInv, NEW w \in Workers, NEW todo, Goes(w, todo)
    PROVE  /\ WorkersInv'
           /\ worker'[w].turns = {} /\ worker'[w].pc \in {"idle", "load"}
           /\ \A v \in Workers \ {w} : worker'[v] = worker[v]
<1> DEFINE next == Taking(todo)
<1>1. next = [pc |-> next.pc, todo |-> next.todo, loop |-> next.loop,
              turns |-> next.turns, graded |-> next.graded]
      /\ next.turns = {} /\ next.pc \in {"idle", "load"}
  <2>1. CASE todo = <<>>
      BY <2>1 DEF Taking, Idle
  <2>2. CASE todo # <<>>
    <3>1. next = [pc |-> "load", todo |-> Tail(todo), loop |-> Head(todo), turns |-> {}, graded |-> FALSE]
        BY <2>2 DEF Taking, Idle
    <3> HIDE DEF next
    <3> QED
        BY <3>1
  <2> QED
      BY <2>1, <2>2
<1>2. worker' = [worker EXCEPT ![w] = next]
    BY DEF Goes
<1> HIDE DEF next
<1>3. DOMAIN worker = Workers
    BY DEF WorkersInv
<1>4. worker'[w] = next /\ \A v \in Workers \ {w} : worker'[v] = worker[v]
    BY <1>2, <1>3
<1>5. worker' = [v \in Workers |-> worker'[v]]
    BY <1>2, <1>3
<1> QED
    BY <1>1, <1>4, <1>5 DEF WorkersInv

\* A worker takes another loop, or none: the turns in hand of the others are
\* what they were.
LEMMA GoesKeepsPass ==
    ASSUME PassInv, NEW w \in Workers, NEW todo, Goes(w, todo),
           UNCHANGED <<events, split, reviews, missed>>, DoneIsGraded'
    PROVE  PassInv'
<1>1. /\ WorkersInv'
      /\ worker'[w].turns = {} /\ worker'[w].pc \in {"idle", "load"}
      /\ \A v \in Workers \ {w} : worker'[v] = worker[v]
    BY GoesOn DEF PassInv
<1>2. TurnsInHand'
    BY <1>1 DEF PassInv, TurnsInHand, Recorded, RecordsOf
<1>3. JudgedInContext'
    BY <1>1 DEF PassInv, JudgedInContext, LinesOf
<1>4. PassesInv'
    BY <1>1 DEF PassInv, PassesInv, Settled, Verdict
<1> QED
    BY <1>1, <1>2, <1>3, <1>4 DEF PassInv

\* What changes of a worker, field by field.
LEMMA WorkerSteps ==
    ASSUME WorkersInv, NEW w \in Workers, NEW next, worker' = [worker EXCEPT ![w] = next],
           next = [pc |-> next.pc, todo |-> next.todo, loop |-> next.loop,
                   turns |-> next.turns, graded |-> next.graded],
           next.pc \notin {"grade", "empty"} => next.turns = {}
    PROVE  /\ WorkersInv' /\ worker'[w] = next
           /\ \A v \in Workers \ {w} : worker'[v] = worker[v]
<1>1. DOMAIN worker = Workers
    BY DEF WorkersInv
<1>2. worker'[w] = next /\ \A v \in Workers \ {w} : worker'[v] = worker[v]
    BY <1>1
<1>3. worker' = [v \in Workers |-> worker'[v]]
    BY <1>1
<1> QED
    BY <1>2, <1>3 DEF WorkersInv

Now(w, pc, ts, graded) ==
    [pc |-> pc, todo |-> worker[w].todo, loop |-> worker[w].loop, turns |-> ts, graded |-> graded]

LEMMA LoadsKeepsInv == ASSUME ReviewInv, NEW w \in Workers, Loads(w) PROVE ReviewInv'
<1> DEFINE l == worker[w].loop
           ts == load_turns(l)
<1>0. LogInv /\ PassInv /\ WorkersInv
    BY DEF ReviewInv, PassInv
<1>1. UNCHANGED <<phase, busy, latest, turns, queue, seqs, events, reviews, done, split>>
      /\ worker[w].pc = "load"
    BY DEF Loads, chats, log, grades
<1>2. LogInv'
    BY <1>0, <1>1, LogUndisturbed
<1>3. worker[w] = Now(w, "load", {}, worker[w].graded) /\ DOMAIN worker = Workers
    BY <1>0, <1>1 DEF WorkersInv, Now
<1>4. CASE /\ worker' = [worker EXCEPT ![w].turns = ts, ![w].pc = IF ts = {} THEN "empty" ELSE "grade"]
           /\ UNCHANGED missed
  <2> DEFINE next == Now(w, IF ts = {} THEN "empty" ELSE "grade", ts, worker[w].graded)
  <2>1. worker' = [worker EXCEPT ![w] = next]
    <3> HIDE DEF ts
    <3> QED
        BY <1>3, <1>4 DEF Now
  <2>2. /\ next = [pc |-> next.pc, todo |-> next.todo, loop |-> next.loop,
                   turns |-> next.turns, graded |-> next.graded]
        /\ next.pc = (IF ts = {} THEN "empty" ELSE "grade") /\ next.turns = ts /\ next.loop = l
      BY DEF Now
  <2> HIDE DEF next, ts, l
  <2>3. WorkersInv' /\ worker'[w] = next /\ \A v \in Workers \ {w} : worker'[v] = worker[v]
      BY <1>0, <2>1, <2>2, WorkerSteps
  <2>4. TurnsInHand'
    <3>1. \A t \in ts : Recorded(l, t)
        BY <1>0, LoadedInContext DEF ts
    <3> QED
        BY <1>0, <1>1, <2>2, <2>3, <3>1 DEF PassInv, TurnsInHand, Recorded, RecordsOf
  <2>5. JudgedInContext'
    <3>1. l \notin split => \A t \in ts :
             t.lines = {e \in LinesOf(l) : e.trace < t.trace \/ (e.trace = t.trace /\ e.kind = "his")}
        BY <1>0, LoadedInContext DEF ts
    <3> QED
        BY <1>0, <1>1, <2>2, <2>3, <3>1 DEF PassInv, JudgedInContext, LinesOf
  <2>6. PassesInv'
    <3>1. \A r \in RecordsOf(l) : \E t \in ts : t.seq = r.seq /\ t.trace = r.trace
      <4> SUFFICES ASSUME NEW r \in RecordsOf(l) PROVE \E t \in ts : t.seq = r.seq /\ t.trace = r.trace
          OBVIOUS
      <4> DEFINE t == [seq |-> r.seq, trace |-> r.trace,
                       lines |-> context_for({e \in LinesOf(l) : e.seq < r.seq}, r.trace)]
      <4>1. t \in ts
          BY DEF ts, load_turns, l
      <4>2. t.seq = r.seq /\ t.trace = r.trace
          OBVIOUS
      <4> HIDE DEF t
      <4> QED
          BY <4>1, <4>2
    <3> SUFFICES ASSUME NEW v \in Workers, NEW r \in events,
                        worker'[v].pc \in {"grade", "empty"},
                        worker'[v].loop \notin split \cup missed,
                        r.loop = worker'[v].loop, r.kind = "record"
                 PROVE  Settled(v, r)'
        BY <1>1, <1>4 DEF PassesInv
    <3>2. CASE v = w
        BY <2>2, <2>3, <3>1, <3>2 DEF RecordsOf, Settled
    <3>3. CASE v # w
        BY <1>0, <1>1, <2>3, <3>3 DEF PassInv, PassesInv, Settled, Verdict
    <3> QED
        BY <3>2, <3>3
  <2>7. DoneIsGraded'
      BY <1>0, <1>1, <1>4 DEF PassInv, DoneIsGraded, RecordsOf
  <2> QED
      BY <1>2, <2>3, <2>4, <2>5, <2>6, <2>7 DEF ReviewInv, PassInv
<1>5. CASE worker' = [worker EXCEPT ![w].pc = "empty"] /\ missed' = missed \cup {l}
  <2> DEFINE next == Now(w, "empty", {}, worker[w].graded)
  <2>1. worker' = [worker EXCEPT ![w] = next]
    <3>1. [worker[w] EXCEPT !.pc = "empty"] = next
        BY <1>3 DEF Now
    <3>2. worker' = [worker EXCEPT ![w] = [worker[w] EXCEPT !.pc = "empty"]]
        BY <1>3, <1>5
    <3> QED
        BY <3>1, <3>2
  <2>2. /\ next = [pc |-> next.pc, todo |-> next.todo, loop |-> next.loop,
                   turns |-> next.turns, graded |-> next.graded]
        /\ next.turns = {} /\ next.loop = l
      BY DEF Now
  <2> HIDE DEF next, l
  <2>3. WorkersInv' /\ worker'[w] = next /\ \A v \in Workers \ {w} : worker'[v] = worker[v]
      BY <1>0, <2>1, <2>2, WorkerSteps
  <2>4. TurnsInHand' /\ JudgedInContext'
      BY <1>0, <1>1, <2>2, <2>3 DEF PassInv, TurnsInHand, JudgedInContext, Recorded, RecordsOf, LinesOf
  <2>5. PassesInv'
      BY <1>0, <1>1, <1>5, <2>2, <2>3 DEF PassInv, PassesInv, Settled, Verdict
  <2>6. DoneIsGraded'
      BY <1>0, <1>1, <1>5 DEF PassInv, DoneIsGraded, RecordsOf
  <2> QED
      BY <1>2, <2>3, <2>4, <2>5, <2>6 DEF ReviewInv, PassInv
<1> QED
    BY <1>4, <1>5, Zenon DEF Loads

LEMMA OneLess ==
    ASSUME NEW R, NEW t,
           R = [pc |-> R.pc, todo |-> R.todo, loop |-> R.loop, turns |-> R.turns, graded |-> R.graded]
    PROVE  /\ [R EXCEPT !.turns = @ \ {t}, !.graded = TRUE] =
                 [pc |-> R.pc, todo |-> R.todo, loop |-> R.loop, turns |-> R.turns \ {t}, graded |-> TRUE]
           /\ [R EXCEPT !.turns = @ \ {t}] =
                 [pc |-> R.pc, todo |-> R.todo, loop |-> R.loop, turns |-> R.turns \ {t}, graded |-> R.graded]
<1> DEFINE x == R.turns \ {t}
           yes == TRUE
           less == [pc |-> R.pc, todo |-> R.todo, loop |-> R.loop, turns |-> x, graded |-> R.graded]
           graded == [pc |-> R.pc, todo |-> R.todo, loop |-> R.loop, turns |-> x, graded |-> yes]
<1> HIDE DEF x, yes
<1>1. [R EXCEPT !.turns = x] = less
    OBVIOUS
<1>2. [R EXCEPT !.turns = x, !.graded = yes] = [[R EXCEPT !.turns = x] EXCEPT !.graded = yes]
    OBVIOUS
<1>3. [less EXCEPT !.graded = yes] = graded
    OBVIOUS
<1> HIDE DEF less, graded
<1>4. [R EXCEPT !.turns = x, !.graded = yes] = graded
    BY <1>1, <1>2, <1>3
<1> QED
    BY <1>1, <1>4, Zenon DEF x, yes, less, graded

\* A grade written or written again: the record's own number, its own verdict.
LEMMA GradesKeepsInv == ASSUME ReviewInv, NEW w \in Workers, Grades(w) PROVE ReviewInv'
<1> DEFINE l == worker[w].loop
<1>0. LogInv /\ PassInv /\ WorkersInv /\ GradesInv
    BY DEF ReviewInv, PassInv, LogInv
<1>1. UNCHANGED <<phase, busy, latest, turns, queue, seqs, events, done, split>>
      /\ worker[w].pc = "grade"
    BY DEF Grades, chats, log
<1>2. PICK t \in worker[w].turns :
         \/ /\ reviews' = Upserted(l, t)
            /\ worker' = [worker EXCEPT ![w].turns = @ \ {t}, ![w].graded = TRUE]
            /\ UNCHANGED missed
         \/ /\ missed' = missed \cup {l}
            /\ worker' = [worker EXCEPT ![w].turns = @ \ {t}]
            /\ UNCHANGED reviews
    BY Zenon DEF Grades
<1>3. worker[w] = Now(w, "grade", worker[w].turns, worker[w].graded) /\ DOMAIN worker = Workers
    BY <1>0, <1>1 DEF WorkersInv, Now
<1>4. PICK r0 \in RecordsOf(l) : r0.seq = t.seq /\ r0.trace = t.trace
    BY <1>0 DEF PassInv, TurnsInHand, Recorded
<1>5. r0 \in events /\ r0.loop = l /\ r0.kind = "record" /\ l \in Loops /\ t.seq \in Nat
    BY <1>0, <1>4 DEF RecordsOf, LogInv, TableInv
\* The worker is one turn less far, whichever way it went.
<1>6. \E graded : LET next == Now(w, "grade", worker[w].turns \ {t}, graded)
                  IN  worker' = [worker EXCEPT ![w] = next]
  <2>1. CASE worker' = [worker EXCEPT ![w].turns = @ \ {t}, ![w].graded = TRUE]
    <3>1. [worker[w] EXCEPT !.turns = @ \ {t}, !.graded = TRUE] = Now(w, "grade", worker[w].turns \ {t}, TRUE)
        BY <1>1, <1>3, OneLess DEF Now
    <3>2. worker' = [worker EXCEPT ![w] = [worker[w] EXCEPT !.turns = @ \ {t}, !.graded = TRUE]]
        BY <1>3, <2>1
    <3> QED
        BY <3>1, <3>2
  <2>2. CASE worker' = [worker EXCEPT ![w].turns = @ \ {t}]
    <3>1. [worker[w] EXCEPT !.turns = @ \ {t}] = Now(w, "grade", worker[w].turns \ {t}, worker[w].graded)
        BY <1>1, <1>3, OneLess DEF Now
    <3>2. worker' = [worker EXCEPT ![w] = [worker[w] EXCEPT !.turns = @ \ {t}]]
        BY <1>3, <2>2
    <3> QED
        BY <3>1, <3>2
  <2> QED
      BY <1>2, <2>1, <2>2
<1>7. PICK graded : worker' = [worker EXCEPT ![w] = Now(w, "grade", worker[w].turns \ {t}, graded)]
    BY <1>6
<1>8. /\ WorkersInv'
      /\ worker'[w].pc = "grade" /\ worker'[w].loop = l /\ worker'[w].turns = worker[w].turns \ {t}
      /\ \A v \in Workers \ {w} : worker'[v] = worker[v]
  <2> DEFINE next == Now(w, "grade", worker[w].turns \ {t}, graded)
  <2>1. /\ next = [pc |-> next.pc, todo |-> next.todo, loop |-> next.loop,
                   turns |-> next.turns, graded |-> next.graded]
        /\ next.pc = "grade" /\ next.turns = worker[w].turns \ {t} /\ next.loop = l
      BY DEF Now
  <2>2. worker' = [worker EXCEPT ![w] = next]
      BY <1>7
  <2> HIDE DEF next, l
  <2> QED
      BY <1>0, <2>1, <2>2, WorkerSteps
<1> HIDE DEF l
<1>9. TurnsInHand'
  <2> SUFFICES ASSUME NEW v \in Workers, NEW u \in worker'[v].turns
               PROVE  \E r \in events : /\ r.loop = worker'[v].loop /\ r.kind = "record"
                                        /\ r.seq = u.seq /\ r.trace = u.trace
      BY <1>1 DEF TurnsInHand, Recorded, RecordsOf
  <2>1. u \in worker[v].turns /\ worker'[v].loop = worker[v].loop
      BY <1>8 DEF l
  <2> QED
      BY <1>0, <2>1 DEF PassInv, TurnsInHand, Recorded, RecordsOf
<1>10. JudgedInContext'
  <2> SUFFICES ASSUME NEW v \in Workers, worker'[v].loop \notin split, NEW u \in worker'[v].turns
               PROVE  u.lines = {e \in {e \in events : e.loop = worker'[v].loop /\ e.kind # "record"} :
                                    e.trace < u.trace \/ (e.trace = u.trace /\ e.kind = "his")}
      BY <1>1 DEF JudgedInContext, LinesOf
  <2>1. u \in worker[v].turns /\ worker'[v].loop = worker[v].loop
      BY <1>8 DEF l
  <2> QED
      BY <1>0, <2>1 DEF PassInv, JudgedInContext, LinesOf
\* A row that has the loop and the number of the turn in hand is its record's.
<1>11. ASSUME l \notin split, NEW v \in reviews, v.loop = l, v.seq = t.seq
       PROVE  v = Verdict(l, r0)
    BY <1>0, <1>4, <1>5, <1>11 DEF GradesInv, Graded, Verdict
<1>12. \/ l \in missed' /\ missed \subseteq missed' /\ reviews' = reviews
       \/ /\ missed' = missed
          /\ \E reply :
                /\ reviews' = (reviews \ {v \in reviews : v.loop = l /\ v.seq = t.seq})
                                 \cup {[loop |-> l, seq |-> t.seq, verdict |-> t.trace, reply |-> reply]}
                /\ l \notin split => reply = t.trace
  <2>1. CASE missed' = missed \cup {l} /\ reviews' = reviews
      BY <2>1
  <2>2. CASE reviews' = Upserted(l, t) /\ missed' = missed
    <3> DEFINE old == {v \in reviews : v.loop = l /\ v.seq = t.seq}
               reply == IF old = {} THEN t.trace ELSE (CHOOSE v \in old : TRUE).reply
    <3>1. reviews' = (reviews \ old) \cup {[loop |-> l, seq |-> t.seq, verdict |-> t.trace, reply |-> reply]}
        BY <2>2 DEF Upserted
    <3>2. ASSUME l \notin split, old # {} PROVE (CHOOSE v \in old : TRUE).reply = t.trace
      <4>1. (CHOOSE v \in old : TRUE) \in old
          BY <3>2
      <4>2. \A v \in old : v.reply = r0.trace
          BY <1>11, <3>2 DEF Verdict
      <4> HIDE DEF old
      <4> QED
          BY <1>4, <4>1, <4>2
    <3>3. l \notin split => reply = t.trace
        BY <3>2
    <3> HIDE DEF old, reply
    <3> QED
        BY <2>2, <3>1, <3>3 DEF old
  <2> QED
      BY <1>2, <2>1, <2>2 DEF l
<1>13. l \notin split => reviews \subseteq reviews'
    BY <1>4, <1>11, <1>12 DEF Verdict
<1>14. \A v \in reviews : v.loop # l => v \in reviews'
    BY <1>12
<1>15. l \notin split \cup missed' => Verdict(l, r0) \in reviews'
    BY <1>4, <1>12 DEF Verdict
<1>16. missed \subseteq missed'
    BY <1>12
<1>17. \A v \in reviews' : \/ v \in reviews
                           \/ \E reply : /\ v = [loop |-> l, seq |-> t.seq, verdict |-> t.trace, reply |-> reply]
                                         /\ l \notin split => reply = t.trace
    BY <1>12
<1>18. GradesInv'
  <2>1. \A v \in reviews' : v = [loop |-> v.loop, seq |-> v.seq, verdict |-> v.verdict, reply |-> v.reply]
      BY <1>0, <1>17 DEF GradesInv
  <2>2. \A v \in reviews' : v.loop \in Loops /\ v.seq \in Nat
      BY <1>0, <1>5, <1>17 DEF GradesInv
  <2>3. \A v \in reviews' : v.loop \notin split /\ More(v.loop, 0) => v.seq < seqs[v.loop]
    <3>1. \A v \in reviews : v.loop \notin split /\ More(v.loop, 0) => v.seq < seqs[v.loop]
        BY <1>0 DEF GradesInv, Below
    <3>2. l \notin split /\ More(l, 0) => r0.seq < seqs[l]
        BY <1>0, <1>5 DEF LogInv, NumbersInv, Below
    <3> QED
        BY <1>4, <1>17, <3>1, <3>2
  <2>4. ASSUME NEW v \in reviews', v.loop \notin split
        PROVE  /\ v.reply = v.verdict
               /\ \A r \in events : r.loop = v.loop /\ r.kind = "record" /\ r.seq = v.seq => r.trace = v.verdict
    <3>1. CASE v \in reviews
        BY <1>0, <2>4, <3>1 DEF GradesInv, Graded
    <3>2. CASE v \notin reviews
      <4>1. v.loop = l /\ v.seq = t.seq /\ v.verdict = t.trace /\ v.reply = t.trace
          BY <1>17, <2>4, <3>2
      <4>2. \A r \in RecordsOf(l) : r.seq = r0.seq => r = r0
          BY <1>0, <1>4, <2>4, <4>1, OneRecordPerNumber
      <4> QED
          BY <1>4, <4>1, <4>2 DEF RecordsOf
    <3> QED
        BY <3>1, <3>2
  <2> QED
      BY <1>1, <2>1, <2>2, <2>3, <2>4 DEF GradesInv, Below, Graded, More, Live
<1>19. LogInv'
    BY <1>0, <1>1, <1>18
       DEF LogInv, TurnsInv, QueueInv, TableInv, NumbersInv, Below, Parted, More, Live
\* A row of the loop, or of another one, is as it was.
<1>20. ASSUME NEW k, k \notin split, NEW r, Verdict(k, r) \in reviews PROVE Verdict(k, r) \in reviews'
    BY <1>13, <1>14, <1>20 DEF Verdict
<1>21. PassesInv'
  <2> SUFFICES ASSUME NEW v \in Workers, NEW r \in events,
                      worker'[v].pc \in {"grade", "empty"},
                      worker'[v].loop \notin split \cup missed',
                      r.loop = worker'[v].loop, r.kind = "record"
               PROVE  \/ Verdict(worker'[v].loop, r) \in reviews'
                      \/ /\ worker'[v].pc = "grade"
                         /\ \E u \in worker'[v].turns : u.seq = r.seq /\ u.trace = r.trace
      BY <1>1 DEF PassesInv, Settled, Verdict
  <2>1. worker'[v].loop = worker[v].loop /\ worker'[v].pc = worker[v].pc
      BY <1>1, <1>8 DEF l
  <2>2. Settled(v, r)
      BY <1>0, <1>16, <2>1 DEF PassInv, PassesInv
  <2>3. CASE Verdict(worker[v].loop, r) \in reviews
      BY <1>20, <2>1, <2>3
  <2>4. ASSUME worker[v].pc = "grade", NEW u \in worker[v].turns, u.seq = r.seq, u.trace = r.trace
        PROVE  \/ Verdict(worker'[v].loop, r) \in reviews'
               \/ /\ worker'[v].pc = "grade"
                  /\ \E x \in worker'[v].turns : x.seq = r.seq /\ x.trace = r.trace
    <3>1. CASE u \in worker'[v].turns
        BY <2>1, <2>4, <3>1
    <3>2. CASE u \notin worker'[v].turns
      <4>1. v = w /\ u = t
          BY <1>8, <2>4, <3>2
      <4>2. worker'[v].loop = l
          BY <1>8, <4>1
      <4>3. r \in RecordsOf(l) /\ r.seq = r0.seq
          BY <1>4, <2>4, <4>1, <4>2 DEF RecordsOf
      <4>4. r = r0
          BY <1>0, <1>4, <4>2, <4>3, OneRecordPerNumber
      <4> QED
          BY <1>15, <4>2, <4>4
    <3> QED
        BY <3>1, <3>2
  <2> QED
      BY <2>2, <2>3, <2>4 DEF Settled
<1>22. DoneIsGraded'
  <2> SUFFICES ASSUME NEW k \in done \ (split \cup missed'), NEW r \in RecordsOf(k)
               PROVE  Verdict(k, r) \in reviews'
      BY <1>1 DEF DoneIsGraded, Verdict, RecordsOf
  <2>1. Verdict(k, r) \in reviews
      BY <1>0, <1>16 DEF PassInv, DoneIsGraded, Verdict
  <2> QED
      BY <1>20, <2>1
<1> QED
    BY <1>8, <1>9, <1>10, <1>19, <1>21, <1>22 DEF ReviewInv, PassInv

\* A loop is marked by the pass that has none of its turns in hand any more.
LEMMA MarkedIsGraded ==
    ASSUME PassInv, NEW w \in Workers, worker[w].pc \in {"grade", "empty"},
           worker[w].pc = "empty" \/ worker[w].turns = {},
           UNCHANGED <<events, split, missed, reviews>>, done' \subseteq done \cup {worker[w].loop}
    PROVE  DoneIsGraded'
<1> SUFFICES ASSUME NEW k \in done' \ (split \cup missed), NEW r \in RecordsOf(k)
             PROVE  Verdict(k, r) \in reviews
    BY DEF DoneIsGraded, RecordsOf, Verdict
<1>1. CASE k \in done
    BY <1>1 DEF PassInv, DoneIsGraded, Verdict
<1>2. CASE k \notin done
  <2>1. k = worker[w].loop /\ r \in events /\ r.loop = k /\ r.kind = "record"
      BY <1>2 DEF RecordsOf
  <2>2. Settled(w, r)
      BY <2>1 DEF PassInv, PassesInv
  <2> QED
      BY <2>1, <2>2 DEF Settled
<1> QED
    BY <1>1, <1>2

LEMMA MarksKeepsInv == ASSUME ReviewInv, NEW w \in Workers, Marks(w) PROVE ReviewInv'
<1> DEFINE l == worker[w].loop
<1>0. LogInv /\ PassInv /\ WorkersInv
    BY DEF ReviewInv, PassInv
<1>1. /\ UNCHANGED <<phase, busy, latest, turns, queue, seqs, events, rows, reviews, split, missed>>
      /\ worker[w].pc = "grade" /\ worker[w].turns = {}
    BY DEF Marks, chats, log
<1>2. LogInv'
    BY <1>0, <1>1, LogUndisturbed
<1>3. done' \subseteq done \cup {l}
    BY DEF Marks
<1>4. DoneIsGraded'
    BY <1>0, <1>1, <1>3, MarkedIsGraded
<1>5. CASE Goes(w, worker[w].todo)
    BY <1>0, <1>1, <1>2, <1>4, <1>5, GoesKeepsPass DEF ReviewInv
<1>6. CASE worker' = [worker EXCEPT ![w].pc = "empty"]
  <2>1. worker[w] = Now(w, "grade", {}, worker[w].graded) /\ DOMAIN worker = Workers
      BY <1>0, <1>1 DEF WorkersInv, Now
  <2> DEFINE next == Now(w, "empty", {}, worker[w].graded)
  <2>2. worker' = [worker EXCEPT ![w] = next]
    <3>1. [worker[w] EXCEPT !.pc = "empty"] = next
        BY <2>1 DEF Now
    <3>2. worker' = [worker EXCEPT ![w] = [worker[w] EXCEPT !.pc = "empty"]]
        BY <1>6, <2>1
    <3> QED
        BY <3>1, <3>2
  <2>3. /\ next = [pc |-> next.pc, todo |-> next.todo, loop |-> next.loop,
                   turns |-> next.turns, graded |-> next.graded]
        /\ next.turns = {} /\ next.loop = l
      BY DEF Now
  <2> HIDE DEF next, l
  <2>4. WorkersInv' /\ worker'[w] = next /\ \A v \in Workers \ {w} : worker'[v] = worker[v]
      BY <1>0, <2>2, <2>3, WorkerSteps
  <2>5. TurnsInHand' /\ JudgedInContext'
      BY <1>0, <1>1, <2>3, <2>4 DEF PassInv, TurnsInHand, JudgedInContext, Recorded, RecordsOf, LinesOf
  <2>6. PassesInv'
    <3> SUFFICES ASSUME NEW v \in Workers, NEW r \in events,
                        worker'[v].pc \in {"grade", "empty"},
                        worker'[v].loop \notin split \cup missed,
                        r.loop = worker'[v].loop, r.kind = "record"
                 PROVE  Settled(v, r)'
        BY <1>1 DEF PassesInv
    <3>1. CASE v = w
      <4>1. worker'[v].loop = worker[v].loop /\ worker[v].pc = "grade" /\ worker[v].turns = {}
          BY <1>1, <2>3, <2>4, <3>1 DEF l
      <4>2. Settled(v, r)
          BY <1>0, <4>1 DEF PassInv, PassesInv
      <4> QED
          BY <1>1, <4>1, <4>2 DEF Settled, Verdict
    <3>2. CASE v # w
      <4>1. worker'[v] = worker[v]
          BY <2>4, <3>2
      <4>2. Settled(v, r)
          BY <1>0, <4>1 DEF PassInv, PassesInv
      <4> QED
          BY <1>1, <4>1, <4>2 DEF Settled, Verdict
    <3> QED
        BY <3>1, <3>2
  <2> QED
      BY <1>2, <1>4, <2>4, <2>5, <2>6 DEF ReviewInv, PassInv
<1> QED
    BY <1>5, <1>6, Zenon DEF Marks

\* The third empty try in a row marks too; the others only go on.
LEMMA EmptyKeepsInv == ASSUME ReviewInv, NEW w \in Workers, Shrugs(w) \/ GivesUp(w) PROVE ReviewInv'
<1>0. LogInv /\ PassInv /\ WorkersInv
    BY DEF ReviewInv, PassInv
<1>1. /\ UNCHANGED <<phase, busy, latest, turns, queue, seqs, events, rows, reviews, split, missed>>
      /\ worker[w].pc = "empty"
    BY DEF Shrugs, GivesUp, chats, log, grades
<1>2. done' \subseteq done \cup {worker[w].loop}
    BY DEF Shrugs, GivesUp, grades
<1>3. \E todo : Goes(w, todo)
    BY DEF Shrugs, GivesUp
<1>4. LogInv'
    BY <1>0, <1>1, LogUndisturbed
<1>5. DoneIsGraded'
    BY <1>0, <1>1, <1>2, MarkedIsGraded
<1> QED
    BY <1>0, <1>1, <1>3, <1>4, <1>5, GoesKeepsPass DEF ReviewInv

\* The sweep and the hook take a loop up.
LEMMA TakesKeepsInv == ASSUME ReviewInv, sweep_once \/ HookTakes PROVE ReviewInv'
<1>0. LogInv /\ PassInv
    BY DEF ReviewInv
<1>1. UNCHANGED <<phase, busy, latest, turns, queue, seqs, events, reviews, done, split, missed>>
    BY DEF sweep_once, HookTakes, chats, log, grades
<1>2. \E w \in Workers : \E todo : Goes(w, todo)
    BY DEF sweep_once, HookTakes, Workers
<1>3. LogInv'
    BY <1>0, <1>1, LogUndisturbed
<1>4. DoneIsGraded'
    BY <1>0, <1>1 DEF PassInv, DoneIsGraded, RecordsOf
<1>5. PassInv'
    BY <1>0, <1>1, <1>2, <1>4, GoesKeepsPass
<1> QED
    BY <1>3, <1>5 DEF ReviewInv

\* A restart loses what is in memory: a loop whose counter it took is split, and
\* one it found without a counter has no number to stay above.
LEMMA RestartsKeepsInv ==
    ASSUME ReviewInv, NEW newer \in BOOLEAN, NEW old, NEW older, Restarts(newer, old, older)
    PROVE  ReviewInv'
<1>0. LogInv /\ PassInv
    BY DEF ReviewInv
<1>1. /\ busy' = [l \in Loops |-> 0] /\ queue' = <<>> /\ seqs' = [l \in Loops |-> 0]
      /\ worker' = [w \in Workers |-> Idle]
      /\ split' = split \cup {l \in Loops : seqs[l] > 0}
      /\ UNCHANGED <<phase, latest, turns, missed>>
    BY DEF Restarts
<1>2. events' \subseteq events
    BY DEF Restarts
<1>3. (reviews' = {} /\ done' = {}) \/ UNCHANGED <<reviews, done>>
    BY DEF Restarts
<1>4. Len(queue') = 0 /\ Range(queue') = {} /\ queue' \in Seq(Entries)
    BY <1>1 DEF Range
<1>5. TurnsInv' /\ QueueInv' /\ TableInv'
  <2>1. TurnsInv'
    <3>1. busy' \in [Loops -> Nat] /\ \A l \in Loops : busy'[l] = 0
        BY <1>1
    <3>2. turns' \in Nat /\ latest' \in [Loops -> Nat] /\ phase' \in [Loops -> {"new", "open", "gone"}]
        BY <1>0, <1>1 DEF LogInv, TurnsInv
    <3>3. \A e \in events' : e.trace <= turns' /\ e.loop \in Loops
        BY <1>0, <1>1, <1>2 DEF LogInv, TurnsInv, TableInv
    <3> QED
        BY <1>4, <3>1, <3>2, <3>3 DEF TurnsInv
  <2>2. QueueInv'
      BY <1>4 DEF QueueInv
  <2>3. TableInv'
      BY <1>0, <1>2, <1>4 DEF LogInv, TableInv
  <2> QED
      BY <2>1, <2>2, <2>3
<1>6. ASSUME NEW l \in Loops, l \notin split', More(l, 0)'
      PROVE  l \notin split /\ More(l, 0) /\ seqs[l] = 0
  <2>1. l \notin split /\ seqs[l] = 0
      BY <1>0, <1>1, <1>6 DEF LogInv, NumbersInv
  <2>2. Live(l)'
      BY <1>4, <1>6 DEF More
  <2>3. Live(l)
      BY <1>1, <2>2 DEF Live
  <2> QED
      BY <2>1, <2>3 DEF More
<1>7. NumbersInv'
  <2>1. ASSUME NEW e \in events', e.loop \notin split', More(e.loop, 0)' PROVE FALSE
    <3>1. e \in events /\ e.loop \in Loops /\ e.seq \in Nat
        BY <1>0, <1>2 DEF LogInv, TableInv
    <3>2. e.seq < seqs[e.loop] /\ seqs[e.loop] = 0
        BY <1>0, <1>6, <2>1, <3>1 DEF LogInv, NumbersInv, Below
    <3> QED
        BY <3>1, <3>2
  <2>2. Below(events, seqs, 0)'
      BY <2>1 DEF Below, More, Live
  <2>3. Parted(events)'
      BY <1>0, <1>1, <1>2 DEF LogInv, NumbersInv, Parted
  <2> QED
      BY <1>1, <2>2, <2>3 DEF NumbersInv
<1>8. GradesInv'
  <2>1. ASSUME NEW v \in reviews', v.loop \notin split', More(v.loop, 0)' PROVE FALSE
    <3>1. v \in reviews /\ v.loop \in Loops /\ v.seq \in Nat
        BY <1>0, <1>3 DEF LogInv, GradesInv
    <3>2. v.seq < seqs[v.loop] /\ seqs[v.loop] = 0
        BY <1>0, <1>6, <2>1, <3>1 DEF LogInv, GradesInv, Below
    <3> QED
        BY <3>1, <3>2
  <2>2. Below(reviews, seqs, 0)'
      BY <2>1 DEF Below, More, Live
  <2>3. Graded(events)'
      BY <1>0, <1>1, <1>2, <1>3 DEF LogInv, GradesInv, Graded
  <2> QED
      BY <1>0, <1>3, <2>2, <2>3 DEF LogInv, GradesInv
<1>9. PassInv'
  <2>1. /\ WorkersInv' /\ \A w \in Workers : worker'[w] = Idle
      BY <1>1 DEF WorkersInv, Idle
  <2>2. \A w \in Workers : worker'[w].turns = {} /\ worker'[w].pc = "idle"
      BY <2>1 DEF Idle
  <2>3. TurnsInHand' /\ JudgedInContext' /\ PassesInv'
      BY <2>2 DEF TurnsInHand, JudgedInContext, PassesInv
  <2>4. DoneIsGraded'
      BY <1>0, <1>1, <1>2, <1>3 DEF PassInv, DoneIsGraded, RecordsOf
  <2> QED
      BY <2>1, <2>3, <2>4 DEF PassInv
<1> QED
    BY <1>5, <1>7, <1>8, <1>9 DEF ReviewInv, LogInv

LEMMA InitHasReviewInv == ASSUME ReviewInit PROVE ReviewInv
<1>1. /\ queue = <<>> /\ events = {} /\ reviews = {} /\ done = {}
      /\ seqs = [l \in Loops |-> 0] /\ turns = 0
      /\ busy = [l \in Loops |-> 0] /\ latest = [l \in Loops |-> 0]
      /\ phase = [l \in Loops |-> "new"] /\ worker = [w \in Workers |-> Idle]
    BY DEF ReviewInit
<1>2. Len(queue) = 0 /\ Range(queue) = {} /\ queue \in Seq(Entries)
    BY <1>1 DEF Range
<1>3. TurnsInv /\ QueueInv /\ TableInv
    BY <1>1, <1>2 DEF TurnsInv, QueueInv, TableInv
<1>4. NumbersInv /\ GradesInv
    BY <1>1 DEF NumbersInv, GradesInv, Below, Parted, Graded
<1>5. /\ WorkersInv
      /\ \A w \in Workers : worker[w].turns = {} /\ worker[w].pc = "idle"
    BY <1>1 DEF WorkersInv, Idle
<1>6. TurnsInHand /\ JudgedInContext /\ PassesInv /\ DoneIsGraded
    BY <1>1, <1>5 DEF TurnsInHand, JudgedInContext, PassesInv, DoneIsGraded
<1> QED
    BY <1>3, <1>4, <1>5, <1>6 DEF ReviewInv, LogInv, PassInv

LEMMA NextKeepsReviewInv == ReviewInv /\ [ReviewNext]_reviewVars => ReviewInv'
<1> SUFFICES ASSUME ReviewInv, [ReviewNext]_reviewVars PROVE ReviewInv'
    OBVIOUS
<1>1. CASE \E l \in Loops : Turn(l)
    BY <1>1, TurnKeepsInv
<1>2. CASE Flushes
    BY <1>2, FlushKeepsInv
<1>3. CASE sweep_once \/ HookTakes
    BY <1>3, TakesKeepsInv
<1>4. ASSUME NEW w \in Workers, Reviews(w) PROVE ReviewInv'
  <2>1. CASE Loads(w)
      BY <2>1, LoadsKeepsInv
  <2>2. CASE Grades(w)
      BY <2>2, GradesKeepsInv
  <2>3. CASE Marks(w)
      BY <2>3, MarksKeepsInv
  <2>4. CASE Shrugs(w) \/ GivesUp(w)
      BY <2>4, EmptyKeepsInv
  <2> QED
      BY <1>4, <2>1, <2>2, <2>3, <2>4 DEF Reviews
<1>5. ASSUME NEW newer \in BOOLEAN, NEW old, NEW older, Restarts(newer, old, older) PROVE ReviewInv'
    BY <1>5, RestartsKeepsInv
<1>6. CASE UNCHANGED reviewVars
  <2>1. UNCHANGED <<phase, busy, latest, turns, queue, seqs, events, reviews, done, worker, split, missed>>
      BY <1>6 DEF reviewVars, chats, log, grades
  <2> QED
      BY <2>1, LogUndisturbed, PassUndisturbed DEF ReviewInv
<1> QED
    BY <1>1, <1>2, <1>3, <1>4, <1>5, <1>6 DEF ReviewNext

\* What the judge is shown of a turn is the chat as it stood then, of what
\* reached the log: the lines that turn or an earlier one logged and not the
\* reply itself, in a loop no restart has split - whatever the writer dropped or
\* lost, and whatever it wrote under the pass.  (app/review/store.py, load_turns;
\* app/logstore.py, _flush)
THEOREM JudgedAsItStood == ReviewSpec => []JudgedInContext
<1>1. ReviewInit => ReviewInv
    BY InitHasReviewInv
<1>2. ReviewInv /\ [ReviewNext]_reviewVars => ReviewInv'
    BY NextKeepsReviewInv
<1>3. ReviewInv => JudgedInContext
    BY DEF ReviewInv, PassInv
<1> QED
    BY <1>1, <1>2, <1>3, PTL DEF ReviewSpec

\* A loop that carries the mark has each of its records graded, on the row of its
\* own number and with its own verdict, whichever worker graded and whichever
\* marked: but for loops a restart split, and those of which a pass missed
\* something.  (app/review/__init__.py, review_loop and _review_turn)
THEOREM MarkedMeansGraded == ReviewSpec => []DoneIsGraded
<1>1. ReviewInit => ReviewInv
    BY InitHasReviewInv
<1>2. ReviewInv /\ [ReviewNext]_reviewVars => ReviewInv'
    BY NextKeepsReviewInv
<1>3. ReviewInv => DoneIsGraded
    BY DEF ReviewInv, PassInv
<1> QED
    BY <1>1, <1>2, <1>3, PTL DEF ReviewSpec
=============================================================================
