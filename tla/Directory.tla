----------------------------- MODULE Directory ------------------------------
(***************************************************************************)
(* Lisa's address book: the snapshot in memory that the reply path reads,  *)
(* its mirror and outbox in Postgres, and Google's own book, reached only  *)
(* by the sync and the drain tasks.                                        *)
(*                                                                         *)
(* A name is the sequence of its index tokens, an address and a number are *)
(* in canonical form.  Google stamps a card with each change to it, and a  *)
(* sync token is the last stamp a listing saw.  Between two awaits a task  *)
(* runs alone, so what it does there is one step; a transaction of the     *)
(* store is one step, at its commit.                                       *)
(***************************************************************************)
EXTENDS Naturals, Sequences, FiniteSets, SequencesExt, Functions, TLC

CONSTANTS
    Known,         \* the cards the owner's book starts with
    Fresh,         \* the resource names Google will give to new cards
    Emails,
    Said,          \* what Lisa may be asked to remember: name, email, phone
    Turns,         \* the texts of a turn, as sequences of tokens
    Leads,         \* <<s, t>>: s is a proper prefix of the token t
    Attempts,      \* contacts_write_attempts
    Limit,         \* contacts_max_in_prompt
    MaxActs,       \* bound: what the owner does: an address remembered or used, an edit in Google
    MaxFaults,     \* bound: calls of the store or of Google that fail
    MaxKills       \* bound: times the flow dies

NONE == "none"

ASSUME DirectoryConstants ==
    /\ DOMAIN Known \cap Fresh = {}
    /\ \A r \in DOMAIN Known : "emails" \in DOMAIN Known[r]
    /\ \A t \in Turns : t \in Seq(Range(t))
    /\ Attempts \in Nat \ {0} /\ Limit \in Nat \ {0}
    /\ {MaxActs, MaxFaults, MaxKills} \subseteq Nat

VARIABLES
    book, stamp, ver,                   \* Google: the cards, their stamps, the last stamp
    rows, mlinks, cursor, outbox,       \* Postgres: mirror, links, sync token, writes owed
    up, store, contacts, links, token, ready, stale,    \* the Directory
    sync, drain, noting,                \* its tasks
    owners,        \* history: the addresses the owner keeps on each card
    written,       \* history: the addresses Lisa's writes put on each card
    tries,         \* history: calls made for each job
    acts, faults, kills

google == <<book, stamp, ver, owners>>
durable == <<rows, mlinks, cursor, outbox>>
memory == <<up, store, contacts, links, token, ready, stale>>
tasks == <<sync, drain, noting>>
past == <<written, tries>>
budget == <<acts, faults, kills>>
vars == <<google, durable, memory, tasks, past, budget>>

Empty == [x \in {} |-> NONE]
Without(f, S) == Restrict(f, DOMAIN f \ S)
With(f, x, v) == [y \in DOMAIN f \cup {x} |-> IF y = x THEN v ELSE f[y]]
Nobody == <<"nobody", NONE>>
Learnt(e) == <<"learned", e>>
Key(job) == <<job.rn, job.email>>

Acts == acts < MaxActs /\ acts' = acts + 1
Fault == faults < MaxFaults /\ faults' = faults + 1
NoFault == UNCHANGED faults

-----------------------------------------------------------------------------
(* The index: exact lookups over the snapshot *)

AliasTokens(c) == Range(c.name) \cup c.nicks
Given(c) == IF c.name = <<>> THEN NONE ELSE c.name[1]

\* First name with every later one, neighbours, and a nickname with each.
Pairs(c) ==
    LET n == Len(c.name)
        later == {<<c.name[1], c.name[i]>> : i \in 2..n}
        neighbours == {<<c.name[i], c.name[i + 1]>> : i \in 1..(n - 1)}
        nicks == IF n = 0 THEN {} ELSE c.nicks \X Range(c.name)
    IN  later \cup neighbours \cup nicks \cup {<<q[2], q[1]>> : q \in nicks}

ByPair(a, b) == {r \in DOMAIN contacts : <<a, b>> \in Pairs(contacts[r])}
ByToken(t) == {r \in DOMAIN contacts : t \in AliasTokens(contacts[r])}
ByEmail(e) == {r \in DOMAIN contacts : e \in contacts[r].emails}
ByPhone(p) == {r \in DOMAIN contacts : p \in contacts[r].phones}

\* A booked identity first; more than one contact on a number is no match.
ResolvePhone(p) ==
    IF p \in DOMAIN links /\ links[p] \in DOMAIN contacts THEN {links[p]}
    ELSE IF Cardinality(ByPhone(p)) = 1 THEN ByPhone(p) ELSE {}

-----------------------------------------------------------------------------
(* mentions: whom a turn is about, the room before the book *)

Ask(acc, rs) ==
    [hits |-> acc.hits @@ [r \in rs |-> "name?"],
     covered |-> acc.covered \cup UNION {AliasTokens(contacts[r]) : r \in rs}]
Pick(acc, r) ==
    [hits |-> With(acc.hits, r, "name"),
     covered |-> acc.covered \cup AliasTokens(contacts[r])]

\* Mutant: the book is asked before the room.
LoneNameAnywhere(acc, t, members) ==
    LET cands == ByToken(t)
    IN  IF t \in acc.covered \/ cands = {} THEN acc
        ELSE IF Cardinality(cands) = 1 THEN Pick(acc, CHOOSE r \in cands : TRUE)
        ELSE Ask(acc, cands)

\* One token no hit accounts for yet.
LoneName(acc, t, members) ==
    LET here == {r \in members : t \in AliasTokens(contacts[r])}
        near == {p \in members \X {q[2] : q \in Leads} :
                     p[2] \in AliasTokens(contacts[p[1]]) /\ <<t, p[2]>> \in Leads}
        cands == ByToken(t)
        few(rs) == Cardinality(rs) <= Limit
    IN  IF t \in acc.covered THEN acc
        ELSE IF Cardinality(here) = 1 THEN Pick(acc, CHOOSE r \in here : TRUE)
        ELSE IF here # {} THEN (IF few(here) THEN Ask(acc, here) ELSE acc)
        ELSE IF Cardinality(near) = 1 THEN Pick(acc, (CHOOSE q \in near : TRUE)[1])
        ELSE IF Cardinality(cands) = 1 THEN Pick(acc, CHOOSE r \in cands : TRUE)
        ELSE IF near = {} /\ cands # {} /\ few(cands) THEN Ask(acc, cands)
        ELSE acc

\* The contacts of a turn, each with why: in the text by address, by phone,
\* by full name, by a lone name.
Mentions(toks, typed, phone, phones) ==
    LET emails == UNION {ByEmail(e) : e \in typed}
        partner == IF phone = NONE THEN {} ELSE ResolvePhone(phone)
        members == UNION {ResolvePhone(p) : p \in (phones \cup {phone}) \ {NONE}}
        full == UNION {LET cands == ByPair(toks[i], toks[i + 1])
                           here == cands \cap members
                       IN  IF Cardinality(here) = 1 THEN here ELSE cands
                       : i \in 1..(Len(toks) - 1)}
        first == [r \in emails \cup partner \cup full |->
                     IF r \in emails THEN "email" ELSE IF r \in partner THEN "phone" ELSE "name"]
        start == [hits |-> first,
                  covered |-> UNION {AliasTokens(contacts[r]) : r \in DOMAIN first}]
        hits == FoldLeft(LAMBDA acc, t : LoneName(acc, t, members), start, toks).hits
    IN  IF ~ready THEN Empty
        ELSE [r \in DOMAIN hits |->
                 IF \/ hits[r] = "name" /\ r \in members
                    \/ hits[r] = "phone" /\ Given(contacts[r]) \in Range(toks)
                 THEN "phone+name" ELSE hits[r]]

\* The contacts whose address the prompt's block shows.
Shown(found) == {r \in DOMAIN found : found[r] # "name?"}

-----------------------------------------------------------------------------
(* plan_write: what a learned pair calls for *)

CandidatesByName(name) ==
    IF Len(name) = 1 THEN ByToken(name[1])
    ELSE {r \in ByPair(name[1], name[2]) : Range(name) \subseteq AliasTokens(contacts[r])}

Job(kind, rn, s) == [kind |-> kind, rn |-> rn, name |-> s.name, email |-> s.email, attempts |-> 0]

PlanWrite(s) ==
    LET partner == IF s.phone = NONE \/ s.name = <<>> THEN {}
                   ELSE {r \in ResolvePhone(s.phone) : Given(contacts[r]) = s.name[1]}
        cands == IF s.name = <<>> THEN {} ELSE CandidatesByName(s.name)
        targets == IF partner # {} THEN partner ELSE cands
        target == CHOOSE r \in targets : TRUE
    IN  IF \/ ~ready \/ ByEmail(s.email) # {}
           \/ Cardinality(targets) > 1
           \/ targets # {} /\ contacts[target].emails # {}
        THEN Job("nothing", Nobody, s)
        ELSE IF targets = {} THEN Job(IF Len(s.name) >= 2 THEN "create" ELSE "learn", Nobody, s)
        ELSE Job(IF contacts[target].source = "google" THEN "add_email" ELSE "learn", target, s)

-----------------------------------------------------------------------------
Idle == [pc |-> "idle"]
Rest == [pc |-> "idle", jobs |-> <<>>]

Init ==
    /\ book = Known /\ stamp = [r \in DOMAIN Known |-> 1] /\ ver = 1
    /\ owners = [r \in DOMAIN Known |-> Known[r].emails]
    /\ rows = Empty /\ mlinks = Empty /\ cursor = 0 /\ outbox = <<>>
    /\ up = FALSE /\ store = FALSE /\ contacts = Empty /\ links = Empty
    /\ token = 0 /\ ready = FALSE /\ stale = TRUE
    /\ sync = Idle /\ drain = Rest /\ noting = Idle
    /\ written = {} /\ tries = Empty
    /\ acts = 0 /\ faults = 0 /\ kills = 0

-----------------------------------------------------------------------------
(* Google and the owner *)

Stamped(r) == ver' = ver + 1 /\ stamp' = With(stamp, r, ver + 1)

OwnerEdits ==
    /\ Acts
    /\ \E r \in DOMAIN book :
          /\ Stamped(r)
          /\ \/ \E es \in SUBSET Emails :
                   /\ es # book[r].emails
                   /\ book' = [book EXCEPT ![r].emails = es]
                   /\ owners' = [owners EXCEPT ![r] = es]
             \/ book' = Without(book, {r}) /\ owners' = Without(owners, {r})
    /\ UNCHANGED <<durable, memory, tasks, past, faults, kills>>

-----------------------------------------------------------------------------
(* The flow comes up and goes down *)

\* The mirror as it was left: a book that is not empty serves at once.
LoadMirror ==
    /\ contacts' = rows /\ links' = mlinks /\ token' = cursor
    /\ ready' = (rows # Empty)

\* Boot: the mirror is loaded, or the flow runs without a durable tier.
Boot ==
    /\ ~up /\ up' = TRUE
    /\ stale' \in BOOLEAN
    /\ \/ NoFault /\ store' = TRUE /\ LoadMirror
       \/ /\ Fault /\ UNCHANGED <<store, contacts, links, token, ready>>
    /\ UNCHANGED <<google, durable, tasks, past, acts, kills>>

\* Killed or stopped: the snapshot and the tasks are gone.
Dies ==
    /\ up /\ kills < MaxKills /\ kills' = kills + 1
    /\ up' = FALSE /\ store' = FALSE /\ contacts' = Empty /\ links' = Empty
    /\ token' = 0 /\ ready' = FALSE /\ stale' = TRUE
    /\ sync' = Idle /\ drain' = Rest /\ noting' = Idle
    /\ UNCHANGED <<google, durable, past, acts, faults>>

-----------------------------------------------------------------------------
(* Learning *)

\* _apply_learned: into the snapshot, then the mirror.
ApplyLearned(job) ==
    LET r == IF job.rn = Nobody THEN Learnt(job.email) ELSE job.rn
        c == IF r \in DOMAIN contacts
             THEN [contacts[r] EXCEPT !.emails = @ \cup {job.email}]
             ELSE [name |-> job.name, nicks |-> {}, emails |-> {job.email}, phones |-> {},
                   source |-> "learned", pref |-> NONE]
    IN  /\ contacts' = With(contacts, r, c)
        /\ \/ store /\ NoFault /\ rows' = With(rows, r, c)
           \/ store /\ Fault /\ UNCHANGED rows
           \/ ~store /\ NoFault /\ UNCHANGED rows
        /\ UNCHANGED <<outbox, tries>>

\* The write-ahead row; one that is owed already is not owed twice.
Enqueue(job) ==
    /\ IF \E i \in DOMAIN outbox : Key(outbox[i]) = Key(job)
       THEN NoFault /\ UNCHANGED <<outbox, tries>>
       ELSE \/ /\ NoFault /\ outbox' = Append(outbox, job)
               /\ tries' = With(tries, Key(job), 0)
            \/ Fault /\ UNCHANGED <<outbox, tries>>
    /\ UNCHANGED <<contacts, rows>>

\* The owner's yes lets the rider through, long after it was read.
Remember ==
    /\ up /\ Acts
    /\ \E s \in Said :
          LET job == PlanWrite(s)
          IN  /\ job.kind # "nothing"
              /\ IF job.kind = "learn" \/ ~store THEN ApplyLearned(job) ELSE Enqueue(job)
    /\ UNCHANGED <<google, mlinks, cursor, up, store, links, token, ready, stale,
                   tasks, written, kills>>

\* note_used, up to its first await: an invitation went to this address.
NoteUsed ==
    /\ up /\ noting.pc = "idle" /\ Acts
    /\ \E s \in Said : \E r \in ByEmail(s.email) :
          LET c == [contacts[r] EXCEPT !.pref = s.email]
          IN  /\ contacts' = [contacts EXCEPT ![r] = c]
              /\ noting' = [pc |-> "filing", rn |-> r, contact |-> c, phone |-> s.phone]
    /\ UNCHANGED <<google, durable, up, store, links, token, ready, stale, sync, drain,
                   past, faults, kills>>

\* ... and the rest of it: the row, and the identity the booking proved.
NoteFiled ==
    /\ noting.pc = "filing" /\ noting' = Idle
    /\ LET binds == /\ noting.phone # NONE
                    /\ noting.phone \in DOMAIN links => links[noting.phone] # noting.rn
           bound(f) == IF binds THEN With(f, noting.phone, noting.rn) ELSE f
           row(f) == With(f, noting.rn, noting.contact)
       IN  /\ links' = bound(links)
           /\ \/ store /\ NoFault /\ rows' = row(rows) /\ mlinks' = bound(mlinks)
              \/ store /\ Fault /\ UNCHANGED rows /\ mlinks' = bound(mlinks)
              \/ store /\ binds /\ Fault /\ rows' = row(rows) /\ UNCHANGED mlinks
              \/ ~store /\ NoFault /\ UNCHANGED <<rows, mlinks>>
    /\ UNCHANGED <<google, cursor, outbox, up, store, contacts, token, ready, stale,
                   sync, drain, past, acts, kills>>

-----------------------------------------------------------------------------
(* The sync task *)

\* Keep the column Google has nowhere to store.
Merged(r, person) ==
    person @@ [source |-> "google",
               pref |-> IF r \in DOMAIN contacts THEN contacts[r].pref ELSE NONE]

\* list_all: everything, or what changed since the token while it is good.
SyncList ==
    /\ up /\ sync.pc = "idle"
    /\ \E full \in BOOLEAN :
          /\ stale \/ ~ready \/ token = 0 => full
          /\ LET changed == {r \in DOMAIN stamp : stamp[r] > token}
             IN  sync' = [pc |-> "listed", full |-> full, next |-> ver,
                          people |-> IF full THEN book ELSE Restrict(book, changed \cap DOMAIN book),
                          gone |-> IF full THEN {} ELSE changed \ DOMAIN book]
    /\ UNCHANGED <<google, durable, memory, drain, noting, past, budget>>

\* Mutant: a full sweep merges, as a delta does.
SweepMerges == [r \in DOMAIN sync.people |-> Merged(r, sync.people[r])] @@ contacts

\* A full sweep replaces all but what Lisa learned by herself.
Sweep ==
    [r \in DOMAIN sync.people |-> Merged(r, sync.people[r])] @@
    Restrict(contacts, {r \in DOMAIN contacts : contacts[r].source = "learned"})

Delta == [r \in DOMAIN sync.people |-> Merged(r, sync.people[r])] @@ Without(contacts, sync.gone)

\* refresh, from the answer to the mirror's transaction.
SyncApply ==
    /\ sync.pc = "listed"
    /\ contacts' = IF sync.full THEN Sweep ELSE Delta
    /\ links' = Without(links, {p \in DOMAIN links : links[p] \in sync.gone})
    /\ stale' = (stale /\ ~sync.full)
    /\ token' = sync.next /\ ready' = TRUE
    /\ LET changed == sync.full \/ sync.people # Empty \/ sync.gone # {}
       IN  sync' = IF store
                   THEN [pc |-> "mirroring", full |-> sync.full, next |-> sync.next,
                         keep |-> IF changed THEN DOMAIN contacts' ELSE {}, old |-> Empty]
                   ELSE Idle
    /\ UNCHANGED <<google, durable, up, store, drain, noting, past, budget>>

\* store.replace commits: the rows are the snapshot's own contacts, except
\* those a drain has replaced meanwhile.
SyncMirror ==
    /\ sync.pc = "mirroring" /\ sync' = Idle
    /\ \/ LET upserted == [r \in sync.keep |-> (sync.old @@ contacts)[r]] @@ rows
              reaped == IF sync.full /\ sync.keep # {} THEN DOMAIN upserted \ sync.keep ELSE {}
          IN  /\ NoFault /\ cursor' = sync.next
              /\ rows' = Without(upserted, reaped)
              /\ mlinks' = Without(mlinks, {p \in DOMAIN mlinks : mlinks[p] \in reaped})
       \/ Fault /\ UNCHANGED <<rows, mlinks, cursor>>
    /\ UNCHANGED <<google, outbox, memory, drain, noting, past, acts, kills>>

\* The hours of contacts_full_resync_hours go by.
TimePasses ==
    /\ up /\ ~stale /\ stale' = TRUE
    /\ UNCHANGED <<google, durable, up, store, contacts, links, token, ready, tasks, past, budget>>

-----------------------------------------------------------------------------
(* The drain task *)

job == Head(drain.jobs)

DrainTake ==
    /\ up /\ store /\ ready /\ drain.pc = "idle" /\ outbox # <<>>
    /\ drain' = [pc |-> "next", jobs |-> outbox]
    /\ UNCHANGED <<google, durable, memory, sync, noting, past, budget>>

Answered(r, person) == drain' = [pc |-> "answered", jobs |-> drain.jobs, rn |-> r, person |-> person]
CallFailed == drain' = [pc |-> "failed", jobs |-> drain.jobs]
Tried == tries' = [tries EXCEPT ![Key(job)] = @ + 1]

\* Google takes Lisa's write; the answer may be lost.
Writes(r, person) ==
    /\ book' = With(book, r, person) /\ Stamped(r)
    /\ written' = written \cup {<<r, job.email>>}
    /\ \/ NoFault /\ Answered(r, person)
       \/ Fault /\ CallFailed

\* people.add_email reads the card afresh ...
AddRead ==
    /\ drain.pc = "next" /\ job.kind = "add_email" /\ Tried
    /\ \/ /\ NoFault /\ job.rn \in DOMAIN book
          /\ IF job.email \in book[job.rn].emails
             THEN Answered(job.rn, book[job.rn]) /\ written' = written \cup {Key(job)}
             ELSE /\ drain' = [pc |-> "read", jobs |-> drain.jobs,
                               person |-> book[job.rn], etag |-> stamp[job.rn]]
                  /\ UNCHANGED written
       \/ NoFault /\ job.rn \notin DOMAIN book /\ CallFailed /\ UNCHANGED written
       \/ Fault /\ CallFailed /\ UNCHANGED written
    /\ UNCHANGED <<google, durable, memory, sync, noting, acts, kills>>

\* Mutant: the addresses come from the snapshot, and no etag goes along.
AddFromSnapshot ==
    /\ drain.pc = "read"
    /\ job.rn \in DOMAIN book \cap DOMAIN contacts
    /\ Writes(job.rn, [book[job.rn] EXCEPT !.emails = contacts[job.rn].emails \cup {job.email}])
    /\ UNCHANGED <<owners, tries, durable, memory, sync, noting, acts, kills>>

\* ... and writes it back whole, against the etag it read.
AddWrite ==
    /\ drain.pc = "read"
    /\ \/ /\ job.rn \in DOMAIN book /\ stamp[job.rn] = drain.etag
          /\ Writes(job.rn, [drain.person EXCEPT !.emails = @ \cup {job.email}])
       \/ /\ job.rn \in DOMAIN book => stamp[job.rn] # drain.etag
          /\ NoFault /\ CallFailed /\ UNCHANGED <<book, stamp, ver, written>>
       \/ Fault /\ CallFailed /\ UNCHANGED <<book, stamp, ver, written>>
    /\ UNCHANGED <<owners, tries, durable, memory, sync, noting, acts, kills>>

\* people.create: Google makes a new card at every call.
Create ==
    /\ drain.pc = "next" /\ job.kind = "create" /\ Tried
    /\ \/ LET r == CHOOSE f \in Fresh : f \notin DOMAIN stamp
          IN /\ Writes(r, [name |-> job.name, nicks |-> {}, emails |-> {job.email}, phones |-> {}])
             /\ owners' = With(owners, r, {})
       \/ Fault /\ CallFailed /\ UNCHANGED <<book, stamp, ver, owners, written>>
    /\ UNCHANGED <<durable, memory, sync, noting, acts, kills>>

\* A key is owed at most once.
Owed(j) == RemoveAt(outbox, CHOOSE i \in DOMAIN outbox : Key(outbox[i]) = Key(j))
GoesOn == drain' = IF Len(drain.jobs) = 1 THEN Rest ELSE [pc |-> "next", jobs |-> Tail(drain.jobs)]

\* Mutant: the first failure is the last.
TerminalAtOnce(j) == TRUE

\* A create that failed is not tried again (directory.py:764).  One that the process died
\* under is: its row stays, with no attempt counted, and Google may have the person by then.
Terminal(j) == j.attempts + 1 >= (IF j.kind = "create" THEN 1 ELSE Attempts)

\* _rollback: an address given up leaves the snapshot.
Rollback(cs) ==
    IF job.rn \in DOMAIN cs THEN [cs EXCEPT ![job.rn].emails = @ \ {job.email}] ELSE cs

\* store.fail, over the snapshot the failed attempt left.
Fails(cs) ==
    LET now == CHOOSE o \in Range(outbox) : Key(o) = Key(job)
    IN  IF Terminal(now)
        THEN outbox' = Owed(job) /\ contacts' = Rollback(cs)
        ELSE /\ outbox' = [i \in DOMAIN outbox |->
                              IF Key(outbox[i]) = Key(job)
                              THEN [outbox[i] EXCEPT !.attempts = @ + 1] ELSE outbox[i]]
             /\ contacts' = cs

\* The call failed; when the store does too, the pass is over.
DrainFails ==
    /\ drain.pc = "failed"
    /\ \/ NoFault /\ Fails(contacts) /\ GoesOn
       \/ Fault /\ drain' = Rest /\ UNCHANGED <<outbox, contacts>>
    /\ UNCHANGED <<google, rows, mlinks, cursor, up, store, links, token, ready, stale,
                   sync, noting, past, acts, kills>>

\* The card comes into the snapshot and the row goes.
DrainSettles ==
    /\ drain.pc = "answered"
    /\ LET r == drain.rn
           merged == With(contacts, r, Merged(r, drain.person))
       IN  /\ sync' = IF sync.pc = "mirroring" /\ r \in sync.keep
                      THEN [sync EXCEPT !.old = @ @@ (r :> contacts[r])] ELSE sync
           /\ \/ NoFault /\ contacts' = merged /\ outbox' = Owed(job) /\ GoesOn
              \/ Fault /\ Fails(merged) /\ GoesOn
    /\ UNCHANGED <<google, rows, mlinks, cursor, up, store, links, token, ready, stale,
                   noting, past, acts, kills>>

-----------------------------------------------------------------------------
Syncs == SyncList \/ SyncApply \/ SyncMirror
Drains == DrainTake \/ AddRead \/ AddWrite \/ Create \/ DrainFails \/ DrainSettles

Next ==
    \/ OwnerEdits \/ Boot \/ Dies \/ TimePasses
    \/ Remember \/ NoteUsed \/ NoteFiled
    \/ SyncList \/ SyncApply \/ SyncMirror
    \/ DrainTake \/ AddRead \/ AddWrite \/ Create \/ DrainFails \/ DrainSettles

\* The supervisor of the container starts the flow again, the two loops run
\* for ever, and the clock goes on.
Fairness ==
    /\ WF_vars(Boot) /\ WF_vars(TimePasses) /\ WF_vars(NoteFiled)
    /\ WF_vars(Syncs) /\ WF_vars(Drains)

Spec == Init /\ [][Next]_vars /\ Fairness

-----------------------------------------------------------------------------
(* Properties *)

\* add_email constructs the append out of a fresh read: an address the owner
\* put on a card himself is never lost to one of Lisa's writes.
OwnersAddressesSurvive == \A r \in DOMAIN book : owners[r] \subseteq book[r].emails

\* The outbox is written first and emptied last: through crashes, lost
\* answers and a failing store, an address taken into it is on the card, or
\* still owed, or was given every attempt the settings allow.
GivenItsTries ==
    \A k \in DOMAIN tries :
        \/ \E i \in DOMAIN outbox : Key(outbox[i]) = k
        \/ \E w \in written : w[2] = k[2] /\ (k[1] # Nobody => w[1] = k[1])
        \/ tries[k] >= (IF k[1] = Nobody THEN 1 ELSE Attempts)

\* A lone name that one person in the room answers to shows no address of
\* anyone else, whoever is on file.
RoomAnswersFirst ==
    \A t \in Turns : Len(t) = 1 /\ ready =>
        \A room \in SUBSET {s.phone : s \in Said} :
            LET here == {r \in UNION {ResolvePhone(p) : p \in room \ {NONE}} :
                            t[1] \in AliasTokens(contacts[r])}
            IN  \A r \in here : here = {r} => Shown(Mentions(t, {}, NONE, room)) = {r}

\* With nobody writing any more, the outbox empties and Google's book, the
\* snapshot and the mirror come to agree for good, whatever was applied late,
\* lost or overwritten on the way.  (A book left empty reaps nothing.)
BookSettles ==
    LET held == {r \in DOMAIN contacts : contacts[r].source = "google"}
    IN  <>[](/\ held = DOMAIN book
             /\ \A r \in held : contacts[r].emails = book[r].emails
             /\ store => outbox = <<>>
             /\ store /\ contacts # Empty => rows = contacts)

=============================================================================
