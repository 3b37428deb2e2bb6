---------------------------- MODULE DirectoryProofs ----------------------------
(***************************************************************************)
(* The owner's addresses survive Lisa's writes to his book, for any book,  *)
(* any writes and any interleaving of his edits with the drain.  The       *)
(* argument is the etag: a card that Lisa has read and that nobody has     *)
(* touched since is the card she read, and every touch has a new stamp.    *)
(* What the outbox took is on its card, still owed, or was given every     *)
(* attempt.  And a lone name is asked of the room before the book.         *)
(***************************************************************************)
EXTENDS Directory, FiniteSetTheorems, TLAPS

HasEmails(person) == "emails" \in DOMAIN person

BookInv ==
    /\ ver \in Nat
    /\ DOMAIN owners = DOMAIN book /\ DOMAIN book \subseteq DOMAIN stamp
    /\ \A r \in DOMAIN stamp : stamp[r] \in Nat /\ stamp[r] <= ver
    /\ \A r \in DOMAIN book : HasEmails(book[r])
    /\ OwnersAddressesSurvive

\* The card the drain has read is the card in the book, while its stamp is.
ReadInv ==
    drain.pc = "read" =>
        /\ HasEmails(drain.person)
        /\ drain.etag \in Nat /\ drain.etag <= ver
        /\ job.rn \in DOMAIN book /\ stamp[job.rn] = drain.etag => drain.person = book[job.rn]

IInv == BookInv /\ ReadInv

LEMMA Begins == Init => IInv
<1> SUFFICES ASSUME Init PROVE IInv
  OBVIOUS
<1>1. drain.pc # "read"
  BY DEF Init, Rest
<1>2. BookInv
  BY DirectoryConstants DEF Init, BookInv, HasEmails, OwnersAddressesSurvive
<1> QED BY <1>1, <1>2 DEF IInv, ReadInv

LEMMA Elsewhere ==
    ASSUME IInv, UNCHANGED google, UNCHANGED drain \/ drain'.pc # "read"
    PROVE  IInv'
  BY DEF IInv, BookInv, ReadInv, OwnersAddressesSurvive, google, job

\* A card is put into the book: what it must have is all that the owner keeps on it.
LEMMA Puts ==
    ASSUME IInv, NEW r, NEW person, HasEmails(person),
           book' = With(book, r, person), Stamped(r),
           \/ UNCHANGED owners /\ r \in DOMAIN book /\ owners[r] \subseteq person.emails
           \/ owners' = With(owners, r, {}),
           drain'.pc # "read"
    PROVE  IInv'
<1>1. /\ DOMAIN book' = DOMAIN book \cup {r} /\ book'[r] = person
      /\ \A q \in DOMAIN book \ {r} : book'[q] = book[q]
  BY DEF With
<1>2. /\ ver' = ver + 1 /\ DOMAIN stamp' = DOMAIN stamp \cup {r} /\ stamp'[r] = ver + 1
      /\ \A q \in DOMAIN stamp \ {r} : stamp'[q] = stamp[q]
  BY DEF With, Stamped
<1>3. DOMAIN owners' = DOMAIN book' /\ \A q \in DOMAIN book' : owners'[q] \subseteq book'[q].emails
  <2>1. CASE UNCHANGED owners /\ r \in DOMAIN book /\ owners[r] \subseteq person.emails
    BY <1>1, <2>1 DEF IInv, BookInv, OwnersAddressesSurvive
  <2>2. CASE owners' = With(owners, r, {})
    <3>1. /\ DOMAIN owners' = DOMAIN owners \cup {r} /\ owners'[r] = {}
          /\ \A q \in DOMAIN owners \ {r} : owners'[q] = owners[q]
      BY <2>2 DEF With
    <3> QED BY <1>1, <3>1 DEF IInv, BookInv, OwnersAddressesSurvive
  <2> QED BY <2>1, <2>2
<1>4. BookInv'
  BY <1>1, <1>2, <1>3 DEF IInv, BookInv, OwnersAddressesSurvive
<1> QED BY <1>4 DEF IInv, ReadInv

LEMMA EditKeeps == ASSUME IInv, OwnerEdits PROVE IInv'
<1>1. PICK r \in DOMAIN book :
          /\ Stamped(r)
          /\ \/ \E es \in SUBSET Emails :
                   /\ book' = [book EXCEPT ![r].emails = es]
                   /\ owners' = [owners EXCEPT ![r] = es]
             \/ book' = Without(book, {r}) /\ owners' = Without(owners, {r})
  BY DEF OwnerEdits
<1>2. /\ ver' = ver + 1 /\ DOMAIN stamp' = DOMAIN stamp \cup {r} /\ stamp'[r] = ver + 1
      /\ \A q \in DOMAIN stamp \ {r} : stamp'[q] = stamp[q]
  BY <1>1 DEF With, Stamped
<1>3. /\ DOMAIN owners' = DOMAIN book' /\ DOMAIN book' \subseteq DOMAIN book
      /\ \A q \in DOMAIN book' : HasEmails(book'[q]) /\ owners'[q] \subseteq book'[q].emails
      /\ \A q \in DOMAIN book' \ {r} : book'[q] = book[q]
  <2>1. CASE book' = Without(book, {r}) /\ owners' = Without(owners, {r})
    BY <2>1 DEF Without, Restrict, IInv, BookInv, OwnersAddressesSurvive
  <2>2. ASSUME NEW es, book' = [book EXCEPT ![r].emails = es], owners' = [owners EXCEPT ![r] = es]
        PROVE  /\ DOMAIN owners' = DOMAIN book' /\ DOMAIN book' \subseteq DOMAIN book
               /\ \A q \in DOMAIN book' : HasEmails(book'[q]) /\ owners'[q] \subseteq book'[q].emails
               /\ \A q \in DOMAIN book' \ {r} : book'[q] = book[q]
    <3>1. book'[r] = [book[r] EXCEPT !.emails = es] /\ DOMAIN book' = DOMAIN book
          /\ \A q \in DOMAIN book \ {r} : book'[q] = book[q]
      BY <2>2
    <3>2. book'[r].emails = es /\ HasEmails(book'[r])
      BY <3>1 DEF IInv, BookInv, HasEmails
    <3>3. DOMAIN owners' = DOMAIN owners /\ owners'[r] = es
          /\ \A q \in DOMAIN owners \ {r} : owners'[q] = owners[q]
      BY <2>2 DEF IInv, BookInv
    <3> QED BY <3>1, <3>2, <3>3 DEF IInv, BookInv, OwnersAddressesSurvive
  <2> QED BY <1>1, <2>1, <2>2
<1>4. BookInv'
  BY <1>2, <1>3 DEF IInv, BookInv, OwnersAddressesSurvive
<1>5. UNCHANGED drain
  BY DEF OwnerEdits, tasks
<1>6. ReadInv'
  BY <1>2, <1>3, <1>5 DEF IInv, BookInv, ReadInv, job
<1> QED BY <1>4, <1>6 DEF IInv

LEMMA AddReadKeeps == ASSUME IInv, AddRead PROVE IInv'
<1>1. CASE drain'.pc # "read"
  BY <1>1, Elsewhere DEF AddRead
<1>2. CASE /\ job.rn \in DOMAIN book
           /\ drain' = [pc |-> "read", jobs |-> drain.jobs,
                        person |-> book[job.rn], etag |-> stamp[job.rn]]
  <2>1. job' = job /\ drain'.person = book[job.rn] /\ drain'.etag = stamp[job.rn]
    BY <1>2 DEF job
  <2>2. UNCHANGED google
    BY DEF AddRead
  <2> QED BY <1>2, <2>1, <2>2 DEF IInv, BookInv, ReadInv, OwnersAddressesSurvive, google
<1> QED BY <1>1, <1>2 DEF AddRead, Answered, CallFailed

LEMMA AddWriteKeeps == ASSUME IInv, AddWrite PROVE IInv'
<1> DEFINE r == job.rn
           person == [drain.person EXCEPT !.emails = @ \cup {job.email}]
<1>1. CASE CallFailed /\ UNCHANGED <<book, stamp, ver>>
  <2>1. UNCHANGED google /\ drain'.pc = "failed"
    BY <1>1 DEF AddWrite, CallFailed, google
  <2> QED BY <2>1, Elsewhere
<1>2. CASE r \in DOMAIN book /\ stamp[r] = drain.etag /\ Writes(r, person)
  <2>1. drain.pc = "read" /\ UNCHANGED owners
    BY DEF AddWrite
  <2>2. HasEmails(drain.person) /\ drain.person = book[r]
    BY <1>2, <2>1 DEF IInv, ReadInv
  <2>3. HasEmails(person) /\ owners[r] \subseteq person.emails
    BY <1>2, <2>2 DEF HasEmails, IInv, BookInv, OwnersAddressesSurvive
  <2>4. book' = With(book, r, person) /\ Stamped(r) /\ drain'.pc # "read"
    BY <1>2 DEF Writes, Answered, CallFailed
  <2> HIDE DEF r, person
  <2> QED BY <1>2, <2>1, <2>3, <2>4, Puts
<1> QED BY <1>1, <1>2 DEF AddWrite

LEMMA CreateKeeps == ASSUME IInv, Create PROVE IInv'
<1>1. CASE CallFailed /\ UNCHANGED <<book, stamp, ver, owners>>
  BY <1>1, Elsewhere DEF CallFailed, google
<1> DEFINE r == CHOOSE f \in Fresh : f \notin DOMAIN stamp
           person == [name |-> job.name, nicks |-> {}, emails |-> {job.email}, phones |-> {}]
<1>2. CASE Writes(r, person) /\ owners' = With(owners, r, {})
  <2>1. book' = With(book, r, person) /\ Stamped(r) /\ drain'.pc # "read"
    BY <1>2 DEF Writes, Answered, CallFailed
  <2>2. HasEmails(person)
    BY DEF HasEmails
  <2> HIDE DEF r, person
  <2> QED BY <1>2, <2>1, <2>2, Puts
<1> QED BY <1>1, <1>2 DEF Create

LEMMA NextKeeps == ASSUME IInv, [Next]_vars PROVE IInv'
<1>1. CASE OwnerEdits \/ AddRead \/ AddWrite \/ Create
  BY <1>1, EditKeeps, AddReadKeeps, AddWriteKeeps, CreateKeeps
<1>2. CASE Boot \/ TimePasses \/ Remember \/ NoteUsed \/ NoteFiled \/ SyncList \/ SyncApply
           \/ SyncMirror \/ UNCHANGED vars
  BY <1>2, Elsewhere
     DEF Boot, TimePasses, Remember, NoteUsed, NoteFiled, SyncList, SyncApply, SyncMirror,
         vars, tasks
<1>3. CASE Dies \/ DrainTake
  BY <1>3, Elsewhere DEF Dies, DrainTake, Rest
<1>4. CASE DrainFails \/ DrainSettles
  <2>1. UNCHANGED google /\ (GoesOn \/ drain' = Rest)
    BY <1>4 DEF DrainFails, DrainSettles
  <2>2. drain'.pc # "read"
    BY <2>1 DEF GoesOn, Rest
  <2> QED BY <2>1, <2>2, Elsewhere
<1> QED BY <1>1, <1>2, <1>3, <1>4 DEF Next

\* However his edits, Lisa's reads and writes, lost answers and deaths fall: no write of
\* hers costs the owner an address that he put on a card.
THEOREM OwnersKeepTheirs == Spec => []OwnersAddressesSurvive
<1>1. Init => IInv
  BY Begins
<1>2. IInv /\ [Next]_vars => IInv'
  BY NextKeeps
<1>3. IInv => OwnersAddressesSurvive
  BY DEF IInv, BookInv
<1> QED BY <1>1, <1>2, <1>3, PTL DEF Spec

-----------------------------------------------------------------------------
(***************************************************************************)
(* An address the outbox took is given its tries.  A key is owed at most   *)
(* once, so while the drain has a job in hand its row is there and nobody  *)
(* starts its count again; and the row never has more failures against it *)
(* than calls were made.                                                   *)
(***************************************************************************)

IsJob(j) ==
    /\ DOMAIN j = {"kind", "rn", "name", "email", "attempts"}
    /\ j.kind \in {"add_email", "create"} /\ (j.kind = "create" => j.rn = Nobody)
    /\ j.attempts \in Nat

\* A list of jobs, each for a key of its own.
IsJobs(s) ==
    /\ s \in Seq(Range(s)) /\ \A i \in DOMAIN s : IsJob(s[i])
    /\ \A i, n \in DOMAIN s : Key(s[i]) = Key(s[n]) => i = n

Delivered(k) == \E w \in written : w[2] = k[2] /\ (k[1] # Nobody => w[1] = k[1])

OutboxInv ==
    /\ IsJobs(outbox)
    /\ \A k \in DOMAIN tries : tries[k] \in Nat
    /\ \A i \in DOMAIN outbox :
          Key(outbox[i]) \in DOMAIN tries /\ outbox[i].attempts <= tries[Key(outbox[i])]
    /\ GivenItsTries

PassInv ==
    /\ drain.pc \in {"idle", "next", "read", "failed", "answered"}
    /\ drain.pc # "idle" =>
          /\ IsJobs(drain.jobs) /\ drain.jobs # <<>>
          /\ \A i \in DOMAIN drain.jobs : \E n \in DOMAIN outbox : Key(outbox[n]) = Key(drain.jobs[i])
    /\ drain.pc \in {"read", "failed", "answered"} =>
          \A i \in DOMAIN outbox : Key(outbox[i]) = Key(job) => outbox[i].attempts < tries[Key(job)]
    /\ drain.pc = "answered" => Delivered(Key(job))

TriesInv == OutboxInv /\ PassInv

LEMMA SeqGrows == ASSUME NEW S, NEW T, S \subseteq T, NEW s \in Seq(S) PROVE s \in Seq(T)
  OBVIOUS

LEMMA InRange == ASSUME NEW s, NEW i \in DOMAIN s PROVE s[i] \in Range(s)
  BY DEF Range

\* What a list of jobs is, without its range.
LEMMA ListOf ==
    ASSUME NEW S, NEW s \in Seq(S), \A i \in DOMAIN s : IsJob(s[i]),
           \A i, n \in DOMAIN s : Key(s[i]) = Key(s[n]) => i = n
    PROVE  IsJobs(s)
<1>1. s \in Seq(Range(s))
  <2>1. Len(s) \in Nat /\ DOMAIN s = 1..Len(s) /\ \A i \in 1..Len(s) : s[i] \in Range(s)
    BY InRange
  <2> QED BY <2>1
<1> QED BY <1>1 DEF IsJobs

LEMMA Appended ==
    ASSUME NEW s, IsJobs(s), NEW j, IsJob(j), \A i \in DOMAIN s : Key(s[i]) # Key(j)
    PROVE  /\ IsJobs(Append(s, j)) /\ DOMAIN s \subseteq DOMAIN Append(s, j)
           /\ \A i \in DOMAIN s : Append(s, j)[i] = s[i]
           /\ \A i \in DOMAIN Append(s, j) : i \in DOMAIN s \/ Append(s, j)[i] = j
           /\ \E i \in DOMAIN Append(s, j) : Append(s, j)[i] = j
<1> DEFINE S == Range(s) \cup {j}  t == Append(s, j)
<1>1. s \in Seq(S) /\ j \in S
  BY SeqGrows DEF IsJobs
<1>2. /\ Len(s) \in Nat /\ DOMAIN s = 1..Len(s)
      /\ t \in Seq(S) /\ DOMAIN t = 1..(Len(s) + 1)
      /\ (\A i \in 1..Len(s) : t[i] = s[i]) /\ t[Len(s) + 1] = j
  BY <1>1
<1> HIDE DEF t, S
<1>3. \A i \in DOMAIN t : i \in DOMAIN s \/ i = Len(s) + 1
  BY <1>2
<1>4. \A i \in DOMAIN t : IsJob(t[i])
  BY <1>2, <1>3 DEF IsJobs
<1>5. \A i, n \in DOMAIN t : Key(t[i]) = Key(t[n]) => i = n
  BY <1>2, <1>3 DEF IsJobs
<1>6. IsJobs(t)
  BY <1>2, <1>4, <1>5, ListOf
<1>7. Len(s) + 1 \in DOMAIN t
  BY <1>2
<1>8. DOMAIN s \subseteq DOMAIN t
  BY <1>2
<1> QED BY <1>2, <1>3, <1>6, <1>7, <1>8 DEF t

LEMMA TailOf ==
    ASSUME NEW s, IsJobs(s), s # <<>>
    PROVE  /\ Head(s) = s[1] /\ 1 \in DOMAIN s /\ IsJobs(Tail(s)) /\ (Len(s) # 1 => Tail(s) # <<>>)
           /\ \A i \in DOMAIN Tail(s) : \E n \in DOMAIN s : Tail(s)[i] = s[n] /\ Key(s[n]) # Key(s[1])
<1> DEFINE S == Range(s)  t == Tail(s)
<1>1. s \in Seq(S)
  BY DEF IsJobs
<1>2. /\ Len(s) \in Nat /\ Len(s) > 0 /\ DOMAIN s = 1..Len(s) /\ Head(s) = s[1]
      /\ t \in Seq(S) /\ Len(t) = Len(s) - 1 /\ DOMAIN t = 1..(Len(s) - 1)
      /\ \A i \in 1..(Len(s) - 1) : t[i] = s[i + 1]
  BY <1>1
<1> HIDE DEF t, S
<1>3. \A i \in DOMAIN t : i + 1 \in DOMAIN s /\ t[i] = s[i + 1] /\ i + 1 # 1
  BY <1>2
<1>4. 1 \in DOMAIN s
  BY <1>2
<1>5. \A i \in DOMAIN t : IsJob(t[i])
  BY <1>3 DEF IsJobs
<1>6. \A i, n \in DOMAIN t : Key(t[i]) = Key(t[n]) => i = n
  <2> SUFFICES ASSUME NEW i \in DOMAIN t, NEW n \in DOMAIN t, Key(t[i]) = Key(t[n]) PROVE i = n
    OBVIOUS
  <2>1. i + 1 = n + 1
    BY <1>3 DEF IsJobs
  <2> QED BY <1>2, <2>1
<1>7. IsJobs(t)
  BY <1>2, <1>5, <1>6, ListOf
<1>8. \A i \in DOMAIN t : Key(s[i + 1]) # Key(s[1])
  BY <1>3, <1>4 DEF IsJobs
<1>9. Len(s) # 1 => t # <<>>
  BY <1>2
<1> QED BY <1>2, <1>3, <1>4, <1>7, <1>8, <1>9 DEF t

LEMMA RemovedAt ==
    ASSUME NEW S, NEW s \in Seq(S), NEW i \in 1..Len(s)
    PROVE  /\ RemoveAt(s, i) \in Seq(S) /\ Len(RemoveAt(s, i)) = Len(s) - 1
           /\ \A j \in 1..(Len(s) - 1) :
                 RemoveAt(s, i)[j] = IF j < i THEN s[j] ELSE s[j + 1]
<1> DEFINE a == SubSeq(s, 1, i - 1)  b == SubSeq(s, i + 1, Len(s))
<1>0. Len(s) \in Nat /\ DOMAIN s = 1..Len(s) /\ i \in Nat
  OBVIOUS
<1>1. a \in Seq(S) /\ Len(a) = i - 1 /\ \A j \in 1..(i - 1) : a[j] = s[j]
  BY <1>0
<1>2. b \in Seq(S) /\ Len(b) = Len(s) - i /\ \A j \in 1..(Len(s) - i) : b[j] = s[i + j]
  <2>1. i + 1 \in Nat /\ i + 1 >= 1 /\ \A j \in (i + 1)..Len(s) : s[j] \in S
    BY <1>0
  <2>2. b = [j \in 1..(Len(s) - i) |-> s[i + j]]
    BY <1>0, <2>1
  <2>3. \A j \in 1..(Len(s) - i) : s[i + j] \in S
    BY <1>0, <2>1
  <2>4. Len(s) - i \in Nat
    BY <1>0
  <2> HIDE DEF b
  <2> QED BY <2>2, <2>3, <2>4
<1>3. RemoveAt(s, i) = a \o b
  BY DEF RemoveAt
<1> HIDE DEF a, b
<1>4. a \o b \in Seq(S) /\ Len(a \o b) = Len(s) - 1
  <2>0. a \in Seq(S) /\ b \in Seq(S)
    BY <1>1, <1>2
  <2>1. a \o b \in Seq(S) /\ Len(a \o b) = Len(a) + Len(b)
    BY <2>0
  <2> QED BY <1>0, <1>1, <1>2, <2>1
<1>5. ASSUME NEW j \in 1..(Len(s) - 1) PROVE (a \o b)[j] = IF j < i THEN s[j] ELSE s[j + 1]
  <2>1. CASE j < i
    BY <1>0, <1>1, <1>2, <2>1
  <2>2. CASE ~(j < i)
    <3>1. (a \o b)[j] = b[j - (i - 1)]
      BY <1>0, <1>1, <1>2, <2>2
    <3>2. j - (i - 1) \in 1..(Len(s) - i) /\ i + (j - (i - 1)) = j + 1
      BY <1>0, <2>2
    <3> QED BY <1>2, <2>2, <3>1, <3>2
  <2> QED BY <2>1, <2>2
<1> QED BY <1>3, <1>4, <1>5

LEMMA RowGoes ==
    ASSUME IsJobs(outbox), NEW j, \E n \in DOMAIN outbox : Key(outbox[n]) = Key(j)
    PROVE  /\ IsJobs(Owed(j))
           /\ \A i \in DOMAIN Owed(j) :
                 \E m \in DOMAIN outbox : Owed(j)[i] = outbox[m] /\ Key(outbox[m]) # Key(j)
           /\ \A m \in DOMAIN outbox :
                 Key(outbox[m]) # Key(j) => \E i \in DOMAIN Owed(j) : Owed(j)[i] = outbox[m]
<1> DEFINE at == CHOOSE i \in DOMAIN outbox : Key(outbox[i]) = Key(j)
           S == Range(outbox)  t == RemoveAt(outbox, at)
<1>1. at \in DOMAIN outbox /\ Key(outbox[at]) = Key(j)
  OBVIOUS
<1>2. t = Owed(j)
  BY DEF Owed
<1> HIDE DEF at
<1>3. /\ outbox \in Seq(S) /\ Len(outbox) \in Nat /\ DOMAIN outbox = 1..Len(outbox)
      /\ at \in 1..Len(outbox)
  BY <1>1 DEF IsJobs
<1>4. /\ t \in Seq(S) /\ Len(t) = Len(outbox) - 1
      /\ \A i \in 1..(Len(outbox) - 1) : t[i] = IF i < at THEN outbox[i] ELSE outbox[i + 1]
  BY <1>3, RemovedAt
<1> HIDE DEF t, S
<1>5. DOMAIN t = 1..(Len(outbox) - 1)
  BY <1>4
<1> DEFINE up1(i) == IF i < at THEN i ELSE i + 1
<1>6. ASSUME NEW i \in DOMAIN t
      PROVE  up1(i) \in DOMAIN outbox \ {at} /\ t[i] = outbox[up1(i)] /\ i \in Nat
  BY <1>3, <1>4, <1>5
<1>7. \A i, n \in DOMAIN t : up1(i) = up1(n) => i = n
  BY <1>3, <1>5
<1>8. ASSUME NEW m \in DOMAIN outbox \ {at} PROVE \E i \in DOMAIN t : t[i] = outbox[m]
  <2>1. CASE m < at
    <3>1. m \in DOMAIN t
      BY <1>3, <1>5, <2>1
    <3> QED BY <1>4, <1>5, <2>1, <3>1
  <2>2. CASE ~(m < at)
    <3>1. m - 1 \in DOMAIN t /\ ~(m - 1 < at) /\ (m - 1) + 1 = m
      BY <1>3, <1>5, <2>2
    <3> QED BY <1>4, <1>5, <3>1
  <2> QED BY <2>1, <2>2
<1>9. \A m \in DOMAIN outbox \ {at} : Key(outbox[m]) # Key(j)
  BY <1>1 DEF IsJobs
<1> HIDE DEF up1
<1>10. IsJobs(t)
  <2>1. \A i \in DOMAIN t : IsJob(t[i])
    BY <1>6 DEF IsJobs
  <2>2. \A i, n \in DOMAIN t : Key(t[i]) = Key(t[n]) => i = n
    <3> SUFFICES ASSUME NEW i \in DOMAIN t, NEW n \in DOMAIN t, Key(t[i]) = Key(t[n]) PROVE i = n
      OBVIOUS
    <3>1. up1(i) = up1(n)
      BY <1>6 DEF IsJobs
    <3> QED BY <1>7, <3>1
  <2> QED BY <1>4, <2>1, <2>2, ListOf
<1>11. \A i \in DOMAIN t : \E m \in DOMAIN outbox : t[i] = outbox[m] /\ Key(outbox[m]) # Key(j)
  BY <1>6, <1>9
<1>12. \A m \in DOMAIN outbox : Key(outbox[m]) # Key(j) => \E i \in DOMAIN t : t[i] = outbox[m]
  BY <1>1, <1>8
<1> QED BY <1>2, <1>10, <1>11, <1>12

\* One more failure against the row of j.
OneMore(j) ==
    [i \in DOMAIN outbox |-> IF Key(outbox[i]) = Key(j)
                             THEN [outbox[i] EXCEPT !.attempts = @ + 1] ELSE outbox[i]]

LEMMA RowFails ==
    ASSUME IsJobs(outbox), NEW j
    PROVE  /\ IsJobs(OneMore(j)) /\ DOMAIN OneMore(j) = DOMAIN outbox
           /\ \A i \in DOMAIN outbox :
                 /\ Key(OneMore(j)[i]) = Key(outbox[i])
                 /\ OneMore(j)[i].attempts =
                       IF Key(outbox[i]) = Key(j) THEN outbox[i].attempts + 1 ELSE outbox[i].attempts
<1> DEFINE t == OneMore(j)
<1>1. DOMAIN t = DOMAIN outbox
  BY DEF OneMore
<1>2. ASSUME NEW i \in DOMAIN outbox
      PROVE  /\ Key(t[i]) = Key(outbox[i]) /\ IsJob(t[i])
             /\ t[i].attempts = IF Key(outbox[i]) = Key(j) THEN outbox[i].attempts + 1
                                ELSE outbox[i].attempts
  <2>0. IsJob(outbox[i])
    BY DEF IsJobs
  <2>1. CASE Key(outbox[i]) = Key(j)
    <3>1. t[i] = [outbox[i] EXCEPT !.attempts = @ + 1]
      BY <2>1 DEF OneMore
    <3>2. /\ DOMAIN t[i] = DOMAIN outbox[i] /\ t[i].attempts = outbox[i].attempts + 1
          /\ t[i].kind = outbox[i].kind /\ t[i].rn = outbox[i].rn /\ t[i].email = outbox[i].email
      BY <2>0, <3>1 DEF IsJob
    <3> QED BY <2>0, <2>1, <3>2 DEF IsJob, Key
  <2>2. CASE Key(outbox[i]) # Key(j)
    <3>1. t[i] = outbox[i]
      BY <2>2 DEF OneMore
    <3> QED BY <2>0, <2>2, <3>1
  <2> QED BY <2>1, <2>2
<1> HIDE DEF t
<1>3. t \in Seq(Range(t))
  <2>1. Len(outbox) \in Nat /\ DOMAIN outbox = 1..Len(outbox)
    BY DEF IsJobs
  <2>2. t = [i \in 1..Len(outbox) |-> t[i]]
    BY <1>1, <2>1 DEF t, OneMore
  <2>3. \A i \in 1..Len(outbox) : t[i] \in Range(t)
    BY <1>1, <2>1, InRange
  <2> QED BY <2>1, <2>2, <2>3
<1>4. \A i, n \in DOMAIN t : Key(t[i]) = Key(t[n]) => i = n
  BY <1>1, <1>2 DEF IsJobs
<1>5. IsJobs(t)
  BY <1>1, <1>2, <1>3, <1>4 DEF IsJobs
<1> QED BY <1>1, <1>2, <1>5 DEF t

LEMMA TriesBegin == Init => TriesInv
<1> SUFFICES ASSUME Init PROVE TriesInv
  OBVIOUS
<1>1. outbox = <<>> /\ tries = Empty /\ drain.pc = "idle"
  BY DEF Init, Rest
<1>2. IsJobs(outbox) /\ DOMAIN outbox = {} /\ DOMAIN tries = {}
  <2>1. DOMAIN outbox = {} /\ outbox \in Seq(Range(outbox)) /\ DOMAIN tries = {}
    BY <1>1 DEF Empty
  <2> QED BY <2>1 DEF IsJobs
<1> QED BY <1>1, <1>2 DEF TriesInv, OutboxInv, PassInv, GivenItsTries

\* What touches neither the outbox nor its counts leaves them right.
LEMMA OutboxKept == ASSUME OutboxInv, UNCHANGED outbox, UNCHANGED past PROVE OutboxInv'
  BY DEF OutboxInv, IsJobs, GivenItsTries, past

LEMMA TriesElsewhere ==
    ASSUME TriesInv, UNCHANGED outbox, UNCHANGED past,
           \/ UNCHANGED drain
           \/ drain'.pc = "idle"
           \/ outbox # <<>> /\ drain' = [pc |-> "next", jobs |-> outbox]
    PROVE  TriesInv'
<1>1. OutboxInv'
  BY OutboxKept DEF TriesInv
<1>2. PassInv'
  <2>1. CASE UNCHANGED drain
    BY <2>1 DEF TriesInv, PassInv, Delivered, job, past
  <2>2. CASE drain'.pc = "idle"
    BY <2>2 DEF PassInv
  <2>3. CASE outbox # <<>> /\ drain' = [pc |-> "next", jobs |-> outbox]
    <3>1. drain'.pc = "next" /\ drain'.jobs = outbox /\ outbox' = outbox
      BY <2>3
    <3> QED BY <2>3, <3>1 DEF PassInv, TriesInv, OutboxInv
  <2> QED BY <2>1, <2>2, <2>3
<1> QED BY <1>1, <1>2 DEF TriesInv

\* What a pass has in hand has its row.
LEMMA InHand ==
    ASSUME TriesInv, drain.pc # "idle"
    PROVE  /\ IsJobs(drain.jobs) /\ drain.jobs # <<>> /\ IsJob(job)
           /\ \E n \in DOMAIN outbox : Key(outbox[n]) = Key(job)
           /\ Key(job) \in DOMAIN tries /\ tries[Key(job)] \in Nat
<1>1. IsJobs(drain.jobs) /\ drain.jobs # <<>>
  BY DEF TriesInv, PassInv
<1>2. job = drain.jobs[1] /\ 1 \in DOMAIN drain.jobs
  BY <1>1, TailOf DEF job
<1>3. PICK n \in DOMAIN outbox : Key(outbox[n]) = Key(job)
  BY <1>2 DEF TriesInv, PassInv
<1> QED BY <1>1, <1>2, <1>3 DEF TriesInv, OutboxInv, IsJobs

LEMMA EnqueueKeeps ==
    ASSUME TriesInv, NEW j, IsJob(j), j.attempts = 0, Enqueue(j), UNCHANGED <<drain, written>>
    PROVE  TriesInv'
<1> DEFINE k == Key(j)
<1>1. CASE UNCHANGED <<outbox, tries>>
  BY <1>1, TriesElsewhere DEF past
<1>2. CASE /\ \A i \in DOMAIN outbox : Key(outbox[i]) # k
           /\ outbox' = Append(outbox, j) /\ tries' = With(tries, k, 0)
  <2>1. /\ IsJobs(outbox') /\ DOMAIN outbox \subseteq DOMAIN outbox'
        /\ \A i \in DOMAIN outbox : outbox'[i] = outbox[i]
        /\ \A i \in DOMAIN outbox' : i \in DOMAIN outbox \/ outbox'[i] = j
        /\ \E i \in DOMAIN outbox' : outbox'[i] = j
    BY <1>2, Appended DEF TriesInv, OutboxInv
  <2>2. /\ DOMAIN tries' = DOMAIN tries \cup {k} /\ tries'[k] = 0
        /\ \A q \in DOMAIN tries \ {k} : tries'[q] = tries[q]
    BY <1>2 DEF With
  <2>3. ASSUME NEW i \in DOMAIN outbox'
        PROVE  Key(outbox'[i]) \in DOMAIN tries' /\ outbox'[i].attempts <= tries'[Key(outbox'[i])]
    <3>1. CASE i \in DOMAIN outbox
      BY <1>2, <2>1, <2>2, <3>1 DEF TriesInv, OutboxInv
    <3>2. CASE outbox'[i] = j
      BY <2>2, <3>2
    <3> QED BY <2>1, <3>1, <3>2
  <2>4. GivenItsTries'
    <3> SUFFICES ASSUME NEW q \in DOMAIN tries'
                 PROVE  \/ \E i \in DOMAIN outbox' : Key(outbox'[i]) = q
                        \/ \E w \in written' : w[2] = q[2] /\ (q[1] # Nobody => w[1] = q[1])
                        \/ tries'[q] >= (IF q[1] = Nobody THEN 1 ELSE Attempts)
      BY DEF GivenItsTries
    <3>1. CASE q = k
      BY <2>1, <3>1
    <3>2. CASE q # k
      <4>1. q \in DOMAIN tries /\ tries'[q] = tries[q]
        BY <2>2, <3>2
      <4>2. \/ \E i \in DOMAIN outbox : Key(outbox[i]) = q
            \/ \E w \in written : w[2] = q[2] /\ (q[1] # Nobody => w[1] = q[1])
            \/ tries[q] >= (IF q[1] = Nobody THEN 1 ELSE Attempts)
        BY <4>1 DEF TriesInv, OutboxInv, GivenItsTries
      <4> QED BY <2>1, <4>1, <4>2
    <3> QED BY <3>1, <3>2
  <2>5. OutboxInv'
    BY <2>1, <2>2, <2>3, <2>4 DEF OutboxInv, TriesInv
  <2>6. PassInv'
    <3>1. CASE drain.pc = "idle"
      BY <3>1 DEF PassInv, TriesInv
    <3>2. CASE drain.pc # "idle"
      <4>1. Key(job) # k /\ tries'[Key(job)] = tries[Key(job)] /\ job' = job
        BY <1>2, <2>2, <3>2, InHand DEF job
      <4>2. \A i \in DOMAIN drain.jobs : \E n \in DOMAIN outbox' : Key(outbox'[n]) = Key(drain.jobs[i])
        BY <2>1, <3>2 DEF TriesInv, PassInv
      <4>3. \A i \in DOMAIN outbox' : Key(outbox'[i]) = Key(job) => i \in DOMAIN outbox /\ outbox'[i] = outbox[i]
        BY <2>1, <4>1
      <4>4. drain.pc \in {"read", "failed", "answered"} =>
               \A i \in DOMAIN outbox' : Key(outbox'[i]) = Key(job) => outbox'[i].attempts < tries'[Key(job)]
        BY <4>1, <4>3 DEF TriesInv, PassInv
      <4> QED BY <4>1, <4>2, <4>4 DEF TriesInv, PassInv, Delivered
    <3> QED BY <3>1, <3>2
  <2> QED BY <2>5, <2>6 DEF TriesInv
<1> QED BY <1>1, <1>2 DEF Enqueue

LEMMA RememberKeeps == ASSUME TriesInv, Remember PROVE TriesInv'
<1>1. PICK s \in Said :
         /\ PlanWrite(s).kind # "nothing"
         /\ IF PlanWrite(s).kind = "learn" \/ ~store THEN ApplyLearned(PlanWrite(s)) ELSE Enqueue(PlanWrite(s))
  BY DEF Remember
<1>2. UNCHANGED <<drain, written>>
  BY DEF Remember, tasks
<1>3. CASE ApplyLearned(PlanWrite(s))
  BY <1>2, <1>3, TriesElsewhere DEF ApplyLearned, past
<1>4. CASE PlanWrite(s).kind \notin {"nothing", "learn"} /\ Enqueue(PlanWrite(s))
  <2> DEFINE partner == IF s.phone = NONE \/ s.name = <<>> THEN {}
                        ELSE {q \in ResolvePhone(s.phone) : Given(contacts[q]) = s.name[1]}
             cands == IF s.name = <<>> THEN {} ELSE CandidatesByName(s.name)
             targets == IF partner # {} THEN partner ELSE cands
             target == CHOOSE r \in targets : TRUE
  <2>0. PlanWrite(s) =
           IF \/ ~ready \/ ByEmail(s.email) # {}
              \/ Cardinality(targets) > 1
              \/ targets # {} /\ contacts[target].emails # {}
           THEN Job("nothing", Nobody, s)
           ELSE IF targets = {} THEN Job(IF Len(s.name) >= 2 THEN "create" ELSE "learn", Nobody, s)
           ELSE Job(IF contacts[target].source = "google" THEN "add_email" ELSE "learn", target, s)
    BY DEF PlanWrite
  <2> HIDE DEF targets, target
  <2>1. \/ PlanWrite(s) = Job("nothing", Nobody, s)
        \/ PlanWrite(s) = Job("learn", target, s) \/ PlanWrite(s) = Job("learn", Nobody, s)
        \/ PlanWrite(s) = Job("add_email", target, s)
        \/ PlanWrite(s) = Job("create", Nobody, s)
    BY <2>0
  <2>2. ASSUME NEW r, PlanWrite(s) = Job("nothing", r, s) \/ PlanWrite(s) = Job("learn", r, s)
        PROVE  FALSE
    BY <1>4, <2>2 DEF Job
  <2>3. PICK r : PlanWrite(s) = Job("add_email", r, s) \/ PlanWrite(s) = Job("create", Nobody, s)
    BY <2>1, <2>2
  <2>4. IsJob(PlanWrite(s)) /\ PlanWrite(s).attempts = 0
    BY <2>3 DEF Job, IsJob
  <2> QED BY <1>2, <1>4, <2>4, EnqueueKeeps
<1> QED BY <1>1, <1>3, <1>4

\* A call is made for the job in hand: one try more than its row has failures.
LEMMA CallKeeps ==
    ASSUME TriesInv, drain.pc = "next", Tried, UNCHANGED outbox, written \subseteq written',
           drain'.pc \in {"read", "failed", "answered"}, drain'.jobs = drain.jobs,
           drain'.pc = "answered" => Delivered(Key(job))'
    PROVE  TriesInv'
<1> DEFINE k == Key(job)
<1>1. k \in DOMAIN tries /\ tries[k] \in Nat /\ job' = job
  BY InHand DEF job
<1> HIDE DEF k
<1>2. DOMAIN tries' = DOMAIN tries /\ tries'[k] = tries[k] + 1
      /\ \A q \in DOMAIN tries \ {k} : tries'[q] = tries[q]
  BY <1>1 DEF Tried, k
<1>3. \A q \in DOMAIN tries : tries[q] \in Nat /\ tries'[q] \in Nat /\ tries'[q] >= tries[q]
  BY <1>1, <1>2 DEF TriesInv, OutboxInv
<1>4. Attempts \in Nat
  BY DirectoryConstants
<1>5. GivenItsTries'
  <2> SUFFICES ASSUME NEW q \in DOMAIN tries'
               PROVE  \/ \E i \in DOMAIN outbox : Key(outbox[i]) = q
                      \/ \E w \in written' : w[2] = q[2] /\ (q[1] # Nobody => w[1] = q[1])
                      \/ tries'[q] >= (IF q[1] = Nobody THEN 1 ELSE Attempts)
    BY DEF GivenItsTries
  <2>1. q \in DOMAIN tries
    BY <1>2
  <2>2. \/ \E i \in DOMAIN outbox : Key(outbox[i]) = q
        \/ \E w \in written : w[2] = q[2] /\ (q[1] # Nobody => w[1] = q[1])
        \/ tries[q] >= (IF q[1] = Nobody THEN 1 ELSE Attempts)
    BY <2>1 DEF TriesInv, OutboxInv, GivenItsTries
  <2> QED BY <1>3, <1>4, <2>1, <2>2
<1>6. \A i \in DOMAIN outbox :
         /\ Key(outbox[i]) \in DOMAIN tries /\ outbox[i].attempts \in Nat
         /\ outbox[i].attempts <= tries[Key(outbox[i])]
  BY DEF TriesInv, OutboxInv, IsJobs, IsJob
<1>7. OutboxInv'
  <2>1. \A i \in DOMAIN outbox : outbox[i].attempts <= tries'[Key(outbox[i])]
    BY <1>3, <1>6
  <2> QED BY <1>2, <1>3, <1>5, <1>6, <2>1 DEF TriesInv, OutboxInv, IsJobs
<1>8. \A i \in DOMAIN outbox : Key(outbox[i]) = k => outbox[i].attempts < tries'[k]
  BY <1>1, <1>2, <1>6
<1>9. PassInv'
  BY <1>1, <1>8 DEF TriesInv, PassInv, k
<1> QED BY <1>7, <1>9 DEF TriesInv

LEMMA AddReadTries == ASSUME TriesInv, AddRead PROVE TriesInv'
<1>1. drain.pc = "next" /\ Tried /\ UNCHANGED outbox
  BY DEF AddRead, durable
<1>2. CASE CallFailed /\ UNCHANGED written
  BY <1>1, <1>2, CallKeeps DEF CallFailed
<1>3. CASE Answered(job.rn, book[job.rn]) /\ written' = written \cup {Key(job)}
  <2>1. drain'.pc = "answered" /\ drain'.jobs = drain.jobs /\ job' = job
    BY <1>3 DEF Answered, job
  <2>2. Delivered(Key(job))'
    BY <1>3, <2>1 DEF Delivered
  <2> QED BY <1>1, <1>3, <2>1, <2>2, CallKeeps
<1>4. CASE /\ drain' = [pc |-> "read", jobs |-> drain.jobs, person |-> book[job.rn], etag |-> stamp[job.rn]]
           /\ UNCHANGED written
  BY <1>1, <1>4, CallKeeps
<1> QED BY <1>2, <1>3, <1>4 DEF AddRead

LEMMA AddWriteTries == ASSUME TriesInv, AddWrite PROVE TriesInv'
<1>1. /\ drain.pc = "read" /\ UNCHANGED <<outbox, tries>> /\ written \subseteq written'
      /\ drain'.pc \in {"failed", "answered"} /\ drain'.jobs = drain.jobs
      /\ drain'.pc = "answered" => written' = written \cup {<<job.rn, job.email>>}
  BY DEF AddWrite, Writes, Answered, CallFailed, durable
<1>2. job' = job
  BY <1>1 DEF job
<1>3. OutboxInv'
  <2>1. GivenItsTries'
    BY <1>1 DEF TriesInv, OutboxInv, GivenItsTries
  <2> QED BY <1>1, <2>1 DEF TriesInv, OutboxInv, IsJobs
<1>4. drain'.pc = "answered" => Delivered(Key(job))'
  BY <1>1, <1>2 DEF Delivered, Key
<1> QED BY <1>1, <1>2, <1>3, <1>4 DEF TriesInv, PassInv

LEMMA CreateTries == ASSUME TriesInv, Create PROVE TriesInv'
<1>1. drain.pc = "next" /\ Tried /\ UNCHANGED outbox /\ job.kind = "create"
  BY DEF Create, durable
<1>2. CASE CallFailed /\ UNCHANGED written
  BY <1>1, <1>2, CallKeeps DEF CallFailed
<1>3. ASSUME NEW r, NEW person, Writes(r, person) PROVE TriesInv'
  <2>1. /\ written' = written \cup {<<r, job.email>>} /\ drain'.jobs = drain.jobs
        /\ drain'.pc \in {"failed", "answered"} /\ job' = job
    BY <1>3 DEF Writes, Answered, CallFailed, job
  <2>2. job.rn = Nobody
    BY <1>1, InHand DEF IsJob
  <2>3. Delivered(Key(job))'
    BY <2>1, <2>2 DEF Delivered, Key
  <2> QED BY <1>1, <2>1, <2>3, CallKeeps
<1> DEFINE r == CHOOSE f \in Fresh : f \notin DOMAIN stamp
           person == [name |-> job.name, nicks |-> {}, emails |-> {job.email}, phones |-> {}]
<1>4. (CallFailed /\ UNCHANGED written) \/ Writes(r, person)
  BY DEF Create
<1> HIDE DEF r, person
<1> QED BY <1>2, <1>3, <1>4

\* The tries that end a job: one for a new card, the settings' for an address.
AllTries(k) == tries[k] >= (IF k[1] = Nobody THEN 1 ELSE Attempts)

\* A try ends: the row goes, when the address is on the card or had its tries, or
\* it has one failure more; and the pass goes on with keys that are owed still.
LEMMA TryEnds ==
    ASSUME TriesInv, drain.pc \in {"failed", "answered"}, GoesOn, UNCHANGED past,
           \/ outbox' = Owed(job) /\ (Delivered(Key(job)) \/ AllTries(Key(job)))
           \/ outbox' = OneMore(job)
    PROVE  TriesInv'
<1> DEFINE k == Key(job)
<1>1. /\ IsJobs(drain.jobs) /\ drain.jobs # <<>> /\ k \in DOMAIN tries /\ tries[k] \in Nat
      /\ \E n \in DOMAIN outbox : Key(outbox[n]) = k
  BY InHand
<1>2. /\ IsJobs(outbox)
      /\ \A i \in DOMAIN outbox :
            /\ Key(outbox[i]) \in DOMAIN tries /\ outbox[i].attempts \in Nat
            /\ outbox[i].attempts <= tries[Key(outbox[i])]
            /\ Key(outbox[i]) = k => outbox[i].attempts < tries[k]
  BY DEF TriesInv, OutboxInv, PassInv, IsJobs, IsJob
<1> HIDE DEF k
<1>3. /\ IsJobs(outbox')
      /\ \A i \in DOMAIN outbox' :
            Key(outbox'[i]) \in DOMAIN tries /\ outbox'[i].attempts <= tries[Key(outbox'[i])]
      /\ \A m \in DOMAIN outbox :
            Key(outbox[m]) # k => \E i \in DOMAIN outbox' : Key(outbox'[i]) = Key(outbox[m])
      /\ Delivered(k) \/ AllTries(k) \/ \E i \in DOMAIN outbox' : Key(outbox'[i]) = k
  <2>1. CASE outbox' = Owed(job) /\ (Delivered(k) \/ AllTries(k))
    <3>1. /\ IsJobs(Owed(job))
          /\ \A i \in DOMAIN Owed(job) : \E m \in DOMAIN outbox : Owed(job)[i] = outbox[m]
          /\ \A m \in DOMAIN outbox :
                Key(outbox[m]) # k => \E i \in DOMAIN Owed(job) : Owed(job)[i] = outbox[m]
      BY <1>1, <1>2, RowGoes DEF k
    <3> QED BY <1>2, <2>1, <3>1
  <2>2. CASE outbox' = OneMore(job)
    <3>1. /\ IsJobs(outbox') /\ DOMAIN outbox' = DOMAIN outbox
          /\ \A i \in DOMAIN outbox :
                /\ Key(outbox'[i]) = Key(outbox[i])
                /\ outbox'[i].attempts =
                      IF Key(outbox[i]) = k THEN outbox[i].attempts + 1 ELSE outbox[i].attempts
      BY <1>2, <2>2, RowFails DEF k
    <3>2. ASSUME NEW i \in DOMAIN outbox PROVE outbox'[i].attempts <= tries[Key(outbox[i])]
      BY <1>1, <1>2, <3>1
    <3> QED BY <1>1, <1>2, <3>1, <3>2
  <2> QED BY <2>1, <2>2 DEF k
<1>4. UNCHANGED <<tries, written>>
  BY DEF past
<1>5. OutboxInv'
  <2>1. ASSUME NEW q \in DOMAIN tries
        PROVE  \/ \E i \in DOMAIN outbox' : Key(outbox'[i]) = q
               \/ Delivered(q) \/ AllTries(q)
    <3>1. CASE q = k
      BY <1>3, <3>1
    <3>2. CASE q # k
      BY <1>3, <3>2 DEF TriesInv, OutboxInv, GivenItsTries, Delivered, AllTries
    <3> QED BY <3>1, <3>2
  <2>2. GivenItsTries'
    BY <1>4, <2>1 DEF GivenItsTries, Delivered, AllTries
  <2> QED BY <1>3, <1>4, <2>2 DEF TriesInv, OutboxInv
<1>6. PassInv'
  <2>1. CASE drain' = Rest
    BY <2>1 DEF PassInv, Rest
  <2>2. CASE Len(drain.jobs) # 1 /\ drain' = [pc |-> "next", jobs |-> Tail(drain.jobs)]
    <3>1. drain'.pc = "next" /\ drain'.jobs = Tail(drain.jobs)
      BY <2>2
    <3>2. /\ IsJobs(drain'.jobs) /\ drain'.jobs # <<>> /\ job = drain.jobs[1]
          /\ \A i \in DOMAIN drain'.jobs :
                \E n \in DOMAIN drain.jobs :
                    drain'.jobs[i] = drain.jobs[n] /\ Key(drain.jobs[n]) # Key(drain.jobs[1])
      BY <1>1, <2>2, <3>1, TailOf DEF job
    <3>3. ASSUME NEW i \in DOMAIN drain'.jobs
          PROVE  \E n \in DOMAIN outbox' : Key(outbox'[n]) = Key(drain'.jobs[i])
      <4>1. PICK n \in DOMAIN drain.jobs : drain'.jobs[i] = drain.jobs[n] /\ Key(drain.jobs[n]) # k
        BY <3>2 DEF k
      <4>2. PICK m \in DOMAIN outbox : Key(outbox[m]) = Key(drain.jobs[n])
        BY DEF TriesInv, PassInv
      <4> QED BY <1>3, <4>1, <4>2
    <3> QED BY <3>1, <3>2, <3>3 DEF PassInv
  <2> QED BY <2>1, <2>2 DEF GoesOn
<1> QED BY <1>5, <1>6 DEF TriesInv

LEMMA FailsEnds ==
    ASSUME TriesInv, drain.pc \in {"failed", "answered"}, NEW cs, Fails(cs)
    PROVE  \/ outbox' = Owed(job) /\ AllTries(Key(job))
           \/ outbox' = OneMore(job)
<1> DEFINE now == CHOOSE o \in Range(outbox) : Key(o) = Key(job)
<1>1. \E n \in DOMAIN outbox : Key(outbox[n]) = Key(job)
  BY InHand
<1>2. \E o \in Range(outbox) : Key(o) = Key(job)
  BY <1>1, InRange
<1>3. now \in Range(outbox) /\ Key(now) = Key(job)
  BY <1>2
<1>4. (Terminal(now) /\ outbox' = Owed(job)) \/ outbox' = OneMore(job)
  BY DEF Fails, OneMore
<1> HIDE DEF now
<1>5. PICK n \in DOMAIN outbox : now = outbox[n]
  BY <1>3 DEF Range
<1>6. IsJob(now) /\ now.attempts < tries[Key(job)] /\ tries[Key(job)] \in Nat
  BY <1>3, <1>5, InHand DEF TriesInv, OutboxInv, PassInv, IsJobs
<1>7. Terminal(now) => AllTries(Key(job))
  <2> SUFFICES ASSUME Terminal(now) PROVE AllTries(Key(job))
    OBVIOUS
  <2>1. now.kind = "create" => Key(job)[1] = Nobody
    BY <1>3, <1>6 DEF IsJob, Key
  <2>2. Attempts \in Nat \ {0} /\ now.attempts \in Nat
    BY <1>6, DirectoryConstants DEF IsJob
  <2> QED BY <1>6, <2>1, <2>2 DEF Terminal, AllTries
<1> QED BY <1>4, <1>7

LEMMA DrainEndsTries == ASSUME TriesInv, DrainFails \/ DrainSettles PROVE TriesInv'
<1>1. UNCHANGED past
  BY DEF DrainFails, DrainSettles
<1>2. CASE DrainFails
  <2>1. CASE drain' = Rest /\ UNCHANGED outbox
    BY <1>1, <2>1, TriesElsewhere DEF Rest
  <2>2. CASE Fails(contacts) /\ GoesOn
    BY <1>1, <1>2, <2>2, FailsEnds, TryEnds DEF DrainFails
  <2> QED BY <1>2, <2>1, <2>2 DEF DrainFails
<1>3. CASE DrainSettles
  <2>1. drain.pc = "answered" /\ GoesOn
    BY <1>3 DEF DrainSettles
  <2>2. CASE outbox' = Owed(job)
    BY <1>1, <2>1, <2>2, TryEnds DEF TriesInv, PassInv
  <2>3. CASE \E cs : Fails(cs)
    BY <1>1, <2>1, <2>3, FailsEnds, TryEnds
  <2> DEFINE merged == With(contacts, drain.rn, Merged(drain.rn, drain.person))
  <2>4. outbox' = Owed(job) \/ Fails(merged)
    BY <1>3 DEF DrainSettles
  <2> HIDE DEF merged
  <2> QED BY <2>2, <2>3, <2>4
<1> QED BY <1>2, <1>3

LEMMA NextKeepsTries == ASSUME TriesInv, [Next]_vars PROVE TriesInv'
<1>1. CASE Remember \/ AddRead \/ AddWrite \/ Create \/ DrainFails \/ DrainSettles
  BY <1>1, RememberKeeps, AddReadTries, AddWriteTries, CreateTries, DrainEndsTries
<1>2. CASE OwnerEdits \/ Boot \/ TimePasses \/ NoteUsed \/ NoteFiled \/ SyncList \/ SyncApply
           \/ SyncMirror \/ UNCHANGED vars
  BY <1>2, TriesElsewhere
     DEF OwnerEdits, Boot, TimePasses, NoteUsed, NoteFiled, SyncList, SyncApply, SyncMirror,
         vars, durable, tasks
<1>3. CASE Dies \/ DrainTake
  BY <1>3, TriesElsewhere DEF Dies, DrainTake, Rest, durable
<1> QED BY <1>1, <1>2, <1>3 DEF Next

\* Written first and emptied last: through crashes, lost answers and a failing store, an
\* address the outbox took is on the card, or still owed, or was given every attempt.
THEOREM OutboxGivesTries == Spec => []GivenItsTries
<1>1. Init => TriesInv
  BY TriesBegin
<1>2. TriesInv /\ [Next]_vars => TriesInv'
  BY NextKeepsTries
<1>3. TriesInv => GivenItsTries
  BY DEF TriesInv, OutboxInv
<1> QED BY <1>1, <1>2, <1>3, PTL DEF Spec

-----------------------------------------------------------------------------
(* The room before the book *)

\* A fold over one word is one step.  The fold's function is the one its
\* equation names, and the equation has a solution: it is written out.
LEMMA FoldsOne ==
    ASSUME NEW base, NEW x, NEW m
    PROVE  FoldLeft(LAMBDA acc, t : LoneName(acc, t, m), base, <<x>>) = LoneName(base, x, m)
<1> DEFINE s == <<x>>
           Def(it, S) == IF S = {} THEN base ELSE LoneName(it[S \ {Max(S)}], s[Max(S)], m)
           iter[S \in SUBSET {1}] == Def(iter, S)
           g == [S \in SUBSET {1} |-> IF S = {} THEN base ELSE LoneName(base, x, m)]
<1>1. Max({1}) = 1 /\ SUBSET {1} = {{}, {1}} /\ s[1] = x
  BY DEF Max
<1>2. g = [S \in SUBSET {1} |-> Def(g, S)]
  <2>1. g[{}] = base /\ Def(g, {}) = base /\ g[{1}] = LoneName(base, x, m)
    OBVIOUS
  <2>2. {1} \ {Max({1})} = {}
    BY <1>1
  <2>3. Def(g, {1}) = LoneName(g[{}], x, m)
    <3> HIDE DEF g
    <3> QED BY <1>1, <2>2
  <2>4. \A S \in SUBSET {1} : g[S] = Def(g, S)
    <3> HIDE DEF g, Def
    <3> QED BY <1>1, <2>1, <2>3
  <2>5. g = [S \in SUBSET {1} |-> g[S]]
    OBVIOUS
  <2> HIDE DEF g, Def
  <2> QED BY <2>4, <2>5
<1>3. iter = [S \in SUBSET {1} |-> Def(iter, S)]
  <2> HIDE DEF g, Def
  <2> QED BY <1>2
<1>4. iter[{1}] = LoneName(base, x, m)
  <2>1. iter[{}] = Def(iter, {}) /\ iter[{1}] = Def(iter, {1})
    <3> HIDE DEF Def, iter
    <3> QED BY <1>3
  <2> HIDE DEF iter
  <2>2. {1} \ {Max({1})} = {}
    BY <1>1
  <2>3. iter[{}] = base
    BY <2>1
  <2>4. Def(iter, {1}) = LoneName(iter[{}], x, m)
    BY <2>2, <1>1
  <2> QED BY <2>1, <2>3, <2>4
<1> QED BY <1>4 DEF FoldLeft, MapThenFoldSet

\* What one person in the room answers to names that person, before any of the
\* address book is asked.
LEMMA NamesTheOneHere ==
    ASSUME NEW acc, NEW t, NEW members, NEW r,
           t \notin acc.covered,
           {q \in members : t \in AliasTokens(contacts[q])} = {r}
    PROVE  LoneName(acc, t, members) = Pick(acc, r)
<1> DEFINE here == {q \in members : t \in AliasTokens(contacts[q])}
<1>1. Cardinality(here) = 1
  BY FS_Singleton
<1>2. (CHOOSE q \in here : TRUE) = r
  OBVIOUS
<1> HIDE DEF here
<1>3. LoneName(acc, t, members) = Pick(acc, CHOOSE q \in here : TRUE)
  BY <1>1, Zenon DEF LoneName, here
<1> QED BY <1>2, <1>3

LEMMA RoomIsAsked == RoomAnswersFirst
<1> SUFFICES ASSUME NEW t \in Turns, Len(t) = 1, ready,
                    NEW room \in SUBSET {s.phone : s \in Said},
                    NEW r,
                    {q \in UNION {ResolvePhone(p) : p \in room \ {NONE}} :
                        t[1] \in AliasTokens(contacts[q])} = {r}
             PROVE  Shown(Mentions(t, {}, NONE, room)) = {r}
  BY Zenon DEF RoomAnswersFirst
<1> DEFINE members == UNION {ResolvePhone(p) : p \in (room \cup {NONE}) \ {NONE}}
           full == UNION {LET cands == ByPair(t[i], t[i + 1])
                              here == cands \cap members
                          IN  IF Cardinality(here) = 1 THEN here ELSE cands
                          : i \in 1..(Len(t) - 1)}
           emails == UNION {ByEmail(e) : e \in {}}
           first == [q \in emails \cup {} \cup full |->
                        IF q \in emails THEN "email" ELSE IF q \in {} THEN "phone" ELSE "name"]
           start == [hits |-> first,
                     covered |-> UNION {AliasTokens(contacts[q]) : q \in DOMAIN first}]
           hits == FoldLeft(LAMBDA acc, w : LoneName(acc, w, members), start, t).hits
<1>1. t = <<t[1]>>
  <2>1. t \in Seq(Range(t))
    BY DirectoryConstants
  <2> QED BY <2>1
<1>2. members = UNION {ResolvePhone(p) : p \in room \ {NONE}}
  <2>1. (room \cup {NONE}) \ {NONE} = room \ {NONE}
    OBVIOUS
  <2> QED BY <2>1
<1>3. emails = {} /\ full = {}
  <2>1. 1..(Len(t) - 1) = {}
    OBVIOUS
  <2> QED BY <2>1
<1>4. start.covered = {} /\ DOMAIN start.hits = {}
  <2>1. DOMAIN first = {}
    BY <1>3
  <2> HIDE DEF first
  <2> QED BY <2>1
<1>5. Mentions(t, {}, NONE, room) =
         [q \in DOMAIN hits |->
             IF \/ hits[q] = "name" /\ q \in members
                \/ hits[q] = "phone" /\ Given(contacts[q]) \in Range(t)
             THEN "phone+name" ELSE hits[q]]
  BY Zenon DEF Mentions
<1> HIDE DEF emails, full, first, start
<1>6. hits = Pick(start, r).hits
  <2>1. FoldLeft(LAMBDA acc, w : LoneName(acc, w, members), start, <<t[1]>>)
          = LoneName(start, t[1], members)
    <3> HIDE DEF members
    <3> QED BY FoldsOne
  <2>2. LoneName(start, t[1], members) = Pick(start, r)
    <3> HIDE DEF members
    <3>1. {q \in members : t[1] \in AliasTokens(contacts[q])} = {r}
      BY <1>2
    <3> QED BY <3>1, <1>4, NamesTheOneHere
  <2> HIDE DEF members
  <2> QED BY <1>1, <2>1, <2>2
<1> HIDE DEF hits
<1>7. DOMAIN hits = {r} /\ hits[r] = "name"
  BY <1>4, <1>6 DEF Pick, With
<1>8. r \in members
  BY <1>2
<1> HIDE DEF members
<1> QED BY <1>5, <1>7, <1>8 DEF Shown

\* For every book, room and word: what exactly one person of the room answers
\* to shows his address and nobody else's, in every state the program reaches.
\* (app/contacts/index.py, mentions)
THEOREM TheRoomIsAskedFirst == Spec => []RoomAnswersFirst
<1> QED BY RoomIsAsked, PTL

=============================================================================
