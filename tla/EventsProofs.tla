---------------------------- MODULE EventsProofs ----------------------------
(***************************************************************************)
(* What the calendar skill promises, for every set of drafts, changes and   *)
(* edits and however many answers are lost.                                 *)
(*                                                                          *)
(* One approval mails the guests once: each verb has its shield.  An insert *)
(* that mailed has landed and is not sent again, a change that may mail has *)
(* one attempt, and a quiet one never mails.                                *)
(*                                                                          *)
(* The card and the write agree: a proposal and its run carry the card that *)
(* was composed of it (CardInv), and what the body of a write holds is      *)
(* known field by field (BodyOf, WhenOf).                                   *)
(***************************************************************************)
EXTENDS Events, TLAPS

Verbs == {"create", "update", "delete"}

CallFields == {"verb", "id", "action", "quiet", "card", "phase", "left", "prev", "landed", "mails"}

Shielded(c) ==
    /\ CallFields = DOMAIN c
    /\ c.verb \in Verbs
    /\ c.mails \in {0, 1}
    /\ c.quiet => c.mails = 0
    /\ c.verb = "create" /\ ~c.landed => c.mails = 0
    /\ c.verb # "create" /\ ~c.quiet => c.left = 1 /\ c.mails = 0

IInv ==
    /\ pending # None => pending.verb \in Verbs
    /\ call # Idle => Shielded(call)
    /\ told # None => told.mails <= 1

\* A run that starts again keeps its shield, and one that ends mailed once at
\* most: the handler calls Retries only with what it had or with one mail more.
LEMMA RetriesKeep ==
    ASSUME IInv, call # Idle, NEW landed, NEW mails, mails \in {0, 1},
           call.quiet => mails = 0,
           call.verb = "create" /\ ~landed => mails = 0,
           Retries(landed, mails)
    PROVE  IInv'
<1>1. Shielded(call) BY DEF IInv
<1>2. CASE call.left > 1
  <2>1. call' = [call EXCEPT !.left = call.left - 1, !.phase = First(call.verb),
                             !.landed = landed, !.mails = mails]
        /\ UNCHANGED <<pending, told>>
    BY <1>2 DEF Retries
  <2>2. call.verb = "create" \/ call.quiet
    BY <1>1, <1>2 DEF Shielded
  <2> QED BY <1>1, <2>1, <2>2 DEF IInv, Shielded
<1>3. CASE ~(call.left > 1)
  <2>1. Ends(FALSE, None, mails) BY <1>3 DEF Retries
  <2> QED BY <2>1 DEF IInv, Ends
<1> QED BY <1>2, <1>3

LEMMA EndsKeep ==
    ASSUME IInv, NEW ok, NEW view, NEW mails, mails \in {0, 1}, Ends(ok, view, mails)
    PROVE  IInv'
BY DEF IInv, Ends

\* A write that takes mails at most one round.
LEMMA LandsKeep ==
    ASSUME IInv, call # Idle, NEW e, NEW ok, Lands(e, ok),
           call.verb = "create" => ~call.landed
    PROVE  IInv'
<1> DEFINE guests == (IF e = None THEN {} ELSE e.guests)
                     \cup (IF events[call.id] = None THEN {} ELSE events[call.id].guests)
           mails == Mails(guests)
<1>1. Shielded(call) BY DEF IInv
<1>2. call.mails = 0 BY <1>1 DEF Shielded
<1>3. mails \in {0, 1} /\ (call.quiet => mails = 0) BY <1>2 DEF Mails
<1>4. CASE \E view : Ends(ok, view, mails) BY <1>3, <1>4, EndsKeep
<1>5. CASE Retries(TRUE, mails) BY <1>3, <1>5, RetriesKeep
<1> QED BY <1>4, <1>5 DEF Lands

LEMMA RunsKeep == ASSUME IInv, Runs PROVE IInv'
<1> USE DEF Verbs
<1>1. call # Idle BY DEF Runs, Reads, ReadsNothing, ReadsDoomed, Creates, Updates, Deletes, NeverArrives
<1>2. Shielded(call) BY <1>1 DEF IInv
<1>3. ASSUME Fails PROVE IInv'
  BY <1>2, <1>3, EndsKeep DEF Fails, Shielded
<1>4. ASSUME Retries(call.landed, call.mails) PROVE IInv'
  BY <1>1, <1>2, <1>4, RetriesKeep DEF Shielded
<1>5. CASE Reads
  <2>1. CASE Fails BY <2>1, <1>3
  <2>2. CASE /\ call' = [call EXCEPT !.phase = "write", !.prev = event_view(events[call.id])]
             /\ UNCHANGED <<events, seen, pending, told, turns, faults>>
    BY <1>1, <1>2, <2>2 DEF IInv, Shielded
  <2> QED BY <1>5, <2>1, <2>2 DEF Reads
<1>6. CASE ReadsNothing BY <1>3, <1>4, <1>6 DEF ReadsNothing
<1>7. CASE ReadsDoomed BY <1>1, <1>2, <1>7 DEF ReadsDoomed, IInv, Shielded
<1>8. CASE Creates
  <2>1. CASE Fails BY <2>1, <1>3
  <2>2. CASE Ends(TRUE, Returned(events[call.id]), call.mails)
    BY <1>2, <2>2, EndsKeep DEF Shielded
  <2>3. CASE ~call.landed /\ \E e : Lands(e, TRUE)
    BY <1>1, <2>3, LandsKeep
  <2> QED BY <1>8, <2>1, <2>2, <2>3 DEF Creates
<1>9. CASE Updates
  <2>1. CASE Fails BY <2>1, <1>3
  <2>2. CASE call.verb = "update" /\ \E e, ok : Lands(e, ok)
    BY <1>1, <2>2, LandsKeep
  <2> QED BY <1>9, <2>1, <2>2 DEF Updates
<1>10. CASE Deletes
  <2>1. CASE Fails BY <2>1, <1>3
  <2>2. CASE call.verb = "delete" /\ Lands(None, TRUE)
    BY <1>1, <2>2, LandsKeep
  <2> QED BY <1>10, <2>1, <2>2 DEF Deletes
<1>11. CASE NeverArrives BY <1>4, <1>11 DEF NeverArrives
<1> QED BY <1>5, <1>6, <1>7, <1>8, <1>9, <1>10, <1>11 DEF Runs

\* The loop around the handler sends nothing.
LEMMA LoopKeeps ==
    ASSUME IInv, [Next]_vars, ~Runs PROVE IInv'
<1> USE DEF IInv, Verbs
<1>1. CASE UNCHANGED vars BY <1>1 DEF vars
<1>2. ASSUME NEW i \in Ids, Finds(i) PROVE IInv' BY <1>2 DEF Finds
<1>3. CASE StartsOver BY <1>3 DEF StartsOver
<1>4. ASSUME NEW verb \in Verbs, NEW i, NEW a, NEW q, NEW card, Proposes(verb, i, a, q, card) PROVE IInv'
  BY <1>4 DEF Proposes
<1>5. CASE ProposesCreate BY <1>4, <1>5 DEF ProposesCreate
<1>6. ASSUME NEW i \in Ids, ProposesUpdate(i) PROVE IInv' BY <1>4, <1>6 DEF ProposesUpdate
<1>7. ASSUME NEW i \in Ids, ProposesDelete(i) PROVE IInv' BY <1>4, <1>7 DEF ProposesDelete
<1>8. CASE Declines BY <1>8 DEF Declines
<1>9. CASE SaysYes
  <2>1. DOMAIN call' = CallFields BY <1>9, Zenon DEF SaysYes, CallFields
  <2>2. call'.verb = pending.verb /\ call'.quiet = pending.quiet /\ call'.mails = 0
        /\ call'.left = _attempts_for(pending.verb, pending.quiet)
    BY <1>9 DEF SaysYes
  <2> QED BY <1>9, <2>1, <2>2 DEF SaysYes, Shielded, _attempts_for
<1>10. ASSUME NEW e, HeEdits(e) PROVE IInv' BY <1>10 DEF HeEdits
<1> QED BY <1>1, <1>2, <1>3, <1>5, <1>6, <1>7, <1>8, <1>9, <1>10 DEF Next

\* Whatever is lost and replayed, one approval mails the guests once
\* (_attempts_for, 805; the key of an insert, 854).
THEOREM GuestsMailedOnce == Spec => []MailedOnce
<1>1. Init => IInv BY DEF Init, IInv
<1>2. IInv /\ [Next]_vars => IInv' BY RunsKeep, LoopKeeps
<1>3. IInv => MailedOnce BY DEF IInv, MailedOnce, Shielded
<1> QED BY <1>1, <1>2, <1>3, PTL DEF Spec

------------------------------------------------------------------------
(***************************************************************************)
(* What is created is what the card shows, what is reported done is done,  *)
(* and an event moved keeps its length.  The argument is the body: what    *)
(* body_from puts into it and what it leaves out, field by field.          *)
(***************************************************************************)

\* What the model may ask for.
IsAsk(a) ==
    /\ DOMAIN a \subseteq CHANGE_FIELDS
    /\ \A f \in DOMAIN a \cap {"start", "end"} : a[f] \in Moments
    /\ \A f \in DOMAIN a \cap {"all_day", "virtual"} : a[f] \in BOOLEAN

\* An event as it is read, or what is read for none.
IsView(v) ==
    /\ DOMAIN v = {"title", "start", "end", "all_day", "place", "guests", "meet"}
    /\ {v.start, v.end} \subseteq Moments
    /\ v.all_day \in BOOLEAN
    /\ (v.all_day <=> is_date_only(v.start)) /\ (v.all_day <=> is_date_only(v.end))

LEMMA MomentIs ==
    ASSUME NEW m \in Moments
    PROVE  /\ as_day(m) \in Int /\ Instant(m) \in Int
           /\ is_date_only(m) => m.day \in Int /\ m = Whole(m.day) /\ as_day(m) = m.day
           /\ ~is_date_only(m) => m.at \in Int /\ m = At(m.at) /\ Instant(m) = m.at
<1>1. Hours \in Nat \ {0}
  BY EventsAssumption
<1>2. CASE m \in [day : Int]
  <2>1. m.day \in Int /\ DOMAIN m = {"day"} /\ m = [day |-> m.day]
    BY <1>2
  <2> QED BY <1>1, <2>1 DEF is_date_only, as_day, Instant, Whole
<1>3. CASE m \in [at : Int]
  <2>1. m.at \in Int /\ DOMAIN m = {"at"} /\ m = [at |-> m.at]
    BY <1>3
  <2>2. "day" \notin {"at"}
    OBVIOUS
  <2>3. m.at \div Hours \in Int
    BY <1>1, <2>1
  <2> QED BY <1>1, <2>1, <2>2, <2>3 DEF is_date_only, as_day, Instant, At
<1> QED BY <1>2, <1>3 DEF Moments

LEMMA AMoment ==
    ASSUME NEW n \in Int
    PROVE  /\ Whole(n) \in Moments /\ is_date_only(Whole(n)) /\ Whole(n).day = n
           /\ as_day(Whole(n)) = n /\ Instant(Whole(n)) = n * Hours
           /\ At(n) \in Moments /\ ~is_date_only(At(n)) /\ At(n).at = n /\ Instant(At(n)) = n
<1>1. DOMAIN At(n) = {"at"} /\ "day" \notin {"at"} /\ DOMAIN Whole(n) = {"day"}
  BY DEF At, Whole
<1>2. Whole(n) \in [day : Int] /\ At(n) \in [at : Int]
  BY DEF At, Whole
<1> QED BY <1>1, <1>2 DEF Moments, is_date_only, as_day, Instant, At, Whole

LEMMA ViewOf ==
    ASSUME NEW e, IsEvent(e)
    PROVE  /\ IsView(event_view(e))
           /\ event_view(e).start = e.start /\ event_view(e).all_day = is_date_only(e.start)
           /\ event_view(e).title = e.title /\ event_view(e).place = e.place
           /\ event_view(e).guests = e.guests /\ event_view(e).meet = Unknown
           /\ is_date_only(e.start) =>
                 event_view(e).end = Whole(e.end.day - 1) /\ e.end = Whole(e.end.day) /\ e.end.day \in Int
           /\ ~is_date_only(e.start) => event_view(e).end = e.end
<1> DEFINE v == event_view(e)
<1>1. /\ DOMAIN v = {"title", "start", "end", "all_day", "place", "guests", "meet"}
      /\ v.start = e.start /\ v.all_day = is_date_only(e.start) /\ v.title = e.title
      /\ v.place = e.place /\ v.guests = e.guests /\ v.meet = Unknown
      /\ v.end = IF is_date_only(e.start) THEN Whole(e.end.day - 1) ELSE e.end
  BY DEF event_view, from_wire_end
<1> HIDE DEF v
<1>2. /\ e.start \in Moments /\ e.end \in Moments
      /\ is_date_only(e.start) <=> is_date_only(e.end)
  BY DEF IsEvent, is_date_only
<1>3. is_date_only(e.end) => e.end.day \in Int /\ e.end = Whole(e.end.day)
  BY <1>2, MomentIs
<1>4. is_date_only(e.end) => Whole(e.end.day - 1) \in Moments /\ is_date_only(Whole(e.end.day - 1))
  BY <1>3, AMoment
<1>5. v.end \in Moments /\ (is_date_only(v.start) <=> is_date_only(v.end))
  BY <1>1, <1>2, <1>4
<1>6. IsView(v)
  <2>1. v.all_day \in BOOLEAN
    BY <1>1 DEF is_date_only
  <2> QED BY <1>1, <1>2, <1>5, <2>1 DEF IsView
<1> QED BY <1>1, <1>2, <1>3, <1>6 DEF v

LEMMA OnlyIs ==
    ASSUME NEW f, NEW value, NEW asked \in BOOLEAN
    PROVE  /\ DOMAIN Only(f, value, asked) = IF asked THEN {f} ELSE {}
           /\ asked => Only(f, value, asked)[f] = value
  BY DEF Only

LEMMA BodyOf ==
    ASSUME NEW a, IsAsk(a), NEW prev, DOMAIN When(a, prev) \subseteq {"start", "end"}
    PROVE  LET b == body_from(a, prev)
               w == When(a, prev)
               video == provided(a, "virtual") /\ a.virtual
           IN /\ "title" \in DOMAIN b <=> provided(a, "title")
              /\ provided(a, "title") => b.title = a.title
              /\ DOMAIN b \cap {"start", "end"} = DOMAIN w
              /\ \A f \in DOMAIN w : b[f] = w[f]
              /\ "meet" \in DOMAIN b <=> provided(a, "virtual")
              /\ provided(a, "virtual") => b.meet \in BOOLEAN /\ (b.meet <=> a.virtual)
              /\ "place" \in DOMAIN b <=> video \/ provided(a, "location")
              /\ video => b.place = None
              /\ ~video /\ provided(a, "location") => b.place = a.location
              /\ "guests" \in DOMAIN b <=> provided(a, "attendees")
              /\ provided(a, "attendees") => b.guests = a.attendees
<1> DEFINE b == body_from(a, prev)
           w == When(a, prev)
           video == provided(a, "virtual") /\ a.virtual
           place == IF video THEN None ELSE Given(a, "location", None)
           t == Only("title", Given(a, "title", None), provided(a, "title"))
           m == Only("meet", video, provided(a, "virtual"))
           p == Only("place", place, video \/ provided(a, "location"))
           g == Only("guests", Given(a, "attendees", {}), provided(a, "attendees"))
<1>1. b = And(And(And(t, w), m), And(p, g))
  BY DEF body_from
<1>2. /\ provided(a, "title") \in BOOLEAN /\ provided(a, "virtual") \in BOOLEAN
      /\ provided(a, "location") \in BOOLEAN /\ provided(a, "attendees") \in BOOLEAN
      /\ (video \/ provided(a, "location")) \in BOOLEAN
  BY DEF provided
<1>3. /\ DOMAIN t = IF provided(a, "title") THEN {"title"} ELSE {}
      /\ provided(a, "title") => t["title"] = a["title"]
  BY <1>2, OnlyIs DEF Given
<1>4. /\ DOMAIN m = IF provided(a, "virtual") THEN {"meet"} ELSE {}
      /\ provided(a, "virtual") => m["meet"] \in BOOLEAN /\ (m["meet"] <=> a["virtual"])
  BY <1>2, OnlyIs
<1>5. /\ DOMAIN p = IF video \/ provided(a, "location") THEN {"place"} ELSE {}
      /\ video => p["place"] = None
      /\ ~video /\ provided(a, "location") => p["place"] = a["location"]
  BY <1>2, OnlyIs DEF Given
<1>6. /\ DOMAIN g = IF provided(a, "attendees") THEN {"guests"} ELSE {}
      /\ provided(a, "attendees") => g["guests"] = a["attendees"]
  BY <1>2, OnlyIs DEF Given
<1> HIDE DEF w, t, m, p, g, b
<1> DEFINE tw == And(t, w)  twm == And(tw, m)  pg == And(p, g)
<1>7. /\ DOMAIN tw = DOMAIN t \cup DOMAIN w
      /\ \A x \in DOMAIN t : tw[x] = t[x]
      /\ \A x \in DOMAIN w : tw[x] = w[x]
  <2>1. \A x \in DOMAIN w : x \notin DOMAIN t
    BY <1>3 DEF w
  <2> QED BY <2>1 DEF And
<1> HIDE DEF tw
<1>8. /\ DOMAIN twm = DOMAIN tw \cup DOMAIN m
      /\ \A x \in DOMAIN tw : twm[x] = tw[x]
      /\ \A x \in DOMAIN m : twm[x] = m[x]
  <2>1. \A x \in DOMAIN m : x \notin DOMAIN tw
    BY <1>3, <1>4, <1>7 DEF w
  <2> QED BY <2>1 DEF And
<1>9. /\ DOMAIN pg = DOMAIN p \cup DOMAIN g
      /\ \A x \in DOMAIN p : pg[x] = p[x]
      /\ \A x \in DOMAIN g : pg[x] = g[x]
  <2>1. \A x \in DOMAIN g : x \notin DOMAIN p
    BY <1>5, <1>6
  <2> QED BY <2>1 DEF And
<1> HIDE DEF twm, pg
<1>10. /\ DOMAIN And(twm, pg) = DOMAIN twm \cup DOMAIN pg
       /\ \A x \in DOMAIN twm : And(twm, pg)[x] = twm[x]
       /\ \A x \in DOMAIN pg : And(twm, pg)[x] = pg[x]
  <2>1. \A x \in DOMAIN pg : x \notin DOMAIN twm
    BY <1>3, <1>4, <1>5, <1>6, <1>7, <1>8, <1>9 DEF w
  <2> QED BY <2>1 DEF And
<1>11. /\ DOMAIN b = DOMAIN t \cup DOMAIN w \cup DOMAIN m \cup DOMAIN p \cup DOMAIN g
       /\ \A x \in DOMAIN t : b[x] = t[x]
       /\ \A x \in DOMAIN w : b[x] = w[x]
       /\ \A x \in DOMAIN m : b[x] = m[x]
       /\ \A x \in DOMAIN p : b[x] = p[x]
       /\ \A x \in DOMAIN g : b[x] = g[x]
  BY <1>1, <1>7, <1>8, <1>9, <1>10 DEF tw, twm, pg
<1>12. DOMAIN w \subseteq {"start", "end"}
  BY DEF w
<1> HIDE DEF video
<1>13. /\ "title" \in DOMAIN b <=> provided(a, "title")
       /\ "meet" \in DOMAIN b <=> provided(a, "virtual")
       /\ "place" \in DOMAIN b <=> video \/ provided(a, "location")
       /\ "guests" \in DOMAIN b <=> provided(a, "attendees")
       /\ DOMAIN b \cap {"start", "end"} = DOMAIN w
  BY <1>3, <1>4, <1>5, <1>6, <1>11, <1>12
<1>14. /\ provided(a, "title") => b["title"] = a["title"]
       /\ provided(a, "virtual") => b["meet"] \in BOOLEAN /\ (b["meet"] <=> a["virtual"])
       /\ video => b["place"] = None
       /\ ~video /\ provided(a, "location") => b["place"] = a["location"]
       /\ provided(a, "attendees") => b["guests"] = a["attendees"]
  BY <1>3, <1>4, <1>5, <1>6, <1>11
<1> QED BY <1>11, <1>13, <1>14 DEF b, w, video

LEMMA KindOf ==
    ASSUME NEW a, IsAsk(a), NEW prev, prev.all_day \in BOOLEAN
    PROVE  /\ resolve_kind(a, prev) \in BOOLEAN
           /\ provided(a, "all_day") => resolve_kind(a, prev) = a.all_day
           /\ ~provided(a, "all_day") /\ provided(a, "start") => resolve_kind(a, prev) = is_date_only(a.start)
           /\ ~provided(a, "all_day") /\ ~provided(a, "start") /\ provided(a, "end") =>
                 resolve_kind(a, prev) = is_date_only(a.end)
           /\ ~provided(a, "all_day") /\ ~provided(a, "start") /\ ~provided(a, "end") =>
                 resolve_kind(a, prev) = prev.all_day
<1>1. provided(a, "all_day") => a.all_day \in BOOLEAN
  BY DEF IsAsk, provided
<1>2. \A v : is_date_only(v) \in BOOLEAN
  BY DEF is_date_only
<1> QED BY <1>1, <1>2 DEF resolve_kind

\* Both ends are written, of one kind, or neither is.
LEMMA WhenOf ==
    ASSUME NEW a, IsAsk(a), NEW prev, IsView(prev) \/ prev = Blank
    PROVE  LET w == When(a, prev)
           IN /\ DOMAIN w \in {{}, {"start", "end"}}
              /\ DOMAIN w = {} <=>
                    /\ ~provided(a, "start") /\ ~provided(a, "end")
                    /\ provided(a, "all_day") => resolve_kind(a, prev) = prev.all_day
              /\ DOMAIN w # {} =>
                    /\ w.start \in Moments /\ w.end \in Moments
                    /\ is_date_only(w.start) <=> resolve_kind(a, prev)
                    /\ is_date_only(w.end) <=> resolve_kind(a, prev)
                    /\ w = IF resolve_kind(a, prev) THEN Days(a, prev) ELSE Times(a, prev)
<1> DEFINE w == When(a, prev)  kind == resolve_kind(a, prev)
           none == /\ ~provided(a, "start") /\ ~provided(a, "end")
                   /\ provided(a, "all_day") => resolve_kind(a, prev) = prev.all_day
<1>1. {prev.start, prev.end} \subseteq Moments /\ prev.all_day \in BOOLEAN
  <2>1. CASE prev = Blank
    <3>1. prev.start = Whole(0) /\ prev.end = Whole(0) /\ prev.all_day = FALSE
      BY <2>1 DEF Blank
    <3>2. Whole(0) \in Moments
      BY AMoment
    <3> QED BY <3>1, <3>2
  <2> QED BY <2>1 DEF IsView
<1>2. kind \in BOOLEAN
  BY <1>1, KindOf
<1>3. Hours \in Nat \ {0} /\ DefaultHour \in Nat /\ DefaultLength \in Nat
  BY EventsAssumption
<1>4. Given(a, "start", prev.start) \in Moments /\ (provided(a, "end") => a.end \in Moments)
  BY <1>1 DEF Given, provided, IsAsk
<1>5. none => w = [f \in {} |-> None] /\ DOMAIN w = {}
  BY DEF When
<1>6. ~none => w = IF kind THEN Days(a, prev) ELSE Times(a, prev)
  BY DEF When
<1>7. LET d == Days(a, prev)
      IN /\ DOMAIN d = {"start", "end"} /\ d.start \in Moments /\ d.end \in Moments
         /\ is_date_only(d.start) /\ is_date_only(d.end)
  <2> DEFINE first == as_day(Given(a, "start", prev.start))
             last == IF provided(a, "end") THEN as_day(a.end) ELSE default_last_day(first, prev)
             d == Days(a, prev)
  <2>1. first \in Int
    BY <1>4, MomentIs
  <2>2. last \in Int
    <3>1. prev.all_day => prev.end.day \in Int /\ prev.start.day \in Int
      <4>1. prev.all_day => is_date_only(prev.start) /\ is_date_only(prev.end)
        BY DEF IsView, Blank
      <4> QED BY <1>1, <4>1, MomentIs
    <3>2. default_last_day(first, prev) \in Int
      BY <2>1, <3>1 DEF default_last_day
    <3> QED BY <1>4, <3>2, MomentIs
  <2>3. to_wire_end(Later(first, last)) \in Int
    BY <2>1, <2>2 DEF to_wire_end, Later
  <2>4. d = [start |-> Whole(first), end |-> Whole(to_wire_end(Later(first, last)))]
    BY DEF Days
  <2> HIDE DEF first, last, d
  <2>5. DOMAIN d = {"start", "end"} /\ d.start = Whole(first) /\ d.end = Whole(to_wire_end(Later(first, last)))
    BY <2>4
  <2> QED BY <2>1, <2>3, <2>5, AMoment DEF d
<1>8. LET d == Times(a, prev)
      IN /\ DOMAIN d = {"start", "end"} /\ d.start \in Moments /\ d.end \in Moments
         /\ ~is_date_only(d.start) /\ ~is_date_only(d.end)
  <2> DEFINE s == Given(a, "start", prev.start)
             start == IF is_date_only(s) THEN At(s.day * Hours + DefaultHour) ELSE s
             end == IF provided(a, "end") /\ ~is_date_only(a.end) THEN a.end
                    ELSE At(start.at + Length(a, prev))
             d == Times(a, prev)
  <2>1. start \in Moments /\ ~is_date_only(start) /\ start.at \in Int
    <3>1. CASE is_date_only(s)
      <4>1. s.day \in Int
        BY <1>4, <3>1, MomentIs
      <4>2. s.day * Hours + DefaultHour \in Int
        BY <1>3, <4>1
      <4> QED BY <3>1, <4>2, AMoment
    <3>2. CASE ~is_date_only(s)
      BY <1>4, <3>2, MomentIs
    <3> QED BY <3>1, <3>2
  <2>2. Length(a, prev) \in Int
    <3>1. Instant(prev.end) \in Int /\ Instant(prev.start) \in Int
      BY <1>1, MomentIs
    <3> QED BY <1>3, <3>1 DEF Length
  <2>3. end \in Moments /\ ~is_date_only(end)
    <3>1. start.at + Length(a, prev) \in Int
      BY <2>1, <2>2
    <3> HIDE DEF start
    <3> QED BY <1>4, <3>1, AMoment
  <2>4. d = [start |-> start, end |-> end]
    BY DEF Times
  <2> HIDE DEF start, end, d
  <2>5. DOMAIN d = {"start", "end"} /\ d.start = start /\ d.end = end
    BY <2>4
  <2> QED BY <2>1, <2>3, <2>5 DEF d
<1> HIDE DEF w, kind, none
<1>9. ~none => DOMAIN w = {"start", "end"} /\ w.start \in Moments /\ w.end \in Moments
               /\ (is_date_only(w.start) <=> kind) /\ (is_date_only(w.end) <=> kind)
  BY <1>2, <1>6, <1>7, <1>8
<1>10. {"start", "end"} # {}
  OBVIOUS
<1> QED BY <1>5, <1>6, <1>9, <1>10 DEF w, kind, none

EventFields == {"title", "start", "end", "place", "guests", "meet"}

LEMMA MergedOf ==
    ASSUME NEW e0, DOMAIN e0 = EventFields, NEW b, NEW e \in Merged(e0, b)
    PROVE  /\ DOMAIN e = EventFields
           /\ \A f \in EventFields \ {"meet"} : e[f] = IF f \in DOMAIN b THEN b[f] ELSE e0[f]
           /\ "meet" \notin DOMAIN b => e.meet = e0.meet
           /\ "meet" \in DOMAIN b /\ ~b.meet => e.meet = b.meet
<1>1. PICK m \in BOOLEAN :
         e = [f \in DOMAIN e0 |-> IF f = "meet" /\ f \in DOMAIN b /\ b.meet THEN m
                                  ELSE IF f \in DOMAIN b THEN b[f] ELSE e0[f]]
  BY DEF Merged
<1> QED BY <1>1 DEF EventFields

\* What Google takes of a body is an event.
LEMMA MergedIsEvent ==
    ASSUME NEW a, IsAsk(a), NEW prev, IsView(prev) \/ prev = Blank,
           NEW e0, IsEvent(e0), NEW e \in Merged(e0, body_from(a, prev)), Accepts(e)
    PROVE  IsEvent(e)
<1> DEFINE b == body_from(a, prev)  w == When(a, prev)
<1>1. DOMAIN w \subseteq {"start", "end"} /\ \A f \in DOMAIN w : w[f] \in Moments
  BY WhenOf
<1>2. DOMAIN b \cap {"start", "end"} = DOMAIN w /\ \A f \in DOMAIN w : b[f] = w[f]
  BY <1>1, BodyOf
<1> HIDE DEF b, w
<1>3. DOMAIN e0 = EventFields /\ e0["start"] \in Moments /\ e0["end"] \in Moments
  BY DEF IsEvent, EventFields
<1>4. /\ DOMAIN e = EventFields
      /\ \A f \in EventFields \ {"meet"} : e[f] = IF f \in DOMAIN b THEN b[f] ELSE e0[f]
  BY <1>3, MergedOf DEF b
<1>5. e["start"] \in Moments /\ e["end"] \in Moments
  BY <1>1, <1>2, <1>3, <1>4 DEF EventFields
<1>6. "day" \in DOMAIN e.start <=> "day" \in DOMAIN e.end
  BY DEF Accepts, is_date_only
<1> QED BY <1>4, <1>5, <1>6 DEF IsEvent, EventFields

LEMMA ReturnedOf ==
    ASSUME NEW e
    PROVE  LET v == Returned(e)
           IN /\ v.title = e.title /\ v.start = e.start /\ v.place = e.place /\ v.guests = e.guests
              /\ v.meet = e.meet /\ v.all_day = is_date_only(e.start)
              /\ v.end = event_view(e).end /\ DOMAIN v = DOMAIN event_view(e)
<1> DEFINE v == Returned(e)  u == event_view(e)
<1>1. /\ DOMAIN u = {"title", "start", "end", "all_day", "place", "guests", "meet"}
      /\ u.title = e.title /\ u.start = e.start /\ u.place = e.place /\ u.guests = e.guests
      /\ u.all_day = is_date_only(e.start)
  BY DEF event_view
<1>2. v = [u EXCEPT !.meet = e.meet]
  BY DEF Returned
<1> HIDE DEF u, v
<1>3. DOMAIN v = DOMAIN u /\ v.meet = e.meet /\ \A f \in DOMAIN u \ {"meet"} : v[f] = u[f]
  BY <1>1, <1>2
<1>4. v["title"] = u["title"] /\ v["start"] = u["start"] /\ v["place"] = u["place"]
      /\ v["guests"] = u["guests"] /\ v["all_day"] = u["all_day"] /\ v["end"] = u["end"]
  BY <1>1, <1>3
<1> QED BY <1>1, <1>3, <1>4 DEF u, v

LEMMA ReturnedIsView == ASSUME NEW e, IsEvent(e) PROVE IsView(Returned(e))
  BY ViewOf, ReturnedOf DEF IsView

------------------------------------------------------------------------
\* A proposal, and the run of it, carry the card that was composed from it.
IsPlan(p) ==
    /\ p.id \in Ids /\ p.verb \in Verbs
    /\ p.verb = "create" => p.id = "new" /\ p.action \in Drafts /\ p.card = compose_create(p.action, p.quiet)
    /\ p.verb = "update" =>
          /\ p.action \in Patches /\ IsView(p.card.of)
          /\ p.card = compose_update(p.action, p.card.of, p.quiet)

CalendarInv ==
    /\ DOMAIN events = Ids /\ \A i \in Ids : events[i] # None => IsEvent(events[i])
    /\ DOMAIN seen = Ids /\ \A i \in Ids : seen[i] # None => IsView(seen[i])

PlanInv ==
    /\ pending # None => IsPlan(pending)
    /\ call # Idle =>
          /\ DOMAIN call = CallFields /\ IsPlan(call)
          /\ call.phase = "write" /\ call.verb = "update" => IsView(call.prev)
          /\ call.verb = "create" /\ call.landed => IsEvent(events["new"])

CardInv == CalendarInv /\ PlanInv

LEMMA DraftIsAsk == ASSUME NEW a \in Drafts \cup Patches PROVE IsAsk(a)
  BY EventsAssumption DEF IsAsk

LEMMA CardBegins == Init => CardInv
<1> SUFFICES ASSUME Init PROVE CardInv
  OBVIOUS
<1>1. DOMAIN events = Ids /\ DOMAIN seen = Ids
  BY DEF Init
<1>2. \A i \in Ids : events[i] \in {Earlier, None} /\ seen[i] = None
  BY DEF Init
<1>3. IsEvent(Earlier)
  BY EventsAssumption
<1> QED BY <1>1, <1>2, <1>3 DEF Init, CardInv, CalendarInv, PlanInv

\* The run ends, with what it returned surfaced.
LEMMA EndsCard ==
    ASSUME CardInv, call # Idle, NEW ok, NEW view, NEW mails, Ends(ok, view, mails),
           view # None => IsView(view),
           UNCHANGED events \/ \E e : (e # None => IsEvent(e)) /\ events' = [events EXCEPT ![call.id] = e]
    PROVE  CardInv'
<1>1. call.id \in Ids
  BY DEF CardInv, PlanInv, IsPlan
<1>2. call' = Idle /\ UNCHANGED pending
      /\ seen' = IF view = None THEN seen ELSE [seen EXCEPT ![call.id] = view]
  BY DEF Ends
<1>3. DOMAIN events' = Ids /\ \A i \in Ids : events'[i] # None => IsEvent(events'[i])
  BY <1>1 DEF CardInv, CalendarInv
<1>4. DOMAIN seen' = Ids /\ \A i \in Ids : seen'[i] # None => IsView(seen'[i])
  BY <1>1, <1>2 DEF CardInv, CalendarInv
<1>5. CalendarInv'
  BY <1>3, <1>4 DEF CalendarInv
<1>6. PlanInv'
  BY <1>2 DEF PlanInv, CardInv, IsPlan
<1> QED BY <1>5, <1>6 DEF CardInv

LEMMA RetriesCard ==
    ASSUME CardInv, call # Idle, NEW landed, NEW mails, Retries(landed, mails),
           landed /\ call.verb = "create" => IsEvent(events'["new"]),
           UNCHANGED events \/ \E e : (e # None => IsEvent(e)) /\ events' = [events EXCEPT ![call.id] = e]
    PROVE  CardInv'
<1>0. call.id \in Ids /\ DOMAIN call = CallFields
  BY DEF CardInv, PlanInv, IsPlan
<1>1. CASE call.left > 1
  <2>1. /\ call' = [call EXCEPT !.left = call.left - 1, !.phase = First(call.verb),
                               !.landed = landed, !.mails = mails]
        /\ UNCHANGED <<seen, pending>>
    BY <1>1 DEF Retries
  <2>2. /\ DOMAIN call' = CallFields /\ call'.verb = call.verb /\ call'.id = call.id
        /\ call'.action = call.action /\ call'.quiet = call.quiet /\ call'.card = call.card
        /\ call'.phase = First(call.verb) /\ call'.landed = landed
    BY <1>0, <2>1 DEF CallFields
  <2>3. IsPlan(call) => IsPlan(call')
    BY <2>2 DEF IsPlan
  <2>4. call'.phase = "write" => call'.verb # "update"
    BY <2>2 DEF First
  <2>5. PlanInv'
    BY <2>1, <2>2, <2>3, <2>4 DEF PlanInv, CardInv, IsPlan
  <2>6. DOMAIN events' = Ids /\ \A i \in Ids : events'[i] # None => IsEvent(events'[i])
    BY <1>0 DEF CardInv, CalendarInv
  <2> QED BY <2>1, <2>5, <2>6 DEF CardInv, CalendarInv
<1>2. CASE ~(call.left > 1)
  <2>1. Ends(FALSE, None, mails)
    BY <1>2 DEF Retries
  <2> QED BY <2>1, EndsCard
<1> QED BY <1>1, <1>2

LEMMA LandsCard ==
    ASSUME CardInv, call # Idle, NEW e, NEW ok, Lands(e, ok), e # None => IsEvent(e),
           call.verb = "create" => IsEvent(e)
    PROVE  CardInv'
<1> DEFINE view == IF e = None THEN None ELSE Returned(e)
<1>1. events' = [events EXCEPT ![call.id] = e]
  BY DEF Lands
<1>2. view # None => IsView(view)
  BY ReturnedIsView
<1>3. (\E mails : Ends(ok, view, mails)) \/ (\E mails : Retries(TRUE, mails))
  BY DEF Lands
<1> HIDE DEF view
<1>4. ASSUME NEW mails, Ends(ok, view, mails) PROVE CardInv'
  BY <1>1, <1>2, <1>4, EndsCard
<1>5. ASSUME NEW mails, Retries(TRUE, mails) PROVE CardInv'
  <2>1. call.verb = "create" => IsEvent(events'["new"])
    BY <1>1 DEF CardInv, CalendarInv, PlanInv, IsPlan
  <2> QED BY <1>1, <1>5, <2>1, RetriesCard
<1> QED BY <1>3, <1>4, <1>5

\* What create asks for once the video call is resolved.
Resolved(a) == IF resolve_virtual(a) THEN And([virtual |-> TRUE], a) ELSE a

LEMMA ResolvedOf ==
    ASSUME NEW a, IsAsk(a)
    PROVE  /\ IsAsk(Resolved(a)) /\ create_body(a) = body_from(Resolved(a), Blank)
           /\ resolve_virtual(a) => DOMAIN Resolved(a) = DOMAIN a \cup {"virtual"} /\ Resolved(a).virtual = TRUE
           /\ ~resolve_virtual(a) => Resolved(a) = a
           /\ \A f \in DOMAIN a \ {"virtual"} : Resolved(a)[f] = a[f]
<1>1. CASE resolve_virtual(a)
  <2> DEFINE r == And([virtual |-> TRUE], a)
  <2>1. /\ DOMAIN r = DOMAIN a \cup {"virtual"} /\ r["virtual"] = TRUE
        /\ \A f \in DOMAIN a \ {"virtual"} : r[f] = a[f]
    BY DEF And
  <2>2. Resolved(a) = r
    BY <1>1 DEF Resolved
  <2> HIDE DEF r
  <2>3. IsAsk(r)
    <3>1. DOMAIN r \subseteq CHANGE_FIELDS
      BY <2>1 DEF IsAsk, CHANGE_FIELDS
    <3>2. \A f \in DOMAIN r \cap {"start", "end"} : r[f] \in Moments
      BY <2>1 DEF IsAsk
    <3>3. \A f \in DOMAIN r \cap {"all_day", "virtual"} : r[f] \in BOOLEAN
      BY <2>1 DEF IsAsk
    <3> QED BY <3>1, <3>2, <3>3 DEF IsAsk
  <2> QED BY <1>1, <2>1, <2>2, <2>3 DEF create_body, Resolved
<1>2. CASE ~resolve_virtual(a)
  BY <1>2 DEF create_body, Resolved
<1> QED BY <1>1, <1>2

LEMMA NewIsEvent == IsEvent(New) /\ DOMAIN New = EventFields
<1>1. Whole(0) \in Moments /\ is_date_only(Whole(0))
  BY AMoment
<1>2. DOMAIN New = EventFields /\ New.start = Whole(0) /\ New.end = Whole(0)
  BY DEF New, EventFields
<1> QED BY <1>1, <1>2 DEF IsEvent, EventFields

LEMMA RunsCard == ASSUME CardInv, Runs PROVE CardInv'
<1>1. call # Idle
  BY DEF Runs, Reads, ReadsNothing, ReadsDoomed, Creates, Updates, Deletes, NeverArrives
<1>2. /\ DOMAIN call = CallFields /\ IsPlan(call) /\ call.id \in Ids
      /\ events[call.id] # None => IsEvent(events[call.id])
  BY <1>1 DEF CardInv, CalendarInv, PlanInv, IsPlan
<1>3. ASSUME Fails PROVE CardInv'
  BY <1>1, <1>3, EndsCard DEF Fails
<1>4. ASSUME Retries(call.landed, call.mails), UNCHANGED events PROVE CardInv'
  BY <1>1, <1>4, RetriesCard DEF CardInv, PlanInv
<1>5. CASE Reads
  <2>1. CASE Fails BY <2>1, <1>3
  <2>2. CASE /\ call' = [call EXCEPT !.phase = "write", !.prev = event_view(events[call.id])]
             /\ UNCHANGED <<events, seen, pending>>
    <3>1. IsView(event_view(events[call.id]))
      BY <1>2, <1>5, ViewOf DEF Reads
    <3>2. /\ DOMAIN call' = CallFields /\ call'.verb = call.verb /\ call'.id = call.id
          /\ call'.action = call.action /\ call'.quiet = call.quiet /\ call'.card = call.card
          /\ call'.prev = event_view(events[call.id]) /\ call'.verb # "create"
      BY <1>2, <1>5, <2>2 DEF CallFields, Reads
    <3>3. IsPlan(call')
      BY <1>2, <3>2 DEF IsPlan
    <3>4. PlanInv'
      BY <2>2, <3>1, <3>2, <3>3 DEF PlanInv, CardInv, IsPlan
    <3> QED BY <2>2, <3>4 DEF CardInv, CalendarInv
  <2> QED BY <1>5, <2>1, <2>2 DEF Reads
<1>6. CASE ReadsNothing BY <1>3, <1>4, <1>6 DEF ReadsNothing
<1>7. CASE ReadsDoomed
  <2>1. call.verb = "delete" /\ call' = [call EXCEPT !.phase = "write"]
        /\ UNCHANGED <<events, seen, pending>>
    BY <1>7 DEF ReadsDoomed
  <2>2. DOMAIN call' = CallFields /\ call'.verb = "delete" /\ call'.id = call.id
    BY <1>2, <2>1 DEF CallFields
  <2>3. IsPlan(call')
    BY <1>2, <2>2 DEF IsPlan, Verbs
  <2>4. PlanInv'
    BY <2>1, <2>2, <2>3 DEF PlanInv, CardInv, IsPlan
  <2> QED BY <2>1, <2>4 DEF CardInv, CalendarInv
<1>8. CASE Creates
  <2>1. CASE Fails BY <2>1, <1>3
  <2>2. CASE Ends(TRUE, Returned(events[call.id]), call.mails) /\ UNCHANGED events /\ call.landed
    <3>1. IsView(Returned(events[call.id]))
      BY <1>1, <1>8, <2>2, ReturnedIsView DEF Creates, CardInv, PlanInv, IsPlan
    <3> QED BY <1>1, <2>2, <3>1, EndsCard
  <2>3. ASSUME NEW e \in Merged(New, create_body(call.action)), Accepts(e), Lands(e, TRUE) PROVE CardInv'
    <3>1. IsAsk(call.action)
      BY <1>2, <1>8, DraftIsAsk DEF IsPlan, Creates
    <3>2. IsAsk(Resolved(call.action)) /\ e \in Merged(New, body_from(Resolved(call.action), Blank))
      BY <2>3, <3>1, ResolvedOf
    <3>3. IsEvent(e)
      BY <2>3, <3>2, NewIsEvent, MergedIsEvent
    <3> QED BY <1>1, <2>3, <3>3, LandsCard
  <2> QED BY <1>8, <2>1, <2>2, <2>3 DEF Creates
<1>9. CASE Updates
  <2>1. CASE Fails BY <2>1, <1>3
  <2>2. ASSUME events[call.id] # None,
               NEW e \in Merged(events[call.id], body_from(call.action, call.prev)), Accepts(e),
               NEW ok, Lands(e, ok)
        PROVE  CardInv'
    <3>1. IsAsk(call.action) /\ IsView(call.prev)
      BY <1>1, <1>2, <1>9, DraftIsAsk DEF Updates, CardInv, PlanInv, IsPlan
    <3>2. IsEvent(e)
      BY <1>2, <2>2, <3>1, MergedIsEvent
    <3> QED BY <1>1, <2>2, <3>2, LandsCard
  <2> QED BY <1>9, <2>1, <2>2 DEF Updates
<1>10. CASE Deletes
  <2>1. CASE Fails BY <2>1, <1>3
  <2>2. CASE call.verb = "delete" /\ Lands(None, TRUE) BY <1>1, <2>2, LandsCard
  <2> QED BY <1>10, <2>1, <2>2 DEF Deletes
<1>11. CASE NeverArrives BY <1>4, <1>11 DEF NeverArrives
<1> QED BY <1>5, <1>6, <1>7, <1>8, <1>9, <1>10, <1>11 DEF Runs

LEMMA ProposesCard ==
    ASSUME CardInv, NEW verb, NEW i, NEW a, NEW quiet, NEW card, Proposes(verb, i, a, quiet, card),
           IsPlan([verb |-> verb, id |-> i, action |-> a, quiet |-> quiet, card |-> card])
    PROVE  CardInv'
  BY DEF Proposes, CardInv, CalendarInv, PlanInv, IsPlan

LEMMA LoopCard == ASSUME CardInv, [Next]_vars, ~Runs PROVE CardInv'
<1>1. CASE UNCHANGED vars
  BY <1>1 DEF vars, CardInv, CalendarInv, PlanInv, IsPlan
<1>2. ASSUME NEW i \in Ids, Finds(i) PROVE CardInv'
  <2>1. IsView(event_view(events[i]))
    BY <1>2, ViewOf DEF Finds, CardInv, CalendarInv
  <2> QED BY <1>2, <2>1 DEF Finds, CardInv, CalendarInv, PlanInv, IsPlan
<1>3. CASE StartsOver
  BY <1>3 DEF StartsOver, CardInv, CalendarInv, PlanInv, IsPlan
<1>4. CASE ProposesCreate
  <2>1. PICK a \in Drafts, quiet \in BOOLEAN : Proposes("create", "new", a, quiet, compose_create(a, quiet))
    BY <1>4 DEF ProposesCreate
  <2> DEFINE p == [verb |-> "create", id |-> "new", action |-> a, quiet |-> quiet,
                   card |-> compose_create(a, quiet)]
  <2>2. IsPlan(p)
    BY DEF IsPlan, Ids, Verbs
  <2> HIDE DEF p
  <2> QED BY <2>1, <2>2, ProposesCard DEF p
<1>5. ASSUME NEW i \in Ids, ProposesUpdate(i) PROVE CardInv'
  <2>1. PICK a \in Patches, quiet \in BOOLEAN :
            /\ seen[i] # None
            /\ Proposes("update", i, a, quiet, compose_update(a, seen[i], quiet))
    BY <1>5 DEF ProposesUpdate
  <2> DEFINE card == compose_update(a, seen[i], quiet)
             p == [verb |-> "update", id |-> i, action |-> a, quiet |-> quiet, card |-> card]
  <2>2. IsView(seen[i])
    BY <2>1 DEF CardInv, CalendarInv
  <2>3. card.of = seen[i]
    BY DEF compose_update
  <2> HIDE DEF card
  <2>4. IsPlan(p)
    BY <2>2, <2>3 DEF IsPlan, Verbs, card
  <2> HIDE DEF p
  <2> QED BY <2>1, <2>4, ProposesCard DEF p, card
<1>6. ASSUME NEW i \in Ids, ProposesDelete(i) PROVE CardInv'
  <2> DEFINE a == [f \in {} |-> None]
  <2>1. PICK quiet \in BOOLEAN :
            Proposes("delete", i, a, quiet, compose_delete(seen[i], quiet))
    BY <1>6 DEF ProposesDelete
  <2> DEFINE card == compose_delete(seen[i], quiet)
             p == [verb |-> "delete", id |-> i, action |-> a, quiet |-> quiet, card |-> card]
  <2> HIDE DEF a, card
  <2>2. IsPlan(p)
    BY DEF IsPlan, Verbs
  <2> HIDE DEF p
  <2> QED BY <2>1, <2>2, ProposesCard DEF p, card
<1>7. CASE Declines
  BY <1>7 DEF Declines, CardInv, CalendarInv, PlanInv, IsPlan
<1>8. CASE SaysYes
  <2>1. DOMAIN call' = CallFields
    BY <1>8, Zenon DEF SaysYes, CallFields
  <2>2. /\ call'.verb = pending.verb /\ call'.id = pending.id /\ call'.action = pending.action
        /\ call'.quiet = pending.quiet /\ call'.card = pending.card /\ call'.landed = FALSE
        /\ call'.phase = First(pending.verb)
        /\ UNCHANGED <<events, seen>> /\ pending # None /\ pending' = None
    BY <1>8 DEF SaysYes
  <2>3. IsPlan(call')
    BY <2>2 DEF CardInv, PlanInv, IsPlan
  <2>4. call'.phase = "write" => call'.verb # "update"
    BY <2>2 DEF First
  <2> QED BY <2>1, <2>2, <2>3, <2>4 DEF CardInv, CalendarInv, PlanInv
<1>9. ASSUME NEW e \in Edits \cup {None}, HeEdits(e) PROVE CardInv'
  <2>1. e # None => IsEvent(e)
    BY EventsAssumption
  <2>2. events' = [events EXCEPT !["old"] = e] /\ UNCHANGED <<seen, pending, call>>
    BY <1>9 DEF HeEdits
  <2>3. events'["new"] = events["new"]
    BY <2>2 DEF CardInv, CalendarInv, Ids
  <2>4. CalendarInv'
    BY <2>1, <2>2 DEF CardInv, CalendarInv
  <2> QED BY <2>2, <2>3, <2>4 DEF CardInv, PlanInv, IsPlan
<1> QED BY <1>1, <1>2, <1>3, <1>4, <1>5, <1>6, <1>7, <1>8, <1>9 DEF Next

LEMMA NextCard == CardInv /\ [Next]_vars => CardInv'
  BY RunsCard, LoopCard

------------------------------------------------------------------------
\* Of the steps that change an event only three are the handler's.
LEMMA HandlerWrites ==
    ASSUME Next, NEW i, Written(i)
    PROVE  (Creates \/ Updates \/ Deletes) /\ call.id = i
<1>1. call # Idle /\ call' # call /\ call.id = i /\ events' # events
  BY DEF Written
<1>2. Runs
  BY <1>1 DEF Next, Finds, ProposesUpdate, ProposesDelete, ProposesCreate, Proposes, StartsOver, Declines,
              SaysYes, HeEdits
<1> QED BY <1>1, <1>2 DEF Runs, Reads, ReadsNothing, ReadsDoomed, NeverArrives, Fails

LEMMA UpdateWrites ==
    ASSUME CardInv, Next, NEW i, Written(i), call.verb = "update"
    PROVE  /\ call.id = i /\ call.phase = "write" /\ events[i] # None /\ IsEvent(events[i])
           /\ IsAsk(call.action) /\ IsView(call.prev)
           /\ \E e \in Merged(events[i], body_from(call.action, call.prev)) :
                 Accepts(e) /\ events' = [events EXCEPT ![i] = e]
<1>1. Updates /\ call.id = i /\ events'[i] # events[i] /\ call # Idle
  BY HandlerWrites DEF Creates, Deletes, Written
<1>2. ~Fails /\ events[i] # None /\ call.phase = "write"
  BY <1>1 DEF Updates, Fails
<1>3. \E e \in Merged(events[i], body_from(call.action, call.prev)) :
         Accepts(e) /\ events' = [events EXCEPT ![i] = e]
  BY <1>1, <1>2 DEF Updates, Lands
<1>4. IsAsk(call.action) /\ IsView(call.prev) /\ i \in Ids /\ IsEvent(events[i])
  BY <1>1, <1>2, DraftIsAsk DEF CardInv, CalendarInv, PlanInv, IsPlan
<1> QED BY <1>1, <1>2, <1>3, <1>4

LEMMA CreateWrites ==
    ASSUME CardInv, Next, NEW i, Written(i), call.verb = "create"
    PROVE  /\ call.id = i /\ i \in Ids /\ call.action \in Drafts /\ ~Backwards(call.action, Blank)
           /\ call.card = compose_create(call.action, call.quiet)
           /\ \E e \in Merged(New, create_body(call.action)) :
                 Accepts(e) /\ events' = [events EXCEPT ![i] = e]
<1>1. Creates /\ call.id = i /\ events'[i] # events[i] /\ call # Idle
  BY HandlerWrites DEF Updates, Deletes, Written
<1>2. ~Fails /\ ~UNCHANGED events
  BY <1>1 DEF Fails
<1>3. ~Backwards(call.action, Blank) /\ ~call.landed
  BY <1>1, <1>2 DEF Creates
<1>4. \E e \in Merged(New, create_body(call.action)) :
         Accepts(e) /\ events' = [events EXCEPT ![i] = e]
  BY <1>1, <1>2, <1>3 DEF Creates, Lands
<1> QED BY <1>1, <1>3, <1>4 DEF CardInv, PlanInv, IsPlan

\* A run that ends well has written, and found what it asked for in the answer.
LEMMA OkWrites ==
    ASSUME CardInv, Next, call # Idle, call' = Idle, call.verb = "update", told'.ok
    PROVE  /\ IsAsk(call.action) /\ IsView(call.prev) /\ call.id \in Ids /\ IsEvent(events[call.id])
           /\ \E e \in Merged(events[call.id], body_from(call.action, call.prev)) :
                 Applied(call.action, Returned(e)) /\ events'[call.id] = e
<1>0. DOMAIN Idle = {"verb"} /\ "id" \notin DOMAIN Idle
  BY DEF Idle
<1>1. DOMAIN call = CallFields
  BY DEF CardInv, PlanInv
<1>2. Runs
  <2>1. ~SaysYes
    <3>1. SaysYes => DOMAIN call' = CallFields
      BY Zenon DEF SaysYes, CallFields
    <3> QED BY <1>0, <3>1 DEF CallFields
  <2> QED BY <2>1 DEF Next, Finds, ProposesUpdate, ProposesDelete, ProposesCreate, Proposes, StartsOver,
                      Declines, HeEdits
<1>3. ASSUME NEW mails, NEW view, Ends(FALSE, view, mails) PROVE FALSE
  <2>1. told' = [verb |-> call.verb, ok |-> FALSE, mails |-> mails]
    BY <1>3 DEF Ends
  <2> QED BY <2>1
<1>4. ~Fails
  BY <1>3 DEF Fails
<1>5. ASSUME NEW landed, NEW mails, Retries(landed, mails) PROVE FALSE
  <2>1. CASE Ends(FALSE, None, mails)
    BY <1>3, <2>1
  <2>2. CASE call' = [call EXCEPT !.left = call.left - 1, !.phase = First(call.verb),
                                  !.landed = landed, !.mails = mails]
    <3>1. DOMAIN call' = CallFields
      BY <1>1, <2>2
    <3> QED BY <1>0, <3>1 DEF CallFields
  <2> QED BY <1>5, <2>1, <2>2 DEF Retries
<1>6. ~Reads
  <2>1. Reads => DOMAIN call' = CallFields
    BY <1>1, <1>4 DEF Reads
  <2> QED BY <1>0, <2>1 DEF CallFields
<1>7. ~ReadsNothing /\ ~NeverArrives
  BY <1>4, <1>5 DEF ReadsNothing, NeverArrives
<1>8. Updates
  BY <1>2, <1>6, <1>7 DEF Runs, ReadsDoomed, Creates, Deletes
<1>9. PICK e \in Merged(events[call.id], body_from(call.action, call.prev)) :
         Lands(e, Applied(call.action, Returned(e)))
  BY <1>4, <1>8 DEF Updates
<1>10. events[call.id] # None /\ call.phase = "write"
  BY <1>4, <1>8 DEF Updates
<1>11. IsAsk(call.action) /\ IsView(call.prev) /\ call.id \in Ids /\ IsEvent(events[call.id])
  BY <1>10, DraftIsAsk DEF CardInv, CalendarInv, PlanInv, IsPlan
<1>12. events' = [events EXCEPT ![call.id] = e] /\ DOMAIN events = Ids
  BY <1>9 DEF Lands, CardInv, CalendarInv
<1>13. PICK view, mails : Ends(Applied(call.action, Returned(e)), view, mails)
  BY <1>5, <1>9 DEF Lands
<1>14. told'.ok = Applied(call.action, Returned(e))
  BY <1>13 DEF Ends
<1> QED BY <1>11, <1>12, <1>14

LEMMA OkIsDone ==
    ASSUME CardInv, Next, call # Idle, call' = Idle, call.verb = "update", told'.ok,
           NEW f \in DOMAIN call.action
    PROVE  CASE f = "virtual"   -> events'[call.id].meet = call.action.virtual
             [] f = "attendees" -> events'[call.id].guests = call.action.attendees
             [] f = "title"     -> events'[call.id].title = call.action.title
             [] f = "location"  -> events'[call.id].place =
                                      IF Given(call.action, "virtual", FALSE) THEN None ELSE call.action.location
             [] f = "all_day"   -> is_date_only(events'[call.id].start) = call.action.all_day
             [] f = "start"     -> as_day(events'[call.id].start) = as_day(call.action.start)
             [] OTHER           -> TRUE
<1> DEFINE a == call.action  b == body_from(call.action, call.prev)  e0 == events[call.id]
           video == Given(a, "virtual", FALSE)
<1>1. PICK e \in Merged(e0, b) : Applied(a, Returned(e)) /\ events'[call.id] = e
  BY OkWrites
<1>2. IsAsk(a) /\ IsView(call.prev) /\ IsEvent(e0) /\ DOMAIN e0 = EventFields
  BY OkWrites DEF IsEvent, EventFields
<1>3. /\ Returned(e).title = e.title /\ Returned(e).start = e.start /\ Returned(e).place = e.place
      /\ Returned(e).guests = e.guests /\ Returned(e).meet = e.meet
      /\ Returned(e).all_day = is_date_only(e.start)
  BY ReturnedOf
<1>4. /\ DOMAIN e = EventFields
      /\ \A g \in EventFields \ {"meet"} : e[g] = IF g \in DOMAIN b THEN b[g] ELSE e0[g]
  BY <1>1, <1>2, MergedOf
<1>5. DOMAIN When(a, call.prev) \subseteq {"start", "end"}
  BY <1>2, WhenOf
<1>6. video => "place" \in DOMAIN b /\ b.place = None
  <2>1. video => provided(a, "virtual") /\ a.virtual
    BY DEF Given
  <2> HIDE DEF video
  <2> QED BY <1>2, <1>5, <2>1, BodyOf
<1>7. /\ provided(a, "virtual") => e.meet = a.virtual
      /\ provided(a, "title") => e.title = a.title
      /\ provided(a, "location") /\ ~video => e.place = a.location
      /\ provided(a, "attendees") => e.guests = a.attendees
      /\ provided(a, "all_day") => is_date_only(e.start) = a.all_day
      /\ provided(a, "start") =>
            e.start = IF is_date_only(e.start) THEN Whole(as_day(a.start)) ELSE a.start
  BY <1>1, <1>3 DEF Applied, AppliedButVideo
<1> HIDE DEF b, e0, video
<1>8. video => e["place"] = None
  BY <1>4, <1>6 DEF EventFields
<1>9. provided(a, "start") => as_day(e.start) = as_day(a.start)
  <2> SUFFICES ASSUME provided(a, "start") PROVE as_day(e.start) = as_day(a.start)
    OBVIOUS
  <2>1. a.start \in Moments
    BY <1>2 DEF provided, IsAsk
  <2>2. as_day(a.start) \in Int
    BY <2>1, MomentIs
  <2>3. as_day(Whole(as_day(a.start))) = as_day(a.start)
    BY <2>2, AMoment
  <2> QED BY <1>7, <2>3
<1>10. /\ f = "virtual" => e.meet = a.virtual
       /\ f = "attendees" => e.guests = a.attendees
       /\ f = "title" => e.title = a.title
       /\ f = "location" => e.place = IF video THEN None ELSE a.location
       /\ f = "all_day" => is_date_only(e.start) = a.all_day
       /\ f = "start" => as_day(e.start) = as_day(a.start)
  BY <1>7, <1>8, <1>9 DEF provided
<1>11. events'[call.id] = e
  BY <1>1
<1> QED BY <1>10, <1>11 DEF video

\* A 200 does not say that a change was applied, so the handler looks: what is reported
\* done is in the calendar, field by field, whatever was asked for and whatever he edited.
THEOREM DoneIsDone == Spec => OkMeansDone
<1>1. Init => CardInv
  BY CardBegins
<1>2. CardInv /\ [Next]_vars => CardInv'
  BY NextCard
<1>3. CardInv /\ [Next]_vars =>
         [call # Idle /\ call' = Idle /\ call.verb = "update" /\ told'.ok =>
          \A f \in DOMAIN call.action :
             CASE f = "virtual"   -> events'[call.id].meet = call.action.virtual
               [] f = "attendees" -> events'[call.id].guests = call.action.attendees
               [] f = "title"     -> events'[call.id].title = call.action.title
               [] f = "location"  -> events'[call.id].place =
                                        IF Given(call.action, "virtual", FALSE) THEN None ELSE call.action.location
               [] f = "all_day"   -> is_date_only(events'[call.id].start) = call.action.all_day
               [] f = "start"     -> as_day(events'[call.id].start) = as_day(call.action.start)
               [] OTHER           -> TRUE]_vars
  BY OkIsDone
<1> QED BY <1>1, <1>2, <1>3, PTL DEF Spec, OkMeansDone

LEMMA Multiples ==
    ASSUME NEW h \in Nat \ {0}, NEW x \in Int, NEW y \in Int, NEW d \in Int
    PROVE  /\ x * h - y * h > 0 => x > y
           /\ (d + (x - y)) * h - d * h = x * h - y * h
<1>1. x * h - y * h = (x - y) * h
  OBVIOUS
<1>2. x - y <= 0 => (x - y) * h <= 0
  OBVIOUS
<1>3. (d + (x - y)) * h = d * h + (x - y) * h
  OBVIOUS
<1>4. x * h \in Int /\ y * h \in Int /\ d * h \in Int /\ (x - y) * h \in Int
  OBVIOUS
<1>5. x * h - y * h > 0 => x > y
  BY <1>1, <1>2
<1> QED BY <1>1, <1>3, <1>4, <1>5

LEMMA LengthKept ==
    ASSUME CardInv, Next, NEW i \in Ids, Written(i), call.verb = "update",
           {"end", "all_day"} \cap DOMAIN call.action = {},
           event_view(events[i]) = call.prev, Span(events[i]) > 0,
           is_date_only(events'[i].start) = is_date_only(events[i].start)
    PROVE  Span(events'[i]) = Span(events[i])
<1> DEFINE a == call.action  prev == call.prev  e0 == events[i]
           b == body_from(a, prev)  w == When(a, prev)  kind == resolve_kind(a, prev)
<1>0. Hours \in Nat \ {0}
  BY EventsAssumption
<1>1. PICK e \in Merged(e0, b) : events' = [events EXCEPT ![i] = e]
  BY UpdateWrites
<1>2. IsAsk(a) /\ IsView(prev) /\ IsEvent(e0) /\ DOMAIN e0 = EventFields /\ e = events'[i]
  <2>1. i \in DOMAIN events
    BY DEF CardInv, CalendarInv
  <2> QED BY <1>1, <2>1, UpdateWrites DEF IsEvent, EventFields
<1>3. DOMAIN w \subseteq {"start", "end"}
  BY <1>2, WhenOf
<1>4. DOMAIN b \cap {"start", "end"} = DOMAIN w /\ \A f \in DOMAIN w : b[f] = w[f]
  BY <1>2, <1>3, BodyOf
<1>5. \A g \in {"start", "end"} : e[g] = IF g \in DOMAIN w THEN w[g] ELSE e0[g]
  <2>1. \A g \in EventFields \ {"meet"} : e[g] = IF g \in DOMAIN b THEN b[g] ELSE e0[g]
    BY <1>1, <1>2, MergedOf
  <2> HIDE DEF b, w
  <2> QED BY <1>4, <2>1 DEF EventFields
<1>6. /\ prev.start = e0.start /\ prev.all_day = is_date_only(e0.start)
      /\ is_date_only(e0.start) =>
            prev.end = Whole(e0.end.day - 1) /\ e0.end = Whole(e0.end.day) /\ e0.end.day \in Int
      /\ ~is_date_only(e0.start) => prev.end = e0.end
  BY <1>2, ViewOf
<1>7. ~provided(a, "end") /\ ~provided(a, "all_day")
  BY DEF provided
<1>8. CASE ~provided(a, "start")
  <2>1. DOMAIN w = {}
    BY <1>2, <1>7, <1>8, WhenOf
  <2>2. e["start"] = e0["start"] /\ e["end"] = e0["end"]
    BY <1>5, <2>1
  <2> QED BY <1>2, <2>2 DEF Span
<1>9. CASE provided(a, "start")
  <2>1. /\ DOMAIN w = {"start", "end"} /\ (is_date_only(w.start) <=> kind)
        /\ w = IF kind THEN Days(a, prev) ELSE Times(a, prev)
    BY <1>2, <1>9, WhenOf
  <2>2. kind = is_date_only(a.start) /\ a.start \in Moments /\ e0.start \in Moments
    BY <1>2, <1>7, <1>9, KindOf DEF provided, IsAsk, IsEvent, IsView
  <2>3. e["start"] = w["start"] /\ e["end"] = w["end"]
    BY <1>5, <2>1
  <2>4. kind <=> is_date_only(e0.start)
    BY <1>2, <2>1, <2>3
  <2>5. Given(a, "start", prev.start) = a.start
    BY <1>9 DEF Given
  <2>6. CASE kind
    <3> DEFINE first == as_day(a.start)  x == e0.end.day  y == e0.start.day
               last == default_last_day(first, prev)
    <3>1. first \in Int /\ x \in Int /\ y \in Int /\ e0.start = Whole(y)
      BY <1>6, <2>2, <2>4, <2>6, MomentIs
    <3>2. prev.end.day = x - 1 /\ prev.start.day = y
      BY <1>6, <2>4, <2>6, <3>1 DEF Whole
    <3>3. Instant(e0.end) = x * Hours /\ Instant(e0.start) = y * Hours
      BY <1>6, <2>4, <2>6, <3>1, AMoment
    <3>4. x > y
      BY <1>0, <3>1, <3>3, Multiples DEF Span
    <3>5. last = first + (x - 1) - y
      BY <1>6, <2>4, <2>6, <3>2 DEF default_last_day
    <3>6. to_wire_end(Later(first, last)) = first + (x - y)
      <4> HIDE DEF first, x, y, last
      <4> QED BY <3>1, <3>4, <3>5 DEF Later, to_wire_end
    <3>7. w = [start |-> Whole(first), end |-> Whole(to_wire_end(Later(first, last)))]
      BY <1>7, <2>1, <2>5, <2>6 DEF Days
    <3> HIDE DEF first, x, y, last, w
    <3>8. w.start = Whole(first) /\ w.end = Whole(first + (x - y)) /\ first + (x - y) \in Int
      BY <3>1, <3>6, <3>7
    <3>9. Span(e) = (first + (x - y)) * Hours - first * Hours
      BY <2>3, <3>1, <3>8, AMoment DEF Span
    <3>10. Span(e) = x * Hours - y * Hours
      BY <1>0, <3>1, <3>9, Multiples
    <3> QED BY <1>2, <3>3, <3>10 DEF Span
  <2>7. CASE ~kind
    <3> DEFINE n == a.start.at  was == Instant(prev.end) - Instant(prev.start)
    <3>1. n \in Int /\ a.start = At(n) /\ ~is_date_only(a.start)
      BY <2>2, <2>7, MomentIs
    <3>2. was = Span(e0) /\ was \in Int /\ was # 0
      <4>1. Instant(e0.end) \in Int /\ Instant(e0.start) \in Int
        BY <1>2, MomentIs DEF IsEvent
      <4> QED BY <1>6, <2>4, <2>7, <4>1 DEF Span
    <3>3. prev # Blank
      <4>1. "title" \in DOMAIN prev /\ "title" \notin DOMAIN Blank
        BY <1>2 DEF IsView, Blank
      <4> QED BY <4>1
    <3>4. Length(a, prev) = was
      BY <1>7, <1>9, <3>2, <3>3 DEF Length
    <3> HIDE DEF was, n
    <3>5. w = [start |-> a.start, end |-> At(n + was)]
      BY <1>7, <2>1, <2>5, <2>7, <3>1, <3>4 DEF Times, n
    <3> HIDE DEF w
    <3>6. w.start = At(n) /\ w.end = At(n + was) /\ n + was \in Int
      BY <3>1, <3>2, <3>5
    <3>7. Span(e) = (n + was) - n
      BY <2>3, <3>1, <3>6, AMoment DEF Span
    <3> QED BY <1>2, <3>1, <3>2, <3>7
  <2> QED BY <2>6, <2>7
<1> QED BY <1>8, <1>9

\* An event moved by its start alone keeps its length, days or hours, for any days, hours
\* and defaults, also when he moved it himself after the card went out.
THEOREM MovedKeepsLength == Spec => KeepsLength
<1>1. Init => CardInv
  BY CardBegins
<1>2. CardInv /\ [Next]_vars => CardInv'
  BY NextCard
<1>3. CardInv /\ [Next]_vars =>
         [\A i \in Ids :
            /\ Written(i) /\ call.verb = "update" /\ {"end", "all_day"} \cap DOMAIN call.action = {}
            /\ events[i] # None /\ event_view(events[i]) = call.prev /\ Span(events[i]) > 0
            /\ is_date_only(events'[i].start) = is_date_only(events[i].start)
            => Span(events'[i]) = Span(events[i])]_vars
  BY LengthKept
<1> QED BY <1>1, <1>2, <1>3, PTL DEF Spec, KeepsLength

LEMMA CreatedIsCard ==
    ASSUME CardInv, Next, NEW i \in Ids, Written(i), call.verb = "create"
    PROVE  /\ Rendered(event_view(events'[i])) =
                 IF Hourless(call.action) THEN [at |-> call.card.when.at + DefaultHour]
                 ELSE call.card.when
           /\ events'[i].place = call.card.place /\ events'[i].guests = call.card.guests
           /\ events'[i].meet => call.card.video
<1> DEFINE a == call.action  r == Resolved(a)
           b == body_from(r, Blank)  w == When(r, Blank)  kind == resolve_kind(r, Blank)
<1>0. a \in Drafts /\ IsAsk(a) /\ call.card = compose_create(a, call.quiet) /\ i \in DOMAIN events
  BY CreateWrites, DraftIsAsk DEF CardInv, CalendarInv
<1>1. /\ IsAsk(r) /\ create_body(a) = b
      /\ resolve_virtual(a) => DOMAIN r = DOMAIN a \cup {"virtual"} /\ r.virtual = TRUE
      /\ ~resolve_virtual(a) => r = a
      /\ \A f \in DOMAIN a \ {"virtual"} : r[f] = a[f]
  BY <1>0, ResolvedOf
<1> HIDE DEF r
<1>2. PICK e \in Merged(New, b) : events' = [events EXCEPT ![i] = e]
  BY <1>1, CreateWrites
<1>3. e = events'[i] /\ DOMAIN New = EventFields
  BY <1>0, <1>2, NewIsEvent
<1>4. /\ call.card.when = Rendered([start |-> a.start, end |-> Given(a, "end", a.start),
                                    all_day |-> Given(a, "all_day", is_date_only(a.start))])
      /\ call.card.video = resolve_virtual(a)
      /\ call.card.place = IF resolve_virtual(a) THEN None ELSE Given(a, "location", None)
      /\ call.card.guests = Given(a, "attendees", {})
  BY <1>0 DEF compose_create
<1>5. Blank.all_day = FALSE
  BY DEF Blank
<1>6. /\ \A f \in CHANGE_FIELDS \ {"virtual"} : provided(r, f) = provided(a, f)
      /\ \A f \in CHANGE_FIELDS \ {"virtual"} : provided(a, f) => r[f] = a[f]
      /\ provided(r, "virtual") /\ r.virtual <=> resolve_virtual(a)
      /\ provided(r, "virtual") => r.virtual = resolve_virtual(a)
  <2> HIDE DEF a
  <2>0. resolve_virtual(a) \in BOOLEAN
    BY <1>0 DEF resolve_virtual, provided, IsAsk
  <2>1. CASE resolve_virtual(a)
    <3>1. DOMAIN r = DOMAIN a \cup {"virtual"} /\ r["virtual"] = TRUE
      BY <1>1, <2>1
    <3>2. \A f \in CHANGE_FIELDS \ {"virtual"} : provided(r, f) = provided(a, f)
      <4> SUFFICES ASSUME NEW f \in CHANGE_FIELDS \ {"virtual"}
                   PROVE  provided(r, f) = provided(a, f)
        OBVIOUS
      <4>1. f \in DOMAIN r <=> f \in DOMAIN a
        BY <3>1
      <4> QED BY <4>1 DEF provided
    <3>3. \A f \in CHANGE_FIELDS \ {"virtual"} : provided(a, f) => r[f] = a[f]
      BY <1>1 DEF provided
    <3>4. provided(r, "virtual") /\ r.virtual = resolve_virtual(a)
      BY <2>0, <2>1, <3>1 DEF provided
    <3> QED BY <2>1, <3>2, <3>3, <3>4
  <2>2. CASE ~resolve_virtual(a)
    <3>1. provided(a, "virtual") => a.virtual = FALSE
      BY <1>0, <2>2 DEF resolve_virtual, provided, IsAsk
    <3>2. resolve_virtual(a) = FALSE
      BY <2>0, <2>2
    <3> QED BY <1>1, <2>2, <3>1, <3>2 DEF provided
  <2> QED BY <2>1, <2>2
<1>7. DOMAIN w \subseteq {"start", "end"}
  BY <1>1, WhenOf
<1>8. /\ DOMAIN b \cap {"start", "end"} = DOMAIN w /\ \A f \in DOMAIN w : b[f] = w[f]
      /\ "meet" \in DOMAIN b <=> provided(r, "virtual")
      /\ provided(r, "virtual") => (b.meet <=> r.virtual)
      /\ "place" \in DOMAIN b <=> (provided(r, "virtual") /\ r.virtual) \/ provided(r, "location")
      /\ provided(r, "virtual") /\ r.virtual => b.place = None
      /\ ~(provided(r, "virtual") /\ r.virtual) /\ provided(r, "location") => b.place = r.location
      /\ "guests" \in DOMAIN b <=> provided(r, "attendees")
      /\ provided(r, "attendees") => b.guests = r.attendees
  BY <1>1, <1>7, BodyOf
<1> HIDE DEF b, w, a
<1>9. /\ \A g \in EventFields \ {"meet"} : e[g] = IF g \in DOMAIN b THEN b[g] ELSE New[g]
      /\ "meet" \notin DOMAIN b => e.meet = New.meet
      /\ "meet" \in DOMAIN b /\ ~b.meet => e.meet = b.meet
  BY <1>2, <1>3, MergedOf
<1>10. /\ New.place = None /\ New.guests = {} /\ New.meet = FALSE
       /\ New["place"] = None /\ New["guests"] = {}
  BY DEF New
<1>11. e["guests"] = call.card.guests
  <2>1. provided(r, "attendees") = provided(a, "attendees") /\ (provided(a, "attendees") => r["attendees"] = a["attendees"])
    BY <1>6 DEF CHANGE_FIELDS
  <2> QED BY <1>4, <1>8, <1>9, <1>10, <2>1 DEF Given, EventFields
<1>12. e["place"] = call.card.place
  <2>1. provided(r, "location") = provided(a, "location") /\ (provided(a, "location") => r["location"] = a["location"])
    BY <1>6 DEF CHANGE_FIELDS
  <2> QED BY <1>4, <1>6, <1>8, <1>9, <1>10, <2>1 DEF Given, EventFields
<1>13. e.meet => call.card.video
  BY <1>4, <1>6, <1>8, <1>9, <1>10
<1>14. /\ provided(a, "start") /\ provided(r, "start") /\ r["start"] = a["start"]
       /\ provided(r, "end") = provided(a, "end") /\ (provided(a, "end") => r["end"] = a["end"])
       /\ provided(r, "all_day") = provided(a, "all_day") /\ (provided(a, "all_day") => r["all_day"] = a["all_day"])
  <2>1. provided(a, "start")
    BY <1>0, EventsAssumption DEF provided
  <2> QED BY <1>6, <2>1 DEF CHANGE_FIELDS
<1>15. kind = Given(a, "all_day", is_date_only(a.start)) /\ kind \in BOOLEAN
  <2>0. Blank.all_day \in BOOLEAN
    BY <1>5
  <2>1. resolve_kind(r, Blank) \in BOOLEAN
    BY <1>1, <2>0, KindOf
  <2>2. provided(r, "all_day") => resolve_kind(r, Blank) = r.all_day
    BY <1>1, <2>0, KindOf
  <2>3. ~provided(r, "all_day") => resolve_kind(r, Blank) = is_date_only(r.start)
    BY <1>1, <1>14, <2>0, KindOf
  <2>4. r.start = a.start
    BY <1>14
  <2> QED BY <1>14, <2>1, <2>2, <2>3, <2>4 DEF Given
<1>16. /\ DOMAIN w = {"start", "end"} /\ (is_date_only(w.start) <=> kind)
       /\ w = IF kind THEN Days(r, Blank) ELSE Times(r, Blank)
  BY <1>1, <1>14, WhenOf DEF w
<1>17. e["start"] = w["start"] /\ e["end"] = w["end"]
  BY <1>8, <1>9, <1>16 DEF EventFields
<1>18. a.start \in Moments /\ (provided(a, "end") => a.end \in Moments)
  BY <1>0, <1>14 DEF IsAsk, provided
<1>19. /\ event_view(e).start = e.start /\ event_view(e).all_day = is_date_only(e.start)
       /\ is_date_only(e.start) => event_view(e).end = Whole(e.end.day - 1)
  BY DEF event_view, from_wire_end
<1>20. Given(r, "start", Blank.start) = a.start
  BY <1>14 DEF Given
<1>21. Rendered(event_view(e)) =
          IF Hourless(a) THEN [at |-> call.card.when.at + DefaultHour] ELSE call.card.when
  <2>0. kind => ~Hourless(a)
    BY <1>15 DEF Hourless, Given
  <2>1. CASE kind
    <3> DEFINE first == as_day(a.start)
               last == IF provided(a, "end") THEN as_day(a.end) ELSE first
    <3>1. first \in Int /\ last \in Int
      BY <1>18, MomentIs
    <3>2. w = [start |-> Whole(first), end |-> Whole(to_wire_end(Later(first, last)))]
      BY <1>5, <1>14, <1>16, <1>20, <2>1 DEF Days, default_last_day
    <3>3. as_day(Given(a, "end", a.start)) = last
      BY DEF Given
    <3>4. call.card.when = [first |-> first, last |-> Later(first, last)]
      BY <1>4, <1>15, <2>1, <3>3 DEF Rendered
    <3> HIDE DEF first, last
    <3>5. w.start = Whole(first) /\ w.end = Whole(Later(first, last) + 1) /\ Later(first, last) \in Int
      BY <3>1, <3>2 DEF Later, to_wire_end
    <3>6. e.start = Whole(first) /\ e.end.day = Later(first, last) + 1
      BY <1>17, <3>1, <3>5, AMoment
    <3>7. event_view(e).start = Whole(first) /\ event_view(e).all_day
          /\ event_view(e).end = Whole(Later(first, last))
      <4>1. is_date_only(e.start) = TRUE
        BY <3>1, <3>6, AMoment DEF is_date_only
      <4>2. Later(first, last) + 1 - 1 = Later(first, last)
        BY <3>5
      <4>3. e.end.day - 1 = Later(first, last)
        BY <3>5, <3>6
      <4>4. event_view(e).end = Whole(e.end.day - 1)
        BY <1>19, <4>1
      <4>5. event_view(e).end = Whole(Later(first, last))
        BY <4>3, <4>4
      <4> QED BY <1>19, <3>6, <4>1, <4>5
    <3>8. as_day(Whole(first)) = first /\ as_day(Whole(Later(first, last))) = Later(first, last)
      BY <3>1, <3>5, AMoment
    <3>9. Later(first, Later(first, last)) = Later(first, last)
      BY <3>1 DEF Later
    <3> QED BY <2>0, <2>1, <3>4, <3>7, <3>8, <3>9 DEF Rendered
  <2>2. CASE ~kind /\ is_date_only(a.start)
    <3>1. Hourless(a)
      BY <1>15, <2>2 DEF Hourless, Given
    <3>2. w = Times(r, Blank)
      BY <1>16, <2>2
    <3>3. a.start.day \in Int /\ Instant(a.start) = a.start.day * Hours
      BY <1>18, <2>2, MomentIs DEF Instant
    <3> DEFINE t == a.start.day * Hours + DefaultHour
    <3>4. w.start = At(t) /\ t \in Int
      BY <1>20, <2>2, <3>2, <3>3, EventsAssumption DEF Times
    <3> HIDE DEF t
    <3>5. e.start = At(t) /\ ~is_date_only(e.start) /\ Instant(e.start) = t
      BY <1>17, <3>4, AMoment
    <3>6. event_view(e).start = e.start /\ ~event_view(e).all_day
      BY <1>19, <3>5
    <3>7. Rendered(event_view(e)) = [at |-> t]
      BY <3>5, <3>6 DEF Rendered
    <3>8. call.card.when = [at |-> Instant(a.start)]
      BY <1>4, <1>15, <2>2 DEF Rendered
    <3>9. t = call.card.when.at + DefaultHour
      BY <3>3, <3>8 DEF t
    <3> QED BY <3>1, <3>7, <3>9
  <2>3. CASE ~kind /\ ~is_date_only(a.start)
    <3>1. ~is_date_only(a.start) /\ ~Hourless(a)
      BY <2>3 DEF Hourless
    <3>2. w = Times(r, Blank)
      BY <1>16, <2>3
    <3>3. w.start = a.start
      BY <1>20, <3>1, <3>2 DEF Times
    <3>4. e.start = a.start
      BY <1>17, <3>3
    <3>5. event_view(e).start = a.start /\ ~event_view(e).all_day
      BY <1>19, <3>1, <3>4
    <3>6. Rendered(event_view(e)) = [at |-> Instant(a.start)]
      BY <3>5 DEF Rendered
    <3>7. call.card.when = [at |-> Instant(a.start)]
      BY <1>4, <1>15, <2>3 DEF Rendered
    <3> QED BY <3>1, <3>6, <3>7
  <2> QED BY <2>1, <2>2, <2>3
<1> QED BY <1>3, <1>11, <1>12, <1>13, <1>21 DEF a

\* For any drafts the schema admits: an event that is created is the one on the card, and
\* where the draft gives a date and says that it is not of whole days, it begins the default
\* hour after the midnight on the card.
THEOREM CreatedAsShown == Spec => CreateIsTheCard
<1>1. Init => CardInv
  BY CardBegins
<1>2. CardInv /\ [Next]_vars => CardInv'
  BY NextCard
<1>3. CardInv /\ [Next]_vars =>
         [\A i \in Ids : Written(i) /\ call.verb = "create" =>
            /\ Rendered(event_view(events'[i])) =
                  IF Hourless(call.action) THEN [at |-> call.card.when.at + DefaultHour]
                  ELSE call.card.when
            /\ events'[i].place = call.card.place /\ events'[i].guests = call.card.guests
            /\ events'[i].meet => call.card.video]_vars
  BY CreatedIsCard
<1> QED BY <1>1, <1>2, <1>3, PTL DEF Spec, CreateIsTheCard

------------------------------------------------------------------------
\* Dates asked for that are those of the view leave the event's as they are.
LEMMA SameTimes ==
    ASSUME NEW e, IsEvent(e), Span(e) > 0, NEW a, IsAsk(a),
           \A f \in {"start", "end", "all_day"} : provided(a, f) => a[f] = event_view(e)[f]
    PROVE  \A g \in DOMAIN When(a, event_view(e)) : When(a, event_view(e))[g] = e[g]
<1> DEFINE prev == event_view(e)  w == When(a, prev)  kind == resolve_kind(a, prev)
<1>0. Hours \in Nat \ {0}
  BY EventsAssumption
<1>1. /\ IsView(prev) /\ prev.start = e.start /\ prev.all_day = is_date_only(e.start)
      /\ is_date_only(e.start) =>
            prev.end = Whole(e.end.day - 1) /\ e.end = Whole(e.end.day) /\ e.end.day \in Int
      /\ ~is_date_only(e.start) => prev.end = e.end
  BY ViewOf
<1>2. /\ provided(a, "start") => a.start = prev.start
      /\ provided(a, "end") => a.end = prev.end
      /\ provided(a, "all_day") => a.all_day = prev.all_day
  OBVIOUS
<1>3. prev # Blank
  <2>1. "title" \in DOMAIN prev /\ "title" \notin DOMAIN Blank
    BY <1>1 DEF IsView, Blank
  <2> QED BY <2>1
<1>4. e.start \in Moments /\ e.end \in Moments /\ (is_date_only(e.start) <=> is_date_only(e.end))
  BY DEF IsEvent, is_date_only
<1> HIDE DEF prev
<1>5. prev.all_day \in BOOLEAN
  BY <1>1 DEF is_date_only
<1>6. kind <=> is_date_only(e.start)
  <2>1. is_date_only(prev.end) <=> is_date_only(e.start)
    <3>1. CASE is_date_only(e.start)
      <4>1. is_date_only(Whole(e.end.day - 1))
        BY DEF is_date_only, Whole
      <4> QED BY <1>1, <3>1, <4>1
    <3>2. CASE ~is_date_only(e.start)
      BY <1>1, <1>4, <3>2
    <3> QED BY <3>1, <3>2
  <2> QED BY <1>1, <1>2, <1>5, <2>1, KindOf
<1>7. CASE DOMAIN w = {}
  BY <1>7 DEF prev
<1>8. CASE DOMAIN w # {}
  <2>1. DOMAIN w = {"start", "end"} /\ w = IF kind THEN Days(a, prev) ELSE Times(a, prev)
    BY <1>1, <1>8, WhenOf
  <2>2. provided(a, "start") \/ provided(a, "end")
    <3>1. provided(a, "all_day") => kind = prev.all_day
      BY <1>2, <1>5, KindOf
    <3> QED BY <1>1, <1>8, <3>1, WhenOf
  <2>3. Given(a, "start", prev.start) = e.start
    BY <1>1, <1>2 DEF Given
  <2>4. CASE kind
    <3> DEFINE x == e.end.day  y == e.start.day
               last == IF provided(a, "end") THEN as_day(a.end) ELSE default_last_day(y, prev)
    <3>1. x \in Int /\ y \in Int /\ e.start = Whole(y) /\ e.end = Whole(x) /\ prev.end = Whole(x - 1)
      BY <1>1, <1>4, <1>6, <2>4, MomentIs
    <3>2. x > y
      <4>1. Instant(e.end) = x * Hours /\ Instant(e.start) = y * Hours
        BY <3>1, AMoment
      <4>2. x * Hours - y * Hours > 0
        BY <4>1 DEF Span
      <4> QED BY <1>0, <3>1, <4>2, Multiples
    <3> HIDE DEF x, y
    <3>3. as_day(e.start) = y /\ as_day(prev.end) = x - 1 /\ prev.end.day = x - 1 /\ prev.start.day = y
      BY <1>1, <3>1, AMoment
    <3>4. last = x - 1
      <4>1. default_last_day(y, prev) = x - 1
        BY <1>1, <1>6, <2>4, <3>1, <3>3 DEF default_last_day
      <4> QED BY <1>2, <3>3, <4>1
    <3>5. w = [start |-> Whole(y), end |-> Whole(to_wire_end(Later(y, last)))]
      BY <2>1, <2>3, <2>4, <3>3 DEF Days
    <3>6. to_wire_end(Later(y, last)) = x
      BY <3>1, <3>2, <3>4 DEF Later, to_wire_end
    <3> HIDE DEF last, w
    <3>7. w["start"] = e["start"] /\ w["end"] = e["end"]
      BY <3>1, <3>5, <3>6
    <3>8. \A g \in DOMAIN w : w[g] = e[g]
      BY <2>1, <3>7
    <3> QED BY <3>8 DEF w, prev
  <2>5. CASE ~kind
    <3> DEFINE n == e.start.at  m == e.end.at
    <3>1. ~is_date_only(e.start) /\ ~is_date_only(e.end) /\ prev.end = e.end
      BY <1>1, <1>4, <1>6, <2>5
    <3>2. n \in Int /\ m \in Int /\ e.start = At(n) /\ e.end = At(m) /\ Instant(e.start) = n /\ Instant(e.end) = m
      BY <1>4, <3>1, MomentIs DEF Instant
    <3>3. CASE provided(a, "end")
      <4>1. w = [start |-> e.start, end |-> e.end]
        BY <1>2, <2>1, <2>3, <2>5, <3>1, <3>3 DEF Times
      <4> HIDE DEF w
      <4>2. w["start"] = e["start"] /\ w["end"] = e["end"]
        BY <4>1
      <4>3. \A g \in DOMAIN w : w[g] = e[g]
        BY <2>1, <4>2
      <4> QED BY <4>3 DEF w, prev
    <3>4. CASE ~provided(a, "end")
      <4>1. Instant(prev.end) - Instant(prev.start) = m - n /\ m - n # 0
        BY <1>1, <3>1, <3>2 DEF Span
      <4>2. Length(a, prev) = m - n
        BY <1>3, <2>2, <3>4, <4>1 DEF Length
      <4>3. w = [start |-> e.start, end |-> At(n + Length(a, prev))]
        BY <2>1, <2>3, <2>5, <3>1, <3>4 DEF Times
      <4>4. n + (m - n) = m
        BY <3>2
      <4> HIDE DEF w, n, m
      <4>5. w["start"] = e["start"] /\ w["end"] = e["end"]
        BY <3>2, <4>2, <4>3, <4>4
      <4>6. \A g \in DOMAIN w : w[g] = e[g]
        BY <2>1, <4>5
      <4> QED BY <4>6 DEF w, prev
    <3> QED BY <3>3, <3>4
  <2> QED BY <2>4, <2>5
<1> QED BY <1>7, <1>8

\* What a change asks for and its card does not name is in the view already.
LEMMA UnnamedIsSo ==
    ASSUME NEW a, IsAsk(a), NEW view, NEW quiet
    PROVE  LET named == compose_update(a, view, quiet).named
           IN /\ "title" \notin named /\ provided(a, "title") => a.title = view.title
              /\ "when" \notin named =>
                    \A f \in {"start", "end", "all_day"} : provided(a, f) => a[f] = view[f]
              /\ "where" \notin named /\ provided(a, "virtual") => view.meet # Unknown /\ a.virtual = view.meet
              /\ "where" \notin named /\ provided(a, "location") => a.location = view.place
              /\ "guests" \notin named /\ provided(a, "attendees") => a.attendees = view.guests
              /\ "mail" \notin named /\ ~quiet => view.guests = {} /\ Given(a, "attendees", {}) = {}
<1> DEFINE chs == changes(a, view)
           note == _guest_note(Given(a, "attendees", {}) \cup view.guests, quiet)
           named == {Category(f) : f \in chs} \cup note
<1>1. compose_update(a, view, quiet).named = named
  BY DEF compose_update
<1>2. \A f \in chs : Category(f) \in named
  OBVIOUS
<1>3. \A f \in DOMAIN a \ chs :
        CASE f = "virtual"   -> ~(view.meet = Unknown \/ a.virtual # view.meet)
          [] f = "attendees" -> ~(a.attendees # view.guests)
          [] f = "location"  -> ~(a.location # view.place)
          [] OTHER           -> ~(a[f] # view[f])
  BY DEF changes
<1>4. note = IF Given(a, "attendees", {}) \cup view.guests # {} /\ ~quiet THEN {"mail"} ELSE {}
  BY DEF _guest_note
<1>5. note \subseteq named
  OBVIOUS
<1>6. /\ Category("title") = "title" /\ Category("attendees") = "guests"
      /\ Category("virtual") = "where" /\ Category("location") = "where"
      /\ Category("start") = "when" /\ Category("end") = "when" /\ Category("all_day") = "when"
  BY DEF Category
<1> HIDE DEF chs, note, named
<1>7. /\ "title" \notin named => "title" \notin chs
      /\ "guests" \notin named => "attendees" \notin chs
      /\ "where" \notin named => "virtual" \notin chs /\ "location" \notin chs
      /\ "when" \notin named => "start" \notin chs /\ "end" \notin chs /\ "all_day" \notin chs
  BY <1>2, <1>6
<1>8. /\ "title" \notin named /\ provided(a, "title") => a["title"] = view["title"]
      /\ "when" \notin named => \A f \in {"start", "end", "all_day"} : provided(a, f) => a[f] = view[f]
      /\ "where" \notin named /\ provided(a, "virtual") => view.meet # Unknown /\ a.virtual = view.meet
      /\ "where" \notin named /\ provided(a, "location") => a.location = view.place
      /\ "guests" \notin named /\ provided(a, "attendees") => a.attendees = view.guests
  BY <1>3, <1>7 DEF provided
<1>9. "mail" \notin named /\ ~quiet => view.guests = {} /\ Given(a, "attendees", {}) = {}
  BY <1>4, <1>5
<1> QED BY <1>1, <1>8, <1>9

LEMMA ChangeIsNamed ==
    ASSUME CardInv, Next, NEW i \in Ids, Written(i), call.verb = "update",
           Unedited(i, call.card.of), Span(events[i]) > 0,
           Given(call.action, "virtual", FALSE) => ~events[i].meet
    PROVE  /\ Changed(events[i], events'[i]) \subseteq call.card.named
           /\ ~call.quiet /\ events[i].guests \cup events'[i].guests # {} => "mail" \in call.card.named
<1> DEFINE a == call.action  prev == call.prev  e0 == events[i]  view == call.card.of
           b == body_from(a, prev)  w == When(a, prev)  named == call.card.named
           video == provided(a, "virtual") /\ a.virtual
<1>1. PICK e \in Merged(e0, b) : events' = [events EXCEPT ![i] = e]
  BY UpdateWrites
<1>2. IsAsk(a) /\ IsView(prev) /\ IsEvent(e0) /\ DOMAIN e0 = EventFields /\ e = events'[i]
  <2>1. i \in DOMAIN events
    BY DEF CardInv, CalendarInv
  <2> QED BY <1>1, <2>1, UpdateWrites DEF IsEvent, EventFields
<1>3. IsView(view) /\ named = compose_update(a, view, call.quiet).named
  BY DEF CardInv, PlanInv, IsPlan, Written
<1>4. /\ prev = event_view(e0)
      /\ view.start = prev.start /\ view.end = prev.end /\ view.all_day = prev.all_day
      /\ view.title = e0.title /\ view.place = e0.place /\ view.guests = e0.guests
      /\ view.meet \in {Unknown, e0.meet}
  <2>1. prev = [view EXCEPT !.meet = Unknown] /\ prev = event_view(e0) /\ view.meet \in {Unknown, e0.meet}
    BY DEF Unedited
  <2>2. /\ prev.start = view.start /\ prev.end = view.end /\ prev.all_day = view.all_day
        /\ prev.title = view.title /\ prev.place = view.place /\ prev.guests = view.guests
    BY <1>3, <2>1 DEF IsView
  <2>3. /\ event_view(e0).title = e0.title /\ event_view(e0).place = e0.place
        /\ event_view(e0).guests = e0.guests
    BY <1>2, ViewOf
  <2> HIDE DEF prev, view, e0
  <2> QED BY <2>1, <2>2, <2>3
<1>5. DOMAIN w \subseteq {"start", "end"}
  BY <1>2, WhenOf
<1>6. /\ "title" \in DOMAIN b <=> provided(a, "title")
      /\ provided(a, "title") => b.title = a.title
      /\ DOMAIN b \cap {"start", "end"} = DOMAIN w
      /\ \A f \in DOMAIN w : b[f] = w[f]
      /\ "meet" \in DOMAIN b <=> provided(a, "virtual")
      /\ provided(a, "virtual") => b.meet \in BOOLEAN /\ (b.meet <=> a.virtual)
      /\ "place" \in DOMAIN b <=> video \/ provided(a, "location")
      /\ video => b.place = None
      /\ ~video /\ provided(a, "location") => b.place = a.location
      /\ "guests" \in DOMAIN b <=> provided(a, "attendees")
      /\ provided(a, "attendees") => b.guests = a.attendees
  BY <1>2, <1>5, BodyOf
<1>7. /\ \A g \in EventFields \ {"meet"} : e[g] = IF g \in DOMAIN b THEN b[g] ELSE e0[g]
      /\ "meet" \notin DOMAIN b => e.meet = e0.meet
      /\ "meet" \in DOMAIN b /\ ~b.meet => e.meet = b.meet
  BY <1>1, <1>2, MergedOf
<1>8. /\ "title" \notin named /\ provided(a, "title") => a.title = view.title
      /\ "when" \notin named =>
            \A f \in {"start", "end", "all_day"} : provided(a, f) => a[f] = view[f]
      /\ "where" \notin named /\ provided(a, "virtual") => view.meet # Unknown /\ a.virtual = view.meet
      /\ "where" \notin named /\ provided(a, "location") => a.location = view.place
      /\ "guests" \notin named /\ provided(a, "attendees") => a.attendees = view.guests
      /\ "mail" \notin named /\ ~call.quiet => view.guests = {} /\ Given(a, "attendees", {}) = {}
  BY <1>2, <1>3, UnnamedIsSo
<1>9. "when" \notin named => \A g \in DOMAIN w : w[g] = e0[g]
  <2> SUFFICES ASSUME "when" \notin named PROVE \A g \in DOMAIN w : w[g] = e0[g]
    OBVIOUS
  <2>1. \A f \in {"start", "end", "all_day"} : provided(a, f) => a[f] = event_view(e0)[f]
    BY <1>4, <1>8
  <2> QED BY <1>2, <1>4, <2>1, SameTimes
<1> HIDE DEF b, w, a, named, view, e0, prev
<1>10. "title" \notin named => e["title"] = e0["title"]
  BY <1>4, <1>6, <1>7, <1>8 DEF EventFields
<1>11. "when" \notin named => e["start"] = e0["start"] /\ e["end"] = e0["end"]
  BY <1>6, <1>7, <1>9 DEF EventFields
<1>12. "guests" \notin named => e["guests"] = e0["guests"]
  BY <1>4, <1>6, <1>7, <1>8 DEF EventFields
<1>13. "where" \notin named => e["place"] = e0["place"] /\ e["meet"] = e0["meet"]
  <2> SUFFICES ASSUME "where" \notin named PROVE e["place"] = e0["place"] /\ e["meet"] = e0["meet"]
    OBVIOUS
  <2>1. ~video
    <3>1. provided(a, "virtual") => a.virtual = e0.meet
      BY <1>4, <1>8
    <3>2. video => ~e0.meet
      BY DEF a, e0, Given
    <3> QED BY <3>1, <3>2
  <2>2. e["place"] = e0["place"]
    BY <1>4, <1>6, <1>7, <1>8, <2>1 DEF EventFields
  <2>3. CASE provided(a, "virtual")
    <3>1. a.virtual \in BOOLEAN /\ a.virtual = e0.meet
      BY <1>2, <1>4, <1>8, <2>3 DEF IsAsk, provided
    <3>2. e0.meet = FALSE /\ "meet" \in DOMAIN b /\ b.meet = FALSE
      BY <1>6, <2>1, <2>3, <3>1
    <3> QED BY <1>7, <2>2, <3>2
  <2>4. CASE ~provided(a, "virtual")
    BY <1>6, <1>7, <2>2, <2>4
  <2> QED BY <2>3, <2>4
<1>14. Changed(e0, e) \subseteq named
  BY <1>10, <1>11, <1>12, <1>13 DEF Changed
<1>15. "mail" \notin named /\ ~call.quiet => e0.guests = {} /\ e["guests"] = {}
  BY <1>4, <1>6, <1>7, <1>8 DEF EventFields, Given
<1> QED BY <1>2, <1>14, <1>15 DEF named, e0

\* A write to an event that is as its card shows it changes nothing the card does not name
\* and mails nobody unwarned, for any changes, days and defaults; an event of no length and
\* a video call asked for again are left out, where the code does otherwise.
THEOREM CardNamesIt == Spec => CardNamesEveryChange
<1>1. Init => CardInv
  BY CardBegins
<1>2. CardInv /\ [Next]_vars => CardInv'
  BY NextCard
<1>3. CardInv /\ [Next]_vars =>
         [\A i \in Ids :
            /\ Written(i) /\ call.verb = "update" /\ Unedited(i, call.card.of) /\ Span(events[i]) > 0
            /\ Given(call.action, "virtual", FALSE) => ~events[i].meet
            => /\ Changed(events[i], events'[i]) \subseteq call.card.named
               /\ ~call.quiet /\ events[i].guests \cup events'[i].guests # {} => "mail" \in call.card.named]_vars
  BY ChangeIsNamed
<1> QED BY <1>1, <1>2, <1>3, PTL DEF Spec, CardNamesEveryChange

------------------------------------------------------------------------
(* Where the promise that ApprovedWhen states is kept.                     *)

\* The event keeps its kind and its new start is of that kind; whole days are
\* given by both ends.
Plain(a, prev) ==
    /\ resolve_kind(a, prev) = prev.all_day
    /\ provided(a, "start") =>
          is_date_only(a.start) = prev.all_day /\ (prev.all_day => provided(a, "end"))

\* Where ApprovedWhen is kept: a change that leaves an event of its kind, and
\* gives whole days by both ends, writes the days or the hour that its card
\* shows (body_from and compose_update).
PlainDatesAreShown ==
    [][\A i \in Ids :
         /\ Written(i) /\ call.verb = "update" /\ Unedited(i, call.card.of)
         /\ Plain(call.action, call.prev) /\ call.card.when # None
         => Rendered(event_view(events'[i])) = call.card.when]_vars

\* The card of a change shows the dates asked for, and those of the view where
\* none are.
LEMMA AfterOf ==
    ASSUME NEW a, IsAsk(a), NEW view, IsView(view), NEW quiet,
           compose_update(a, view, quiet).when # None
    PROVE  \E after :
              /\ compose_update(a, view, quiet).when = Rendered(after)
              /\ \A f \in {"start", "end", "all_day"} : after[f] = Given(a, f, view[f])
              /\ \E f \in {"start", "end", "all_day"} : provided(a, f) /\ a[f] # view[f]
<1> DEFINE chs == changes(a, view)
           after == [f \in {"start", "end", "all_day"} |-> IF f \in chs THEN a[f] ELSE view[f]]
           named == {Category(f) : f \in chs}
<1>1. compose_update(a, view, quiet).when = IF "when" \in named THEN Rendered(after) ELSE None
  BY DEF compose_update
<1>2. "when" \in named
  BY <1>1
<1>3. \A f \in {"start", "end", "all_day"} : f \in chs <=> provided(a, f) /\ a[f] # view[f]
  BY DEF changes, provided
<1>4. \A f \in {"start", "end", "all_day"} : after[f] = Given(a, f, view[f])
  BY <1>3 DEF Given
<1>5. \E f \in {"start", "end", "all_day"} : f \in chs
  <2>1. PICK f \in chs : Category(f) = "when"
    BY <1>2
  <2>2. f \in CHANGE_FIELDS
    BY <2>1 DEF changes, IsAsk
  <2> QED BY <2>1, <2>2 DEF Category, CHANGE_FIELDS
<1> HIDE DEF after, chs, named
<1> QED BY <1>1, <1>2, <1>3, <1>4, <1>5

LEMMA PlainIsShown ==
    ASSUME CardInv, Next, NEW i \in Ids, Written(i), call.verb = "update",
           Unedited(i, call.card.of), Plain(call.action, call.prev), call.card.when # None
    PROVE  Rendered(event_view(events'[i])) = call.card.when
<1> DEFINE a == call.action  prev == call.prev  e0 == events[i]  view == call.card.of
           b == body_from(a, prev)  w == When(a, prev)  kind == resolve_kind(a, prev)
<1>0. Hours \in Nat \ {0}
  BY EventsAssumption
<1>1. PICK e \in Merged(e0, b) : Accepts(e) /\ events' = [events EXCEPT ![i] = e]
  BY UpdateWrites
<1>2. IsAsk(a) /\ IsView(prev) /\ IsEvent(e0) /\ DOMAIN e0 = EventFields /\ e = events'[i]
  <2>1. i \in DOMAIN events
    BY DEF CardInv, CalendarInv
  <2> QED BY <1>1, <2>1, UpdateWrites DEF IsEvent, EventFields
<1>3. IsView(view) /\ call.card = compose_update(a, view, call.quiet)
  BY DEF CardInv, PlanInv, IsPlan, Written
<1>4. view.start = prev.start /\ view.end = prev.end /\ view.all_day = prev.all_day
  <2>1. prev = [view EXCEPT !.meet = Unknown]
    BY DEF Unedited
  <2> HIDE DEF prev, view
  <2> QED BY <1>3, <2>1 DEF IsView
<1>5. PICK after :
         /\ call.card.when = Rendered(after)
         /\ \A f \in {"start", "end", "all_day"} : after[f] = Given(a, f, view[f])
         /\ \E f \in {"start", "end", "all_day"} : provided(a, f) /\ a[f] # view[f]
  BY <1>2, <1>3, AfterOf
<1>6. /\ after.start = Given(a, "start", prev.start) /\ after.end = Given(a, "end", prev.end)
      /\ after.all_day = prev.all_day
  <2>1. provided(a, "all_day") => a.all_day = prev.all_day
    BY <1>2, KindOf DEF Plain, IsView
  <2> QED BY <1>4, <1>5, <2>1 DEF Given
\* Dates are written, since those asked for are not those of the view.
<1>7. provided(a, "start") \/ provided(a, "end")
  <2>1. provided(a, "all_day") => a.all_day = view.all_day
    BY <1>2, <1>4, KindOf DEF Plain, IsView
  <2> QED BY <1>5, <2>1
<1>8. /\ DOMAIN w = {"start", "end"} /\ w.start \in Moments /\ w.end \in Moments
      /\ (is_date_only(w.start) <=> kind) /\ (is_date_only(w.end) <=> kind)
      /\ w = IF kind THEN Days(a, prev) ELSE Times(a, prev)
  BY <1>2, <1>7, WhenOf
<1>9. e.start = w.start /\ e.end = w.end /\ IsEvent(e)
  <2>0. DOMAIN w \subseteq {"start", "end"}
    BY <1>2, WhenOf
  <2>1. DOMAIN b \cap {"start", "end"} = DOMAIN w /\ \A f \in DOMAIN w : b[f] = w[f]
    BY <1>2, <2>0, BodyOf
  <2>2. \A g \in EventFields \ {"meet"} : e[g] = IF g \in DOMAIN b THEN b[g] ELSE e0[g]
    BY <1>1, <1>2, MergedOf
  <2>3. IsEvent(e)
    BY <1>1, <1>2, MergedIsEvent
  <2> HIDE DEF b, w
  <2>4. e["start"] = w["start"] /\ e["end"] = w["end"]
    BY <1>8, <2>1, <2>2 DEF EventFields
  <2> QED BY <2>3, <2>4
<1>10. /\ event_view(e).start = e.start /\ event_view(e).all_day = is_date_only(e.start)
       /\ is_date_only(e.start) => event_view(e).end = Whole(e.end.day - 1)
  BY <1>9, ViewOf
<1>11. kind = prev.all_day /\ kind \in BOOLEAN
       /\ (provided(a, "start") => is_date_only(a.start) = prev.all_day /\ (prev.all_day => provided(a, "end")))
  BY <1>2 DEF Plain, IsView
<1>12. (prev.all_day <=> is_date_only(prev.start)) /\ (prev.all_day <=> is_date_only(prev.end))
       /\ prev.start \in Moments /\ prev.end \in Moments
  BY <1>2 DEF IsView
<1>13. (provided(a, "start") => a.start \in Moments) /\ (provided(a, "end") => a.end \in Moments)
  BY <1>2 DEF IsAsk, provided
<1>14. CASE kind
  <2> DEFINE first == as_day(after.start)  last == as_day(after.end)
  <2>1. first \in Int /\ last \in Int
    BY <1>6, <1>12, <1>13, MomentIs DEF Given
  <2>2. w = [start |-> Whole(first), end |-> Whole(to_wire_end(Later(first, last)))]
    <3>1. ~provided(a, "end") => default_last_day(first, prev) = last
      <4>1. ~provided(a, "end") => after.start = prev.start /\ after.end = prev.end
        BY <1>6, <1>11, <1>14 DEF Given
      <4>2. /\ prev.start.day \in Int /\ as_day(prev.start) = prev.start.day
            /\ prev.end.day \in Int /\ as_day(prev.end) = prev.end.day
        BY <1>11, <1>12, <1>14, MomentIs
      <4> QED BY <1>11, <1>14, <4>1, <4>2 DEF default_last_day
    <3>2. provided(a, "end") => last = as_day(a.end)
      BY <1>6 DEF Given
    <3>3. w = [start |-> Whole(first),
               end |-> Whole(to_wire_end(Later(first, IF provided(a, "end") THEN as_day(a.end)
                                                      ELSE default_last_day(first, prev))))]
      BY <1>6, <1>8, <1>14 DEF Days
    <3> HIDE DEF first, last, w
    <3> QED BY <3>1, <3>2, <3>3
  <2>3. w.start = Whole(first) /\ w.end = Whole(Later(first, last) + 1)
    <3> HIDE DEF first, last, w
    <3> QED BY <2>2 DEF to_wire_end
  <2> HIDE DEF first, last, w
  <2>4. Later(first, last) \in Int /\ Later(first, Later(first, last)) = Later(first, last)
    BY <2>1 DEF Later
  <2>5. /\ e.start = Whole(first) /\ is_date_only(e.start)
        /\ e.end.day = Later(first, last) + 1
    BY <1>9, <2>1, <2>3, <2>4, AMoment
  <2>6. /\ event_view(e).all_day = TRUE
        /\ as_day(event_view(e).start) = first /\ as_day(event_view(e).end) = Later(first, last)
    <3>1. event_view(e).end = Whole(Later(first, last))
      BY <1>10, <2>4, <2>5
    <3>2. event_view(e).all_day = TRUE
      BY <1>10, <2>5 DEF is_date_only
    <3> QED BY <1>10, <2>1, <2>4, <2>5, <3>1, <3>2, AMoment
  <2>7. Rendered(event_view(e)) = [first |-> first, last |-> Later(first, last)]
    BY <2>4, <2>6 DEF Rendered
  <2>8. Rendered(after) = [first |-> first, last |-> Later(first, last)]
    BY <1>6, <1>11, <1>14 DEF Rendered, first, last
  <2> QED BY <1>2, <1>5, <2>7, <2>8
<1>15. CASE ~kind
  <2>1. ~is_date_only(after.start)
    BY <1>6, <1>11, <1>12, <1>15 DEF Given
  <2>2. Times(a, prev).start = after.start
    BY <1>6, <2>1 DEF Times
  <2>3. e.start = after.start
    BY <1>8, <1>9, <1>15, <2>2
  <2>4. Rendered(event_view(e)) = [at |-> Instant(after.start)]
    BY <1>10, <2>1, <2>3 DEF Rendered
  <2>5. Rendered(after) = [at |-> Instant(after.start)]
    BY <1>6, <1>11, <1>15 DEF Rendered
  <2> QED BY <1>2, <1>5, <2>4, <2>5
<1> QED BY <1>11, <1>14, <1>15

\* A change that leaves an event of its kind, whole days by both ends, writes the days or the
\* hour its card shows to an event that is as the card shows it: the rest is what EventsApproved
\* finds.  (compose_update in app/skills/calendar_format.py, body_from in app/tools/calendar.py)
THEOREM PlainDatesAreWritten == Spec => PlainDatesAreShown
<1>1. Init => CardInv
  BY CardBegins
<1>2. CardInv /\ [Next]_vars => CardInv'
  BY NextCard
<1>3. CardInv /\ [Next]_vars =>
         [\A i \in Ids :
            /\ Written(i) /\ call.verb = "update" /\ Unedited(i, call.card.of)
            /\ Plain(call.action, call.prev) /\ call.card.when # None
            => Rendered(event_view(events'[i])) = call.card.when]_vars
  BY PlainIsShown
<1> QED BY <1>1, <1>2, <1>3, PTL DEF Spec, PlainDatesAreShown

=============================================================================
