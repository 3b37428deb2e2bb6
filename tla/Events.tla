------------------------------- MODULE Events -------------------------------
(***************************************************************************)
(* The calendar skill: what its cards say (app/skills/calendar_format.py), *)
(* what its handler writes (app/tools/calendar.py), and the gate between   *)
(* them (app/skills/calendar.py).                                          *)
(*                                                                         *)
(* An event is read into a view, the model proposes an action on it, the   *)
(* card is composed from the action and the view, and his yes runs a       *)
(* handler that reads the event again, builds a body and sends it.  He may *)
(* edit the event in Google Calendar between any two of these, and an      *)
(* answer of Google's may be lost before or after the write.               *)
(***************************************************************************)
EXTENDS Integers, FiniteSets

CONSTANTS
    Hours,          \* hours in a day
    DefaultHour,    \* default_start_hour
    DefaultLength,  \* default_meeting_minutes
    Drafts,         \* the events the model may propose to create
    Patches,        \* the changes the model may propose to an event
    Earlier,        \* the event that is there already
    Edits,          \* what he may do to an event himself
    None, Unknown,
    MaxTurns, MaxFaults     \* bounds on proposals and lost answers

CHANGE_FIELDS == {"title", "start", "end", "all_day", "virtual", "location", "attendees"}

\* Days and instants, as they are spelled.
Moments == [day : Int] \cup [at : Int]

IsEvent(e) ==
    /\ DOMAIN e = {"title", "start", "end", "place", "guests", "meet"}
    /\ {e.start, e.end} \subseteq Moments /\ ("day" \in DOMAIN e.start <=> "day" \in DOMAIN e.end)

ASSUME EventsAssumption ==
    /\ {DefaultHour, DefaultLength, MaxTurns, MaxFaults} \subseteq Nat
    /\ Hours \in Nat \ {0}
    /\ \A a \in Drafts \cup Patches :
          /\ DOMAIN a \subseteq CHANGE_FIELDS
          /\ \A f \in DOMAIN a \cap {"start", "end"} : a[f] \in Moments
          /\ \A f \in DOMAIN a \cap {"all_day", "virtual"} : a[f] \in BOOLEAN
    /\ \A a \in Drafts : {"title", "start"} \subseteq DOMAIN a
    /\ \A e \in Edits \cup {Earlier} : IsEvent(e)

Ids == {"old", "new"}

VARIABLES
    events,     \* the calendar: per id what Google holds, or None
    seen,       \* seen_events: per id the view last surfaced, or None
    pending,    \* the proposal awaiting his yes, with the card that went out
    call,       \* the run of the handler under way
    told,       \* how the last run ended
    turns, faults

vars == <<events, seen, pending, call, told, turns, faults>>

Idle == [verb |-> "none"]

------------------------------------------------------------------------
(* Days and hours.  A value is a date or an instant, as it is spelled.  On *)
(* the wire the end of an all-day event is the day after its last.         *)

Whole(d) == [day |-> d]
At(t) == [at |-> t]
is_date_only(v) == "day" \in DOMAIN v
as_day(v) == IF is_date_only(v) THEN v.day ELSE v.at \div Hours
Instant(v) == IF is_date_only(v) THEN v.day * Hours ELSE v.at
to_wire_end(d) == d + 1
from_wire_end(d) == d - 1
Later(d, e) == IF d > e THEN d ELSE e

\* An event above the handler: it ends on its last day.
event_view(e) ==
    [title |-> e.title, start |-> e.start,
     end |-> IF is_date_only(e.start) THEN Whole(from_wire_end(e.end.day)) ELSE e.end,
     all_day |-> is_date_only(e.start),
     place |-> e.place, guests |-> e.guests, meet |-> Unknown]

\* What create and update return of it besides says if it has a video call.
Returned(e) == [event_view(e) EXCEPT !.meet = e.meet]

\* What is read for an event that is not there yet.
Blank == [start |-> Whole(0), end |-> Whole(0), all_day |-> FALSE]

------------------------------------------------------------------------
(* What an action asks for. *)

provided(a, f) == f \in DOMAIN a
Given(a, f, other) == IF provided(a, f) THEN a[f] ELSE other

\* The flag decides; else the spelling of the new start, or of the new end;
\* else the event keeps its kind.
resolve_kind(a, prev) ==
    CASE provided(a, "all_day") -> a.all_day
      [] ~provided(a, "all_day") /\ provided(a, "start") -> is_date_only(a.start)
      [] ~provided(a, "all_day") /\ ~provided(a, "start") /\ provided(a, "end") -> is_date_only(a.end)
      [] OTHER -> prev.all_day

\* A new event with an hour and nowhere to go is a video call.
resolve_virtual(a) ==
    IF provided(a, "virtual") THEN a.virtual
    ELSE ~resolve_kind(a, Blank) /\ Given(a, "location", None) = None

\* Mutant: a field that clears something does not count as sent.
changes_truthy(a, view) ==
    {f \in DOMAIN a :
        CASE f = "virtual"   -> a.virtual
          [] f = "attendees" -> a.attendees # {}
          [] f = "location"  -> a.location # None
          [] OTHER           -> a[f] # view[f]}

\* The fields that would change an event with this view.
changes(a, view) ==
    {f \in DOMAIN a :
        CASE f = "virtual"   -> view.meet = Unknown \/ a.virtual # view.meet
          [] f = "attendees" -> a.attendees # view.guests
          [] f = "location"  -> a.location # view.place
          [] OTHER           -> a[f] # view[f]}

\* Mutant: an end that is not given is the default length after the start.
LengthDefault(a, prev) == DefaultLength

\* With a new start and no end, an event that gets or keeps an hour lasts as
\* long as it did.
Length(a, prev) ==
    LET was == Instant(prev.end) - Instant(prev.start)
    IN IF prev # Blank /\ provided(a, "start") /\ ~provided(a, "end") /\ was # 0
       THEN was ELSE DefaultLength

default_last_day(first, prev) ==
    IF prev.all_day THEN first + prev.end.day - prev.start.day ELSE first

Days(a, prev) ==
    LET first == as_day(Given(a, "start", prev.start))
        last == IF provided(a, "end") THEN as_day(a.end) ELSE default_last_day(first, prev)
    IN [start |-> Whole(first), end |-> Whole(to_wire_end(Later(first, last)))]

Times(a, prev) ==
    LET s == Given(a, "start", prev.start)
        start == IF is_date_only(s) THEN At(s.day * Hours + DefaultHour) ELSE s
    IN [start |-> start,
        end |-> IF provided(a, "end") /\ ~is_date_only(a.end) THEN a.end
                ELSE At(start.at + Length(a, prev))]

\* Both ends are written, or neither is.
When(a, prev) ==
    LET kind == resolve_kind(a, prev)
    IN IF ~provided(a, "start") /\ ~provided(a, "end")
          /\ (provided(a, "all_day") => kind = prev.all_day)
       THEN [f \in {} |-> None]
       ELSE IF kind THEN Days(a, prev) ELSE Times(a, prev)

\* The fields of both; where both have one, that of the first.
And(f, g) == [x \in DOMAIN f \cup DOMAIN g |-> IF x \in DOMAIN f THEN f[x] ELSE g[x]]
Only(f, value, asked) == IF asked THEN [g \in {f} |-> value] ELSE [g \in {} |-> value]

\* A video call wins over a place, and takes it off the event.
body_from(a, prev) ==
    LET video == provided(a, "virtual") /\ a.virtual
        kept == Only("title", Given(a, "title", None), provided(a, "title"))
        place == Only("place", IF video THEN None ELSE Given(a, "location", None),
                      video \/ provided(a, "location"))
        guests == Only("guests", Given(a, "attendees", {}), provided(a, "attendees"))
    IN And(And(And(kept, When(a, prev)), Only("meet", video, provided(a, "virtual"))),
           And(place, guests))

\* The span of an all-day event that ends before it begins.
Backwards(a, prev) ==
    /\ resolve_kind(a, prev) /\ provided(a, "start") /\ provided(a, "end")
    /\ as_day(a.end) < as_day(a.start)

------------------------------------------------------------------------
(* What the cards say. *)

\* The date and time lines: the days of a whole-day event, else its start.
Rendered(v) ==
    IF v.all_day THEN [first |-> as_day(v.start), last |-> Later(as_day(v.start), as_day(v.end))]
    ELSE [at |-> Instant(v.start)]

_guest_note(guests, quiet) == IF guests # {} /\ ~quiet THEN {"mail"} ELSE {}

\* Mutant: the card asks the action, not the resolver, about the video call.
compose_create_asked(a, quiet) ==
    [when   |-> Rendered([start |-> a.start, end |-> Given(a, "end", a.start),
                          all_day |-> Given(a, "all_day", is_date_only(a.start))]),
     video  |-> Given(a, "virtual", FALSE),
     place  |-> IF Given(a, "virtual", FALSE) THEN None ELSE Given(a, "location", None),
     guests |-> Given(a, "attendees", {}),
     named  |-> _guest_note(Given(a, "attendees", {}), quiet)]

compose_create(a, quiet) ==
    [when   |-> Rendered([start |-> a.start, end |-> Given(a, "end", a.start),
                          all_day |-> Given(a, "all_day", is_date_only(a.start))]),
     video  |-> resolve_virtual(a),
     place  |-> IF resolve_virtual(a) THEN None ELSE Given(a, "location", None),
     guests |-> Given(a, "attendees", {}),
     named  |-> _guest_note(Given(a, "attendees", {}), quiet)]

Category(f) ==
    CASE f \in {"start", "end", "all_day"} -> "when"
      [] f \in {"virtual", "location"}     -> "where"
      [] f = "attendees"                   -> "guests"
      [] OTHER                             -> f

\* What would be changing, and the new date if that is; start, end and kind
\* are one thing on a card.
compose_update(a, view, quiet) ==
    LET chs == changes(a, view)
        after == [f \in {"start", "end", "all_day"} |-> IF f \in chs THEN a[f] ELSE view[f]]
        named == {Category(f) : f \in chs}
    IN [of |-> view, named |-> named \cup _guest_note(Given(a, "attendees", {}) \cup view.guests, quiet),
        when |-> IF "when" \in named THEN Rendered(after) ELSE None]

compose_delete(view, quiet) ==
    [of |-> view, when |-> None,
     named |-> {"title", "when", "where", "guests"} \cup _guest_note(view.guests, quiet)]

------------------------------------------------------------------------
(* The loop around the handler. *)

Init ==
    /\ events = [i \in Ids |-> IF i = "old" THEN Earlier ELSE None]
    /\ seen = [i \in Ids |-> None]
    /\ pending = None
    /\ call = Idle
    /\ told = None
    /\ turns = 0 /\ faults = 0

\* A find or a list surfaces the event to the model.
Finds(i) ==
    /\ call = Idle /\ events[i] # None
    /\ seen' = [seen EXCEPT ![i] = event_view(events[i])]
    /\ UNCHANGED <<events, pending, call, told, turns, faults>>

\* A fresh tag: nothing of the old loop is left.
StartsOver ==
    /\ call = Idle
    /\ seen' = [i \in Ids |-> None]
    /\ pending' = None
    /\ UNCHANGED <<events, call, told, turns, faults>>

\* A proposal takes the place of one that awaits his answer.
Proposes(verb, i, a, quiet, card) ==
    /\ call = Idle /\ turns < MaxTurns
    /\ pending' = [verb |-> verb, id |-> i, action |-> a, quiet |-> quiet, card |-> card]
    /\ turns' = turns + 1
    /\ UNCHANGED <<events, seen, call, told, faults>>

ProposesCreate ==
    \E a \in Drafts, quiet \in BOOLEAN :
        /\ events["new"] = None /\ seen["new"] = None
        /\ Proposes("create", "new", a, quiet, compose_create(a, quiet))

\* Only an event it was shown: the gate refuses another.  A change that names
\* nothing goes out as no card.
ProposesUpdate(i) ==
    \E a \in Patches, quiet \in BOOLEAN :
        /\ seen[i] # None /\ changes(a, seen[i]) # {}
        /\ Proposes("update", i, a, quiet, compose_update(a, seen[i], quiet))

ProposesDelete(i) ==
    \E quiet \in BOOLEAN :
        /\ seen[i] # None
        /\ Proposes("delete", i, [f \in {} |-> None], quiet, compose_delete(seen[i], quiet))

Declines ==
    /\ pending # None
    /\ pending' = None
    /\ UNCHANGED <<events, seen, call, told, turns, faults>>

\* Mutant: every verb is replayed.
_attempts_all(verb, quiet) == 3

\* A change or a cancellation is replayed only when no guest can hear of it.
_attempts_for(verb, quiet) == IF verb \in {"update", "delete"} /\ ~quiet THEN 1 ELSE 3

First(verb) == IF verb = "create" THEN "write" ELSE "read"

SaysYes ==
    /\ pending # None
    /\ call' = [verb |-> pending.verb, id |-> pending.id, action |-> pending.action,
                quiet |-> pending.quiet, card |-> pending.card,
                phase |-> First(pending.verb), left |-> _attempts_for(pending.verb, pending.quiet),
                prev |-> Blank, landed |-> FALSE, mails |-> 0]
    /\ pending' = None
    /\ UNCHANGED <<events, seen, told, turns, faults>>

\* He changes the event in Google Calendar, or takes it off.
HeEdits(e) ==
    /\ events["old"] # None /\ e # events["old"]
    /\ events' = [events EXCEPT !["old"] = e]
    /\ UNCHANGED <<seen, pending, call, told, turns, faults>>

------------------------------------------------------------------------
(* A run of the handler. *)

\* The run ends, and what it returned is surfaced.
Ends(ok, view, mails) ==
    /\ told' = [verb |-> call.verb, ok |-> ok, mails |-> mails]
    /\ call' = Idle
    /\ seen' = IF view = None THEN seen ELSE [seen EXCEPT ![call.id] = view]
    /\ UNCHANGED <<pending, turns>>

Fails == Ends(FALSE, None, call.mails) /\ UNCHANGED <<events, faults>>

\* No answer came: it starts again, or says so.
Retries(landed, mails) ==
    /\ faults < MaxFaults /\ faults' = faults + 1
    /\ IF call.left > 1
       THEN /\ call' = [call EXCEPT !.left = call.left - 1, !.phase = First(call.verb),
                                    !.landed = landed, !.mails = mails]
            /\ UNCHANGED <<seen, pending, turns, told>>
       ELSE Ends(FALSE, None, mails)

\* The event is read again before it is changed.
Reads ==
    /\ call # Idle /\ call.phase = "read" /\ call.verb = "update"
    /\ events[call.id] # None
    /\ LET prev == event_view(events[call.id])
       IN IF Backwards(call.action, prev) \/ body_from(call.action, prev) = [f \in {} |-> None]
          THEN Fails
          ELSE /\ call' = [call EXCEPT !.phase = "write", !.prev = prev]
               /\ UNCHANGED <<events, seen, pending, told, turns, faults>>

ReadsNothing ==
    /\ call # Idle /\ call.phase = "read" /\ call.verb = "update"
    /\ \/ events[call.id] = None /\ Fails
       \/ Retries(call.landed, call.mails) /\ UNCHANGED events

\* Before a cancellation it is read if it can be.
ReadsDoomed ==
    /\ call # Idle /\ call.phase = "read" /\ call.verb = "delete"
    /\ call' = [call EXCEPT !.phase = "write"]
    /\ UNCHANGED <<events, seen, pending, told, turns, faults>>

Mails(guests) == IF ~call.quiet /\ guests # {} THEN call.mails + 1 ELSE call.mails

\* What Google makes of the body: it merges it, and a video call it was asked
\* for may not come about.
Merged(e, body) ==
    {[f \in DOMAIN e |-> IF f = "meet" /\ f \in DOMAIN body /\ body.meet THEN m
                         ELSE IF f \in DOMAIN body THEN body[f] ELSE e[f]] : m \in BOOLEAN}

\* It takes no event whose ends are of two kinds, or that ends before it starts.
Accepts(e) ==
    /\ is_date_only(e.start) <=> is_date_only(e.end)
    /\ Instant(e.start) <= Instant(e.end)

New == [title |-> None, start |-> Whole(0), end |-> Whole(0), place |-> None, guests |-> {}, meet |-> FALSE]

\* The write takes, and its answer comes or is lost.
Lands(e, ok) ==
    LET guests == (IF e = None THEN {} ELSE e.guests)
                  \cup (IF events[call.id] = None THEN {} ELSE events[call.id].guests)
        mails == Mails(guests)
    IN /\ events' = [events EXCEPT ![call.id] = e]
       /\ \/ Ends(ok, IF e = None THEN None ELSE Returned(e), mails) /\ UNCHANGED faults
          \/ Retries(TRUE, mails)

\* A meeting with nowhere to go is asked for as a video call.
create_body(a) == body_from(IF resolve_virtual(a) THEN And([virtual |-> TRUE], a) ELSE a, Blank)

\* The key is the run's, so a replay of an insert that landed is a duplicate,
\* and the event that is there is returned.
Creates ==
    /\ call # Idle /\ call.verb = "create"
    /\ IF Backwards(call.action, Blank) THEN Fails
       ELSE IF call.landed
       THEN Ends(TRUE, Returned(events[call.id]), call.mails) /\ UNCHANGED <<events, faults>>
       ELSE \E e \in Merged(New, create_body(call.action)) :
              IF Accepts(e) THEN Lands(e, TRUE) ELSE Fails

\* What was asked for is in the event that came back.  Mutant: the video call
\* is not looked for.
AppliedButVideo(a, view) ==
    /\ provided(a, "title") => view.title = a.title
    /\ provided(a, "location") /\ ~Given(a, "virtual", FALSE) => view.place = a.location
    /\ provided(a, "attendees") => view.guests = a.attendees
    /\ provided(a, "all_day") => view.all_day = a.all_day
    /\ provided(a, "start") => view.start = IF view.all_day THEN Whole(as_day(a.start)) ELSE a.start
    /\ provided(a, "end") /\ view.all_day => view.end = Whole(as_day(a.end))

Applied(a, view) ==
    /\ provided(a, "virtual") => view.meet = a.virtual
    /\ AppliedButVideo(a, view)

Updates ==
    /\ call # Idle /\ call.phase = "write" /\ call.verb = "update"
    /\ IF events[call.id] = None THEN Fails
       ELSE \E e \in Merged(events[call.id], body_from(call.action, call.prev)) :
              IF Accepts(e) THEN Lands(e, Applied(call.action, Returned(e))) ELSE Fails

Deletes ==
    /\ call # Idle /\ call.phase = "write" /\ call.verb = "delete"
    /\ IF events[call.id] = None THEN Fails
       ELSE Lands(None, TRUE)

\* The request never got there.
NeverArrives ==
    /\ call # Idle /\ call.phase = "write"
    /\ Retries(call.landed, call.mails)
    /\ UNCHANGED events

Runs == Reads \/ ReadsNothing \/ ReadsDoomed \/ Creates \/ Updates \/ Deletes \/ NeverArrives

Next ==
    \/ \E i \in Ids : Finds(i) \/ ProposesUpdate(i) \/ ProposesDelete(i)
    \/ StartsOver \/ ProposesCreate \/ Declines \/ SaysYes
    \/ \E e \in Edits \cup {None} : HeEdits(e)
    \/ Runs

Spec == Init /\ [][Next]_vars

------------------------------------------------------------------------
(* Properties. *)

\* The event is as its card shows it, and was when the handler read it.
Unedited(i, view) ==
    /\ events[i] # None
    /\ event_view(events[i]) = [view EXCEPT !.meet = Unknown] /\ call.prev = event_view(events[i])
    /\ view.meet \in {Unknown, events[i].meet}

Changed(e, f) ==
    {c \in {"title", "when", "where", "guests"} :
        CASE c = "title"  -> e.title # f.title
          [] c = "when"   -> e.start # f.start \/ e.end # f.end
          [] c = "where"  -> e.place # f.place \/ e.meet # f.meet
          [] c = "guests" -> e.guests # f.guests}

Span(e) == Instant(e.end) - Instant(e.start)

\* The handler's own write to the event.
Written(i) == call # Idle /\ call.id = i /\ call' # call /\ events'[i] # events[i]

\* A write to an event that is as its card shows it changes nothing the card
\* does not name, and mails nobody unless the card says that it will: the
\* composer and the body builder read one change-set (calendar.py:54).  Not so
\* for an event of no length, which a start written again gives the default
\* one, and for a video call asked for again, which takes the place off.
CardNamesEveryChange ==
    [][\A i \in Ids :
         /\ Written(i) /\ call.verb = "update" /\ Unedited(i, call.card.of) /\ Span(events[i]) > 0
         /\ Given(call.action, "virtual", FALSE) => ~events[i].meet
         => /\ Changed(events[i], events'[i]) \subseteq call.card.named
            /\ ~call.quiet /\ events[i].guests \cup events'[i].guests # {} => "mail" \in call.card.named]_vars

\* A date that is said not to be of whole days, with no hour.
Hourless(a) == is_date_only(a.start) /\ ~Given(a, "all_day", TRUE)

\* An event that is created is the one on the card: its days or its hour, its
\* place, its guests, and a video call only if the card shows one.  But for the
\* hour of a date that is said to have one: there the card shows midnight
\* (calendar_format.py:174-175), the handler begins at the default hour
\* (calendar.py:509-510), and the two differ by just that.
CreateIsTheCard ==
    [][\A i \in Ids : Written(i) /\ call.verb = "create" =>
         /\ Rendered(event_view(events'[i])) =
               IF Hourless(call.action) THEN [at |-> call.card.when.at + DefaultHour]
               ELSE call.card.when
         /\ events'[i].place = call.card.place /\ events'[i].guests = call.card.guests
         /\ events'[i].meet => call.card.video]_vars

\* A change that is reported done is there: every field it asked for reads so in
\* the calendar (_update, 698: a 200 does not say that it was applied).
OkMeansDone ==
    [][call # Idle /\ call' = Idle /\ call.verb = "update" /\ told'.ok =>
         \A f \in DOMAIN call.action :
            CASE f = "virtual"   -> events'[call.id].meet = call.action.virtual
              [] f = "attendees" -> events'[call.id].guests = call.action.attendees
              [] f = "title"     -> events'[call.id].title = call.action.title
              [] f = "location"  -> events'[call.id].place =
                                       IF Given(call.action, "virtual", FALSE) THEN None ELSE call.action.location
              [] f = "all_day"   -> is_date_only(events'[call.id].start) = call.action.all_day
              [] f = "start"     -> as_day(events'[call.id].start) = as_day(call.action.start)
              [] OTHER           -> TRUE]_vars

\* An event moved by its start alone keeps its length, days or hours, also when
\* he moved it himself after the card went out (_update, 702).
KeepsLength ==
    [][\A i \in Ids :
         /\ Written(i) /\ call.verb = "update" /\ {"end", "all_day"} \cap DOMAIN call.action = {}
         /\ events[i] # None /\ event_view(events[i]) = call.prev /\ Span(events[i]) > 0
         /\ is_date_only(events'[i].start) = is_date_only(events[i].start)
         => Span(events'[i]) = Span(events[i])]_vars

\* Whatever is lost and replayed, one approval mails the guests once
\* (_attempts_for, 805).
MailedOnce ==
    /\ call # Idle => call.mails <= 1
    /\ told # None => told.mails <= 1

\* A write to an event that is as its card shows it leaves it when the card
\* says: the card lists WHAT is changing "so the owner can tell exactly what
\* he's approving" (calendar_format.py:236).
ApprovedWhen ==
    [][\A i \in Ids :
         /\ Written(i) /\ call.verb = "update" /\ Unedited(i, call.card.of)
         /\ call.card.when # None
         => Rendered(event_view(events'[i])) = call.card.when]_vars
=============================================================================
