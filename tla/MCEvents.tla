------------------------------ MODULE MCEvents ------------------------------
(* Days of four hours, with an event that has an hour or one of whole days. *)
EXTENDS Events

CONSTANTS talk, walk, room, ana, rui

Timed == [title |-> talk, start |-> At(5), end |-> At(7), place |-> room, guests |-> {ana}, meet |-> FALSE]
Trip == [title |-> walk, start |-> Whole(1), end |-> Whole(4), place |-> None, guests |-> {ana}, meet |-> FALSE]

MCDrafts ==
    { [title |-> talk, start |-> At(6)],
      [title |-> talk, start |-> At(6), end |-> At(9), attendees |-> {ana}, location |-> room],
      [title |-> talk, start |-> At(6), end |-> At(5)],
      [title |-> talk, start |-> At(6), virtual |-> FALSE],
      [title |-> talk, start |-> Whole(2), attendees |-> {ana}],
      [title |-> walk, start |-> Whole(2), end |-> Whole(3)],
      [title |-> walk, start |-> Whole(2), end |-> Whole(1)],
      [title |-> talk, start |-> Whole(2), all_day |-> TRUE, virtual |-> TRUE],
      [title |-> walk, start |-> Whole(2), all_day |-> FALSE] }

Fields ==
    { [title |-> walk], [location |-> None],
      [attendees |-> {}], [attendees |-> {ana, rui}],
      [virtual |-> TRUE], [virtual |-> FALSE],
      [start |-> At(9)], [start |-> Whole(2)], [end |-> At(8)], [end |-> At(4)],
      [all_day |-> TRUE], [all_day |-> FALSE],
      [start |-> At(9), end |-> At(10)], [start |-> Whole(2), end |-> Whole(3)],
      [start |-> Whole(2), end |-> Whole(1)], [virtual |-> TRUE, location |-> room],
      [title |-> walk, location |-> None] }

MCEdits == {Timed, Trip, [Timed EXCEPT !.start = At(9), !.end = At(12), !.guests = {}]}
=============================================================================
