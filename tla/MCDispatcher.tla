----------------------------- MODULE MCDispatcher -----------------------------
(***************************************************************************)
(* Small instances of Dispatcher.                                          *)
(***************************************************************************)
EXTENDS Dispatcher

CONSTANTS lisa, mary

\* His tags, a contact who types one, his voice note, and an echo.
Sample ==
    {[by |-> "owner", tag |-> f, kind |-> "text"] : f \in Flows}
        \cup {[by |-> "contact", tag |-> mary, kind |-> "text"],
              [by |-> "owner", tag |-> NoFlow, kind |-> "audio"],
              [by |-> "owner", tag |-> NoFlow, kind |-> "echo"]}
=============================================================================
