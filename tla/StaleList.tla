----------------------------- MODULE StaleList ------------------------------
(***************************************************************************)
(* What a cached list promises its readers.  A reader may be given a state *)
(* of the table that is out of date, but one that no reader can be given   *)
(* any more never comes back, and each state the table has left is out of  *)
(* reach in the end.  In between, readers may see older after newer.       *)
(***************************************************************************)
EXTENDS Naturals

CONSTANT Version   \* the states of the table, numbered as they come

VARIABLES
    table,   \* the state of the table
    known    \* the states a reader can still be given

view == <<table, known>>

Init == table = 0 /\ known = {0}

\* The table changes; who had the old state may keep it.
Write ==
    /\ table + 1 \in Version
    /\ table' = table + 1
    /\ \E K \in SUBSET known : known' = K \cup {table'}

\* A copy is dropped, the last of a state or several.
Forget ==
    /\ table' = table
    /\ \E K \in SUBSET known : known' = K \cup {table}

Next == Write \/ Forget

\* No state that has been left can be given for ever.
Outgrown == \A v \in Version : (v \in known /\ v # table) ~> v \notin known

Safety == Init /\ [][Next]_view

Spec == Safety /\ Outgrown

=============================================================================
