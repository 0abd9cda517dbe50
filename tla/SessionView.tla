----------------------------- MODULE SessionView -----------------------------
(***************************************************************************)
(* What a page behind ProtectedRoute may count on: per tab, the user whose *)
(* token requests carry, and whether protected pages are rendered.         *)
(***************************************************************************)
CONSTANTS Tabs, Accounts, None

VARIABLE view   \* per tab [user, shown]

ViewInit == view = [t \in Tabs |-> [user |-> None, shown |-> FALSE]]

\* Protected pages appear for the user already there.
Show(t) ==
    /\ ~view[t].shown /\ view[t].user # None
    /\ view' = [view EXCEPT ![t].shown = TRUE]

\* They are left: another page, a logout, a document loaded anew.
Leave(t) ==
    \E u \in Accounts \cup {None} : view' = [view EXCEPT ![t] = [user |-> u, shown |-> FALSE]]

\* A login is answered, on whatever page the tab is by then.
Switch(t) == \E u \in Accounts : view' = [view EXCEPT ![t].user = u]

ViewNext == \E t \in Tabs : Show(t) \/ Leave(t) \/ Switch(t)

ViewSpec == ViewInit /\ [][ViewNext]_view
=============================================================================
