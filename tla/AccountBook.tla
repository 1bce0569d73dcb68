---------------------------- MODULE AccountBook ----------------------------
(***************************************************************************)
(* What the account endpoints promise, each as one indivisible change: the *)
(* accounts a user has connected, which of them still work, the calendars  *)
(* chosen in each, and the default one.                                    *)
(***************************************************************************)
CONSTANTS Accounts, Calendars, NoAccount

VARIABLES book,         \* the connected accounts
          working,      \* those that do not need the user to sign in again
          chosen,       \* the calendars selected in each
          default       \* the account a write goes to when none is named

bookVars == <<book, working, chosen, default>>

Init ==
    /\ book = {}
    /\ working = {}
    /\ chosen = [a \in Accounts |-> {}]
    /\ default = NoAccount

\* Connecting again heals the account and keeps what the user had chosen.
Connect(a) ==
    /\ book' = book \cup {a}
    /\ working' = working \cup {a}
    /\ \E S \in IF chosen[a] = {} THEN SUBSET Calendars ELSE SUBSET chosen[a] :
          chosen' = [chosen EXCEPT ![a] = S]
    /\ default' = IF default = NoAccount THEN a ELSE default

\* The default moves to a remaining account, to none only if none remains.
Disconnect(a) ==
    /\ a \in book
    /\ book' = book \ {a}
    /\ working' = working \ {a}
    /\ chosen' = [chosen EXCEPT ![a] = {}]
    /\ IF default # a THEN UNCHANGED default
       ELSE IF book' = {} THEN default' = NoAccount
       ELSE default' \in book'

Choose(a, S) ==
    /\ a \in book
    /\ chosen' = [chosen EXCEPT ![a] = S]
    /\ UNCHANGED <<book, working, default>>

\* The provider refused the account's credential.
Fail(a) ==
    /\ a \in working
    /\ working' = working \ {a}
    /\ UNCHANGED <<book, chosen, default>>

Next ==
    \E a \in Accounts :
        \/ Connect(a)
        \/ Disconnect(a)
        \/ \E S \in SUBSET Calendars : Choose(a, S)
        \/ Fail(a)

Spec == Init /\ [][Next]_bookVars

=============================================================================
