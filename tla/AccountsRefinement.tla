------------------------- MODULE AccountsRefinement -------------------------
(***************************************************************************)
(* One request at a time, the handlers of Accounts implement AccountBook.  *)
(* A connection takes effect when its document is written, although the    *)
(* default is claimed two awaits later; a disconnection of the default     *)
(* account takes effect when another one is promoted, although its         *)
(* document is gone three awaits earlier.                                  *)
(***************************************************************************)
EXTENDS Accounts

\* A handler that has deleted the default account and not yet replaced it.
Leaving(r, a) ==
    /\ req[r].pc \in {"undefaulting", "relisting", "promoting"}
    /\ req[r].acct = a
    /\ dflt = a

\* A handler that has stored the first account and not yet made it default.
Arriving(r) == req[r].pc \in {"defaulting", "claiming"} /\ dflt = NoAccount

LeavingAccounts == {a \in Accounts : \E r \in Requests : Leaving(r, a)}

bookBar == Connected \cup LeavingAccounts

workingBar ==
    {a \in Accounts : acct[a].status = "active"
                        \/ \E r \in Requests : Leaving(r, a) /\ req[r].cred # NoToken}

chosenBar ==
    [a \in Accounts |->
        acct[a].sel \cup UNION {req[r].sel : r \in {q \in Requests : Leaving(q, a)}}]

defaultBar ==
    IF \E r \in Requests : Arriving(r)
      THEN (CHOOSE q \in {req[r] : r \in {p \in Requests : Arriving(p)}} : TRUE).acct
      ELSE dflt

Book == INSTANCE AccountBook
            WITH book <- bookBar, working <- workingBar,
                 chosen <- chosenBar, default <- defaultBar

\* Every step of a handler is one whole operation of the book or no change of
\* it, so nothing a reader of the book could notice is ever half done.
ImplementsBook == Book!Spec

=============================================================================
