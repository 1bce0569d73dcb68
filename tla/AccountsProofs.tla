---------------------------- MODULE AccountsProofs ----------------------------
(***************************************************************************)
(* Theorems about Accounts, for any number of handlers, accounts,          *)
(* calendars and tokens; at the end those for a single handler that does   *)
(* not crash.                                                              *)
(***************************************************************************)
EXTENDS AccountsRefinement, TLAPS

\* A missing document and an idle handler have the type of the others.
LEMMA NullRecords ==
    /\ Absent \in Doc
    /\ Idle \in Request
    /\ Idle.pc = "idle" /\ Idle.cred = NoToken
  BY DEF Absent, Doc, Idle, Request, Stages

\* Storing a record for one handler leaves the others as they were.
LEMMA PutEffect ==
    ASSUME req \in [Requests -> Request], NEW r \in Requests,
           NEW q \in Request, Put(r, q)
    PROVE  /\ req' \in [Requests -> Request]
           /\ req'[r] = q
           /\ \A s \in Requests \ {r} : req'[s] = req[s]
  BY DEF Put

\* A step that only changes what one handler holds keeps the invariant if the
\* record it leaves behind is a consistent one.
LEMMA HandlerStep ==
    ASSUME AccountsInv, NEW r \in Requests, NEW q \in Request, Put(r, q),
           HandlerOK(q, owner), UNCHANGED <<acct, dflt, grant, owner>>
    PROVE  AccountsInv'
<1>1. req' \in [Requests -> Request] /\ \A s \in Requests : HandlerOK(req'[s], owner)
  BY PutEffect DEF AccountsInv, TypeOK, HandlersConsistent
<1>2. TypeOK'
  BY <1>1 DEF AccountsInv, TypeOK
<1>3. StatusMatchesCredential' /\ CredentialBelongs'
  BY DEF AccountsInv, StatusMatchesCredential, CredentialBelongs
<1>4. HandlersConsistent'
  BY <1>1 DEF AccountsInv, HandlersConsistent, HandlerOK
<1> QED BY <1>2, <1>3, <1>4 DEF AccountsInv

\* Answering a request is such a step.
LEMMA ReturnStep ==
    ASSUME AccountsInv, NEW r \in Requests, Return(r),
           UNCHANGED <<acct, dflt, grant, owner>>
    PROVE  AccountsInv'
  BY HandlerStep, NullRecords DEF Return, HandlerOK

\* So is moving on to a stage that demands nothing the handler lacks.
LEMMA MoveStep ==
    ASSUME AccountsInv, NEW r \in Requests, NEW stage \in Stages,
           Move(r, stage), UNCHANGED <<acct, dflt, grant, owner>>,
           IF stage = "mint_default" THEN At(r, "idle")
             ELSE stage # "idle" /\ ~At(r, "idle") /\ ~At(r, "mint_default"),
           stage \notin {"listing", "saving", "merging", "refreshing"}
    PROVE  AccountsInv'
<1> DEFINE q == [req[r] EXCEPT !.pc = stage]
<1>1. req[r] \in Request /\ HandlerOK(req[r], owner)
  BY DEF AccountsInv, TypeOK, HandlersConsistent
<1>2. q \in Request /\ q.pc = stage /\ q.acct = req[r].acct /\ q.cred = req[r].cred
  BY <1>1 DEF Request
<1>3. HandlerOK(q, owner)
  BY <1>1, <1>2 DEF HandlerOK, At
<1> QED BY <1>2, <1>3, HandlerStep DEF Move

\* Writing one document keeps the invariant if the document is a consistent
\* one, whatever is done to the default pointer in the same step.
LEMMA DocumentStep ==
    ASSUME AccountsInv, NEW a \in Accounts, NEW d \in Doc,
           acct' = [acct EXCEPT ![a] = d],
           (d.status = "active") <=> (d.cred # NoToken),
           d.cred # NoToken => owner[d.cred] = a /\ d.bound,
           NEW r \in Requests, NEW q \in Request, Put(r, q), HandlerOK(q, owner),
           dflt' \in Accounts \cup {NoAccount}, UNCHANGED <<grant, owner>>
    PROVE  AccountsInv'
<1>1. req' \in [Requests -> Request] /\ \A s \in Requests : HandlerOK(req'[s], owner)
  BY PutEffect DEF AccountsInv, TypeOK, HandlersConsistent
<1>2. acct' \in [Accounts -> Doc]
  BY DEF AccountsInv, TypeOK
<1>3. TypeOK'
  BY <1>1, <1>2 DEF AccountsInv, TypeOK
<1>4. \A b \in Accounts : acct'[b] = IF b = a THEN d ELSE acct[b]
  BY DEF AccountsInv, TypeOK
<1>5. StatusMatchesCredential'
  BY <1>4 DEF AccountsInv, StatusMatchesCredential
<1>6. CredentialBelongs'
  BY <1>4 DEF AccountsInv, CredentialBelongs
<1>7. HandlersConsistent'
  BY <1>1 DEF AccountsInv, HandlersConsistent, HandlerOK
<1> QED BY <1>3, <1>5, <1>6, <1>7 DEF AccountsInv

\* A change of the default pointer alone, by a handler that then answers.
LEMMA DefaultStep ==
    ASSUME AccountsInv, NEW r \in Requests, Return(r),
           dflt' \in Accounts \cup {NoAccount}, UNCHANGED <<acct, grant, owner>>
    PROVE  AccountsInv'
<1>1. req' \in [Requests -> Request] /\ \A s \in Requests : HandlerOK(req'[s], owner)
  BY PutEffect, NullRecords DEF AccountsInv, TypeOK, HandlersConsistent, HandlerOK, Return
<1> QED
  BY <1>1 DEF AccountsInv, TypeOK, StatusMatchesCredential, CredentialBelongs,
              HandlersConsistent, HandlerOK

\* The provider issues a token for an account to a handler working on it.
LEMMA IssueStep ==
    ASSUME AccountsInv, NEW t \in Tokens, grant[t] = "unissued",
           NEW a \in Accounts, owner' = [owner EXCEPT ![t] = a],
           grant' \in [Tokens -> {"unissued", "live", "rotated", "revoked", "lapsed"}],
           \A u \in Tokens :
              grant'[u] = "unissued" <=> grant[u] = "unissued" /\ u # t,
           NEW r \in Requests, NEW q \in Request, Put(r, q),
           q.cred = t, q.acct = a, q.pc \notin {"idle", "mint_default"},
           UNCHANGED <<acct, dflt>>
    PROVE  AccountsInv'
<1>1. owner' \in [Tokens -> Accounts \cup {NoAccount}]
  BY DEF AccountsInv, TypeOK
<1>2. \A u \in Tokens : owner[u] # NoAccount => owner'[u] = owner[u]
  BY DEF AccountsInv, TypeOK, HandlersConsistent
<1>3. /\ owner'[t] = a
      /\ \A u \in Tokens : u # t => owner'[u] = owner[u]
  BY DEF AccountsInv, TypeOK
<1>4. \A s \in Requests : req[s] \in Request /\ HandlerOK(req[s], owner)
  BY DEF AccountsInv, TypeOK, HandlersConsistent
<1>5. \A s \in Requests : req[s].cred # NoToken => req[s].cred \in Tokens
  BY <1>4 DEF Request
<1>6. \A s \in Requests : HandlerOK(req[s], owner')
  BY <1>2, <1>4, <1>5, NullsAreNulls DEF HandlerOK
<1>7. HandlerOK(q, owner')
  BY <1>3 DEF HandlerOK
<1>8. req' \in [Requests -> Request] /\ \A s \in Requests : HandlerOK(req'[s], owner')
  <2>1. /\ req' \in [Requests -> Request]
        /\ req'[r] = q /\ \A s \in Requests \ {r} : req'[s] = req[s]
    BY PutEffect DEF AccountsInv, TypeOK
  <2> QED BY <2>1, <1>6, <1>7 DEF HandlerOK
<1>9. TypeOK'
  BY <1>1, <1>8 DEF AccountsInv, TypeOK
<1>10. StatusMatchesCredential'
  BY DEF AccountsInv, StatusMatchesCredential
<1>11. \A b \in Accounts : acct[b].cred # NoToken => acct[b].cred \in Tokens
  BY DEF AccountsInv, TypeOK, Doc
<1>12. CredentialBelongs'
  BY <1>2, <1>11, NullsAreNulls DEF AccountsInv, CredentialBelongs
<1>13. HandlersConsistent'
  BY <1>3, <1>8, NullsAreNulls DEF AccountsInv, HandlersConsistent, HandlerOK
<1> QED BY <1>9, <1>10, <1>12, <1>13 DEF AccountsInv

\* Tokens die at the provider, and perhaps a handler moves on.
LEMMA GrantStep ==
    ASSUME AccountsInv,
           grant' \in [Tokens -> {"unissued", "live", "rotated", "revoked", "lapsed"}],
           \A u \in Tokens : grant'[u] = "unissued" <=> grant[u] = "unissued",
           req' \in [Requests -> Request],
           \A s \in Requests : HandlerOK(req'[s], owner),
           UNCHANGED <<acct, dflt, owner>>
    PROVE  AccountsInv'
  BY DEF AccountsInv, TypeOK, StatusMatchesCredential, CredentialBelongs,
         HandlersConsistent, HandlerOK

-----------------------------------------------------------------------------

LEMMA ConnectStep ==
    ASSUME AccountsInv, NEW r \in Requests, Connect(r) PROVE AccountsInv'
<1>0. req[r] \in Request /\ HandlerOK(req[r], owner)
  BY DEF AccountsInv, TypeOK, HandlersConsistent
<1>1. ASSUME NEW a \in Accounts, NEW t \in Tokens, ExchangeCode(r, a, t)
      PROVE  AccountsInv'
  <2> DEFINE q == [Idle EXCEPT !.pc = "listing", !.acct = a, !.cred = t]
  <2>1. q \in Request /\ q.pc = "listing" /\ q.acct = a /\ q.cred = t
    BY DEF Idle, Request, Stages
  <2>2. grant' \in [Tokens -> {"unissued", "live", "rotated", "revoked", "lapsed"}]
    BY <1>1 DEF ExchangeCode, AccountsInv, TypeOK
  <2>3. \A u \in Tokens : grant'[u] = "unissued" <=> grant[u] = "unissued" /\ u # t
    BY <1>1 DEF ExchangeCode, AccountsInv, TypeOK
  <2> HIDE DEF q
  <2>4. Put(r, q)
    BY <1>1 DEF ExchangeCode, q
  <2> QED
    BY <1>1, <2>1, <2>2, <2>3, <2>4, IssueStep DEF ExchangeCode
<1>2. ASSUME NEW found \in SUBSET Calendars, ListCalendars(r, found)
      PROVE  AccountsInv'
  <2> DEFINE q == [req[r] EXCEPT !.pc = "saving", !.cals = found,
                                 !.sel = found \cap ByDefault]
  <2>1. found \cap ByDefault \in SUBSET Calendars
    OBVIOUS
  <2>2. /\ q \in Request /\ q.pc = "saving"
        /\ q.acct = req[r].acct /\ q.cred = req[r].cred
    BY <1>0, <2>1 DEF Request, Stages
  <2>3. HandlerOK(q, owner)
    BY <1>0, <1>2, <2>2 DEF HandlerOK, ListCalendars, At
  <2> HIDE DEF q
  <2>4. Put(r, q)
    BY <1>2 DEF ListCalendars, q
  <2> QED BY <1>2, <2>2, <2>3, <2>4, HandlerStep DEF ListCalendars
<1>3. CASE ListingFails(r)
  BY <1>3, ReturnStep DEF ListingFails
<1> QED BY <1>1, <1>2, <1>3 DEF Connect

LEMMA SaveStep ==
    ASSUME AccountsInv, NEW r \in Requests, Save(r) PROVE AccountsInv'
<1>0. req[r] \in Request /\ HandlerOK(req[r], owner)
  BY DEF AccountsInv, TypeOK, HandlersConsistent
<1>1. CASE SaveRead(r)
  <2> DEFINE q == [req[r] EXCEPT !.pc = "merging", !.keep = acct[req[r].acct].sel]
  <2>1. req[r].acct \in Accounts /\ req[r].cred \in Tokens
    BY <1>0, <1>1 DEF SaveRead, At, HandlerOK
  <2>2. acct[req[r].acct].sel \in SUBSET Calendars
    BY <2>1 DEF AccountsInv, TypeOK, Doc
  <2>3. /\ q \in Request /\ q.pc = "merging"
        /\ q.acct = req[r].acct /\ q.cred = req[r].cred
    BY <1>0, <2>2 DEF Request, Stages
  <2>4. HandlerOK(q, owner)
    BY <1>0, <2>1, <2>3 DEF HandlerOK
  <2> HIDE DEF q
  <2>5. Put(r, q)
    BY <1>1 DEF SaveRead, q
  <2> QED BY <1>1, <2>3, <2>4, <2>5, HandlerStep DEF SaveRead
<1>2. CASE SaveWrite(r)
  <2> DEFINE d == [exists |-> TRUE, bound |-> TRUE, status |-> "active",
                   cred |-> req[r].cred, cals |-> req[r].cals,
                   sel |-> Merged(req[r])]
             q == [req[r] EXCEPT !.pc = "defaulting"]
  <2>1. /\ req[r].acct \in Accounts /\ req[r].cred \in Tokens
        /\ owner[req[r].cred] = req[r].acct
    BY <1>0, <1>2, NullsAreNulls DEF SaveWrite, At, HandlerOK
  <2>2. Merged(req[r]) \in SUBSET Calendars
    BY <1>0 DEF Merged, Request
  <2>3. d \in Doc /\ d.status = "active" /\ d.cred = req[r].cred /\ d.bound
    BY <1>0, <2>2 DEF Doc, Request
  <2>4. /\ q \in Request /\ q.pc = "defaulting"
        /\ q.acct = req[r].acct /\ q.cred = req[r].cred
    BY <1>0 DEF Request, Stages
  <2>5. HandlerOK(q, owner)
    BY <1>0, <2>1, <2>4 DEF HandlerOK
  <2> HIDE DEF d, q
  <2>6. Put(r, q) /\ acct' = [acct EXCEPT ![req[r].acct] = d]
    BY <1>2 DEF SaveWrite, Move, q, d
  <2>7. dflt' \in Accounts \cup {NoAccount} /\ UNCHANGED <<grant, owner>>
    BY <1>2 DEF SaveWrite, AccountsInv, TypeOK
  <2> QED
    BY <2>1, <2>3, <2>4, <2>5, <2>6, <2>7, DocumentStep, NullsAreNulls
<1>3. CASE SaveReadDefault(r)
  BY <1>3, ReturnStep, MoveStep DEF SaveReadDefault, Stages, At
<1>4. CASE SaveClaimDefault(r)
  <2>1. req[r].acct \in Accounts
    BY <1>0, <1>4 DEF SaveClaimDefault, At, HandlerOK
  <2> QED BY <1>4, <2>1, DefaultStep DEF SaveClaimDefault
<1> QED BY <1>1, <1>2, <1>3, <1>4 DEF Save

LEMMA MintStep ==
    ASSUME AccountsInv, NEW r \in Requests, Mint(r) PROVE AccountsInv'
<1>0. req[r] \in Request /\ HandlerOK(req[r], owner)
  BY DEF AccountsInv, TypeOK, HandlersConsistent
<1>1. ASSUME NEW a \in Accounts, MintFor(r, a) PROVE AccountsInv'
  <2> DEFINE q == [Idle EXCEPT !.pc = "reading", !.acct = a]
  <2>1. q \in Request /\ HandlerOK(q, owner)
    BY DEF Idle, Request, Stages, HandlerOK
  <2> HIDE DEF q
  <2>2. Put(r, q)
    BY <1>1 DEF MintFor, q
  <2> QED BY <1>1, <2>1, <2>2, HandlerStep DEF MintFor
<1>2. CASE MintForDefault(r)
  BY <1>2, MoveStep DEF MintForDefault, Stages
<1>3. CASE MintReadDefault(r)
  <2>1. CASE dflt = NoAccount
    BY <1>3, <2>1, ReturnStep DEF MintReadDefault
  <2>2. CASE dflt # NoAccount
    <3> DEFINE q == [req[r] EXCEPT !.pc = "reading", !.acct = dflt]
    <3>0. dflt \in Accounts
      BY <2>2 DEF AccountsInv, TypeOK
    <3>1. q \in Request /\ q.pc = "reading" /\ q.acct = dflt /\ q.cred = req[r].cred
      BY <1>0, <3>0 DEF Request, Stages
    <3>2. req[r].cred = NoToken
      BY <1>3 DEF MintReadDefault, AccountsInv, HandlersConsistent, HandlerOK, At
    <3>3. HandlerOK(q, owner)
      BY <3>0, <3>1, <3>2 DEF HandlerOK
    <3> HIDE DEF q
    <3>4. Put(r, q)
      BY <1>3, <2>2 DEF MintReadDefault, q
    <3> QED BY <1>3, <3>1, <3>3, <3>4, HandlerStep DEF MintReadDefault
  <2> QED BY <2>1, <2>2
<1>4. CASE MintRead(r)
  <2> DEFINE d == acct[req[r].acct]
             q == [req[r] EXCEPT !.pc = "refreshing", !.cred = d.cred,
                                 !.cals = d.cals, !.sel = d.sel]
  <2>0. req[r].acct \in Accounts
    BY <1>0, <1>4 DEF MintRead, At, HandlerOK
  <2>1. d \in Doc
    BY <2>0 DEF AccountsInv, TypeOK
  <2>2. CASE d.exists /\ d.bound /\ Usable(d)
    <3>1. d.cred \in Tokens /\ owner[d.cred] = req[r].acct
      BY <2>0, <2>1, <2>2 DEF Usable, Doc, AccountsInv, CredentialBelongs
    <3>2. /\ q \in Request /\ q.pc = "refreshing"
          /\ q.acct = req[r].acct /\ q.cred = d.cred
      BY <1>0, <2>1 DEF Request, Stages, Doc
    <3>3. HandlerOK(q, owner)
      BY <2>0, <3>1, <3>2 DEF HandlerOK
    <3>4. Put(r, q)
      BY <1>4, <2>2 DEF MintRead
    <3> HIDE DEF q
    <3> QED BY <1>4, <3>2, <3>3, <3>4, HandlerStep DEF MintRead
  <2>3. CASE ~(d.exists /\ d.bound /\ Usable(d))
    BY <1>4, <2>3, ReturnStep DEF MintRead
  <2> QED BY <2>2, <2>3
<1>5. CASE Refresh(r) \/ RefreshFails(r)
  BY <1>5, ReturnStep DEF Refresh, RefreshFails
<1>6. ASSUME NEW t \in Tokens, RefreshRotates(r, t) PROVE AccountsInv'
  <2> DEFINE q == [req[r] EXCEPT !.pc = "saving", !.cred = t]
  <2>0. /\ req[r].acct \in Accounts /\ req[r].cred \in Tokens
        /\ owner[req[r].cred] = req[r].acct
    BY <1>0, <1>6, NullsAreNulls DEF RefreshRotates, At, HandlerOK
  <2>1. q \in Request /\ q.acct = req[r].acct /\ q.cred = t /\ q.pc = "saving"
    BY <1>0 DEF Request, Stages
  <2>2. /\ grant' \in [Tokens -> {"unissued", "live", "rotated", "revoked", "lapsed"}]
        /\ \A u \in Tokens :
              grant'[u] = "unissued" <=> grant[u] = "unissued" /\ u # t
    BY <1>6, <2>0 DEF RefreshRotates, AccountsInv, TypeOK
  <2> HIDE DEF q
  <2>3. Put(r, q)
    BY <1>6 DEF RefreshRotates, q
  <2> QED
    BY <1>6, <2>0, <2>1, <2>2, <2>3, IssueStep DEF RefreshRotates
<1>7. CASE RefreshDead(r)
  BY <1>7, MoveStep DEF RefreshDead, Stages, At
<1>8. CASE MarkNeedsReauth(r)
  <2> DEFINE a == req[r].acct
             d == [acct[a] EXCEPT !.exists = TRUE, !.status = "needs_reauth",
                                  !.cred = NoToken]
  <2>0. a \in Accounts
    BY <1>0, <1>8 DEF MarkNeedsReauth, At, HandlerOK
  <2>1. acct[a] \in Doc
    BY <2>0 DEF AccountsInv, TypeOK
  <2>2. d \in Doc /\ d.status = "needs_reauth" /\ d.cred = NoToken
    BY <2>1 DEF Doc
  <2>3. acct' = [acct EXCEPT ![a] = d]
    BY <1>8, <2>0, <2>1 DEF MarkNeedsReauth, AccountsInv, TypeOK, Doc
  <2> HIDE DEF d, a
  <2>4. dflt' \in Accounts \cup {NoAccount} /\ UNCHANGED <<grant, owner>>
    BY <1>8 DEF MarkNeedsReauth, AccountsInv, TypeOK
  <2>5. Put(r, Idle) /\ HandlerOK(Idle, owner)
    BY <1>8, NullRecords DEF MarkNeedsReauth, Return, HandlerOK
  <2> QED
    BY <2>0, <2>2, <2>3, <2>4, <2>5, NullRecords, DocumentStep
<1> QED BY <1>1, <1>2, <1>3, <1>4, <1>5, <1>6, <1>7, <1>8 DEF Mint

LEMMA DisconnectStep ==
    ASSUME AccountsInv, NEW r \in Requests, Disconnect(r) PROVE AccountsInv'
<1>0. req[r] \in Request /\ HandlerOK(req[r], owner)
  BY DEF AccountsInv, TypeOK, HandlersConsistent
<1>1. ASSUME NEW a \in Accounts, DisconnectRead(r, a) PROVE AccountsInv'
  <2> DEFINE stage == IF acct[a].cred # NoToken THEN "revoking" ELSE "deleting"
             q == [Idle EXCEPT !.pc = stage, !.acct = a, !.cred = acct[a].cred,
                               !.sel = acct[a].sel]
  <2>1. acct[a] \in Doc
    BY DEF AccountsInv, TypeOK
  <2>2. /\ q \in Request /\ q.pc \in {"revoking", "deleting"}
        /\ q.acct = a /\ q.cred = acct[a].cred
    BY <2>1 DEF Idle, Request, Stages, Doc
  <2>3. HandlerOK(q, owner)
    BY <2>2 DEF HandlerOK, AccountsInv, CredentialBelongs
  <2> HIDE DEF q
  <2>4. Put(r, q)
    BY <1>1 DEF DisconnectRead, q
  <2> QED BY <1>1, <2>2, <2>3, <2>4, HandlerStep DEF DisconnectRead
<1>2. CASE Revoke(r)
  <2> DEFINE q == [req[r] EXCEPT !.pc = "deleting"]
  <2>1. /\ q \in Request /\ q.pc = "deleting"
        /\ q.acct = req[r].acct /\ q.cred = req[r].cred
    BY <1>0 DEF Request, Stages
  <2>2. HandlerOK(q, owner)
    BY <1>0, <1>2, <2>1 DEF HandlerOK, Revoke, At
  <2> HIDE DEF q
  <2>3. Put(r, q)
    BY <1>2 DEF Revoke, Move, q
  <2>4. req' \in [Requests -> Request] /\ \A s \in Requests : HandlerOK(req'[s], owner)
    BY <2>1, <2>2, <2>3, PutEffect DEF AccountsInv, TypeOK, HandlersConsistent
  <2>5. /\ grant' \in [Tokens -> {"unissued", "live", "rotated", "revoked", "lapsed"}]
        /\ \A u \in Tokens : grant'[u] = "unissued" <=> grant[u] = "unissued"
    BY <1>2 DEF Revoke, AccountsInv, TypeOK
  <2> QED BY <1>2, <2>4, <2>5, GrantStep DEF Revoke
<1>3. CASE Delete(r)
  <2> DEFINE q == [req[r] EXCEPT !.pc = "undefaulting"]
  <2>0. req[r].acct \in Accounts
    BY <1>0, <1>3 DEF Delete, At, HandlerOK
  <2>1. /\ q \in Request /\ q.pc = "undefaulting"
        /\ q.acct = req[r].acct /\ q.cred = req[r].cred
    BY <1>0 DEF Request, Stages
  <2>2. HandlerOK(q, owner)
    BY <1>0, <2>0, <2>1 DEF HandlerOK
  <2> HIDE DEF q
  <2>3. Put(r, q) /\ acct' = [acct EXCEPT ![req[r].acct] = Absent]
    BY <1>3 DEF Delete, Move, q
  <2>4. Absent \in Doc /\ Absent.status = "unset" /\ Absent.cred = NoToken
    BY NullRecords DEF Absent
  <2>5. dflt' \in Accounts \cup {NoAccount} /\ UNCHANGED <<grant, owner>>
    BY <1>3 DEF Delete, AccountsInv, TypeOK
  <2> QED BY <2>0, <2>1, <2>2, <2>3, <2>4, <2>5, DocumentStep
<1>4. CASE DeleteReadDefault(r)
  BY <1>4, ReturnStep, MoveStep DEF DeleteReadDefault, Stages, At
<1>5. CASE DeleteListRemaining(r)
  <2>1. CASE Return(r)
    BY <1>5, <2>1, ReturnStep DEF DeleteListRemaining
  <2>2. ASSUME NEW b \in Accounts \cup {NoAccount},
               Put(r, [req[r] EXCEPT !.pc = "promoting", !.next = b])
        PROVE  AccountsInv'
    <3> DEFINE q == [req[r] EXCEPT !.pc = "promoting", !.next = b]
    <3>1. /\ q \in Request /\ q.pc = "promoting"
          /\ q.acct = req[r].acct /\ q.cred = req[r].cred
      BY <1>0 DEF Request, Stages
    <3>2. HandlerOK(q, owner)
      BY <1>0, <1>5, <3>1 DEF HandlerOK, DeleteListRemaining, At
    <3> HIDE DEF q
    <3>3. Put(r, q)
      BY <2>2 DEF q
    <3> QED BY <1>5, <3>1, <3>2, <3>3, HandlerStep DEF DeleteListRemaining
  <2> QED BY <1>5, <2>1, <2>2 DEF DeleteListRemaining, Connected
<1>6. CASE DeletePromote(r)
  <2>1. req[r].next \in Accounts \cup {NoAccount}
    BY <1>0 DEF Request
  <2> QED BY <1>6, <2>1, DefaultStep DEF DeletePromote
<1> QED BY <1>1, <1>2, <1>3, <1>4, <1>5, <1>6 DEF Disconnect

LEMMA SelectStep ==
    ASSUME AccountsInv, NEW r \in Requests, Select(r) PROVE AccountsInv'
<1>0. req[r] \in Request /\ HandlerOK(req[r], owner)
  BY DEF AccountsInv, TypeOK, HandlersConsistent
<1>1. ASSUME NEW a \in Accounts, NEW S \in SUBSET Calendars, SelectRead(r, a, S)
      PROVE  AccountsInv'
  <2> DEFINE q == [Idle EXCEPT !.pc = "selecting", !.acct = a,
                               !.cals = acct[a].cals, !.sel = acct[a].cals \cap S]
  <2>1. acct[a].cals \in SUBSET Calendars /\ acct[a].cals \cap S \in SUBSET Calendars
    BY DEF AccountsInv, TypeOK, Doc
  <2>2. /\ q \in Request /\ q.pc = "selecting" /\ q.acct = a /\ q.cred = NoToken
    BY <2>1, NullRecords DEF Request, Stages
  <2>3. HandlerOK(q, owner)
    BY <2>2 DEF HandlerOK
  <2> HIDE DEF q
  <2>4. Put(r, q)
    BY <1>1 DEF SelectRead, q
  <2> QED BY <1>1, <2>2, <2>3, <2>4, HandlerStep DEF SelectRead
<1>2. CASE SelectWrite(r)
  <2> DEFINE a == req[r].acct
             d == [acct[a] EXCEPT !.exists = TRUE, !.cals = req[r].cals,
                                  !.sel = req[r].sel]
  <2>0. a \in Accounts
    BY <1>0, <1>2 DEF SelectWrite, At, HandlerOK
  <2>1. acct[a] \in Doc
    BY <2>0 DEF AccountsInv, TypeOK
  <2>2. /\ d \in Doc /\ d.status = acct[a].status /\ d.cred = acct[a].cred
        /\ d.bound = acct[a].bound
    BY <1>0, <2>1 DEF Doc, Request
  <2>3. acct' = [acct EXCEPT ![a] = d]
    BY <1>2, <2>0, <2>1 DEF SelectWrite, AccountsInv, TypeOK, Doc
  <2>4. /\ (d.status = "active") <=> (d.cred # NoToken)
        /\ d.cred # NoToken => owner[d.cred] = a /\ d.bound
    BY <2>0, <2>2 DEF AccountsInv, StatusMatchesCredential, CredentialBelongs
  <2> HIDE DEF d, a
  <2>5. dflt' \in Accounts \cup {NoAccount} /\ UNCHANGED <<grant, owner>>
    BY <1>2 DEF SelectWrite, AccountsInv, TypeOK
  <2>6. Put(r, Idle) /\ HandlerOK(Idle, owner)
    BY <1>2, NullRecords DEF SelectWrite, Return, HandlerOK
  <2> QED
    BY <2>0, <2>2, <2>3, <2>4, <2>5, <2>6, NullRecords, DocumentStep
<1> QED BY <1>1, <1>2 DEF Select

LEMMA LapseStep ==
    ASSUME AccountsInv, NEW a \in Accounts, Lapse(a) PROVE AccountsInv'
<1>1. /\ grant' \in [Tokens -> {"unissued", "live", "rotated", "revoked", "lapsed"}]
      /\ \A u \in Tokens : grant'[u] = "unissued" <=> grant[u] = "unissued"
  BY DEF Lapse, AccountsInv, TypeOK
<1>2. req' \in [Requests -> Request] /\ \A s \in Requests : HandlerOK(req'[s], owner)
  BY DEF Lapse, AccountsInv, TypeOK, HandlersConsistent
<1> QED BY <1>1, <1>2, GrantStep DEF Lapse

-----------------------------------------------------------------------------

\* The strengthened invariant holds of every interleaving of the handlers of
\* both services, crashes between any two awaits included.
THEOREM AccountsInvariant == Spec => []AccountsInv
<1>1. Init => AccountsInv
  <2> SUFFICES ASSUME Init PROVE AccountsInv
    OBVIOUS
  <2>1. TypeOK
    BY NullRecords DEF Init, TypeOK
  <2>2. \A a \in Accounts : acct[a] = Absent
    BY DEF Init
  <2>3. StatusMatchesCredential /\ CredentialBelongs
    BY <2>2 DEF Absent, StatusMatchesCredential, CredentialBelongs
  <2>4. HandlersConsistent
    BY NullRecords DEF Init, HandlersConsistent, HandlerOK
  <2> QED BY <2>1, <2>3, <2>4 DEF AccountsInv
<1>2. AccountsInv /\ [Next]_vars => AccountsInv'
  <2> SUFFICES ASSUME AccountsInv, [Next]_vars PROVE AccountsInv'
    OBVIOUS
  <2>1. ASSUME NEW r \in Requests,
               Connect(r) \/ Save(r) \/ Mint(r) \/ Disconnect(r) \/ Select(r)
                 \/ Crash(r)
        PROVE  AccountsInv'
    BY <2>1, ConnectStep, SaveStep, MintStep, DisconnectStep, SelectStep,
       ReturnStep DEF Crash
  <2>2. ASSUME NEW a \in Accounts, Lapse(a) PROVE AccountsInv'
    BY <2>2, LapseStep
  <2>3. CASE UNCHANGED vars
    BY <2>3 DEF vars, AccountsInv, TypeOK, StatusMatchesCredential,
                CredentialBelongs, HandlersConsistent, HandlerOK
  <2> QED BY <2>1, <2>2, <2>3 DEF Next
<1> QED BY <1>1, <1>2, PTL DEF Spec

\* Every value the handlers and the provider produce is of the declared type.
THEOREM TypeCorrect == Spec => []TypeOK
  BY AccountsInvariant, PTL DEF AccountsInv

\* An account is active exactly when it holds a credential, at every step of
\* any number of concurrent requests.
THEOREM StatusSafe == Spec => []StatusMatchesCredential
  BY AccountsInvariant, PTL DEF AccountsInv

\* A stored credential always belongs to the account it is stored under.
THEOREM CredentialSafe == Spec => []CredentialBelongs
  BY AccountsInvariant, PTL DEF AccountsInv

\* A handler never carries a credential of an account other than its own.
THEOREM HandlersSafe == Spec => []HandlersConsistent
  BY AccountsInvariant, PTL DEF AccountsInv

-----------------------------------------------------------------------------
(* Requests one at a time. *)

\* The stage of the only handler decides the invariant.
LEMMA SerialStep ==
    ASSUME AccountsInv, NEW r \in Requests, Requests = {r}, NEW q \in Request,
           Put(r, q), EveryAccountReadable', StageOK(q)'
    PROVE  SerialInv'
<1>1. req'[r] = q /\ \A s \in Requests : s = r
  BY PutEffect DEF AccountsInv, TypeOK
<1> QED BY <1>1 DEF SerialInv

\* A handler's step that changes no document and no default.
LEMMA SerialMove ==
    ASSUME AccountsInv, SerialInv, NEW r \in Requests, Requests = {r},
           NEW q \in Request, Put(r, q), UNCHANGED <<acct, dflt>>, StageOK(q)
    PROVE  SerialInv'
<1>1. EveryAccountReadable' /\ StageOK(q)'
  BY DEF SerialInv, EveryAccountReadable, StageOK, Settled, Connected
<1> QED BY <1>1, SerialStep

\* Answering is such a step whenever the default is settled.
LEMMA SerialReturn ==
    ASSUME AccountsInv, SerialInv, NEW r \in Requests, Requests = {r},
           Return(r), UNCHANGED <<acct, dflt>>, Settled
    PROVE  SerialInv'
  BY NullRecords, SerialMove DEF Return, StageOK

\* A merge into an existing document that keeps it complete and answers.
LEMMA SerialMerge ==
    ASSUME AccountsInv, SerialInv, NEW r \in Requests, Requests = {r},
           Return(r), UNCHANGED dflt, Settled, NEW a \in Accounts, NEW d \in Doc,
           acct' = [acct EXCEPT ![a] = d], acct[a].exists, d.exists, d.bound
    PROVE  SerialInv'
<1>1. \A b \in Accounts : acct'[b] = IF b = a THEN d ELSE acct[b]
  BY DEF AccountsInv, TypeOK
<1>2. EveryAccountReadable'
  BY <1>1 DEF SerialInv, EveryAccountReadable, Readable
<1>3. Settled'
  BY <1>1 DEF Settled, Connected
<1>4. StageOK(Idle)'
  BY <1>3, NullRecords DEF StageOK
<1> QED BY <1>2, <1>4, NullRecords, SerialStep DEF Return

LEMMA SerialConnect ==
    ASSUME AccountsInv, SerialInv, NEW r \in Requests, Requests = {r}, Connect(r)
    PROVE  SerialInv'
<1>0. req[r] \in Request /\ StageOK(req[r])
  BY DEF AccountsInv, TypeOK, SerialInv
<1>1. ASSUME NEW a \in Accounts, NEW t \in Tokens, ExchangeCode(r, a, t)
      PROVE  SerialInv'
  <2> DEFINE q == [Idle EXCEPT !.pc = "listing", !.acct = a, !.cred = t]
  <2>1. q \in Request /\ q.pc = "listing"
    BY NullRecords DEF Request, Stages
  <2>2. Put(r, q)
    BY <1>1 DEF ExchangeCode
  <2> HIDE DEF q
  <2>3. StageOK(q)
    BY <1>0, <1>1, <2>1 DEF StageOK, ExchangeCode, At
  <2> QED BY <1>1, <2>1, <2>2, <2>3, SerialMove DEF ExchangeCode
<1>2. ASSUME NEW found \in SUBSET Calendars, ListCalendars(r, found)
      PROVE  SerialInv'
  <2> DEFINE q == [req[r] EXCEPT !.pc = "saving", !.cals = found,
                                 !.sel = found \cap ByDefault]
  <2>1. q \in Request /\ q.pc = "saving"
    BY <1>0 DEF Request, Stages
  <2>2. Put(r, q)
    BY <1>2 DEF ListCalendars
  <2> HIDE DEF q
  <2>3. StageOK(q)
    BY <1>0, <1>2, <2>1 DEF StageOK, ListCalendars, At
  <2> QED BY <1>2, <2>1, <2>2, <2>3, SerialMove DEF ListCalendars
<1>3. CASE ListingFails(r)
  <2>1. Settled
    BY <1>0, <1>3 DEF StageOK, ListingFails, At
  <2> QED BY <1>3, <2>1, SerialReturn DEF ListingFails
<1> QED BY <1>1, <1>2, <1>3 DEF Connect

LEMMA SerialSave ==
    ASSUME AccountsInv, SerialInv, NEW r \in Requests, Requests = {r}, Save(r)
    PROVE  SerialInv'
<1> DEFINE a == req[r].acct
<1>0. /\ req[r] \in Request /\ StageOK(req[r]) /\ a \in Accounts
      /\ EveryAccountReadable
  BY DEF AccountsInv, TypeOK, SerialInv, HandlersConsistent, HandlerOK, Save,
         SaveRead, SaveWrite, SaveReadDefault, SaveClaimDefault, At
<1>1. CASE SaveRead(r)
  <2> DEFINE q == [req[r] EXCEPT !.pc = "merging", !.keep = acct[a].sel]
  <2>1. acct[a].sel \in SUBSET Calendars
    BY <1>0 DEF AccountsInv, TypeOK, Doc
  <2>2. q \in Request /\ q.pc = "merging"
    BY <1>0, <2>1 DEF Request, Stages
  <2>3. Put(r, q)
    BY <1>1 DEF SaveRead
  <2> HIDE DEF q
  <2>4. StageOK(q)
    BY <1>0, <1>1, <2>2 DEF StageOK, SaveRead, At
  <2> QED BY <1>1, <2>2, <2>3, <2>4, SerialMove DEF SaveRead
<1>2. CASE SaveWrite(r)
  <2> DEFINE moved == [req[r] EXCEPT !.pc = "defaulting"]
  <2>a. moved \in Request /\ moved.pc = "defaulting" /\ moved.acct = a
    BY <1>0 DEF Request, Stages
  <2> HIDE DEF moved
  <2>1. PICK q \in Request : q = moved /\ q.pc = "defaulting" /\ q.acct = a
    BY <2>a
  <2>2. Put(r, q)
    BY <1>2, <2>1 DEF SaveWrite, Move, moved
  <2>3. /\ acct'[a].exists /\ acct'[a].bound
        /\ \A b \in Accounts \ {a} : acct'[b] = acct[b]
    BY <1>0, <1>2 DEF SaveWrite, AccountsInv, TypeOK
  <2>4. Settled /\ dflt' = dflt
    BY <1>0, <1>2 DEF StageOK, SaveWrite, At
  <2> HIDE DEF a
  <2>5. EveryAccountReadable'
    BY <1>0, <2>3 DEF EveryAccountReadable, Readable
  <2>6. Settled' \/ dflt' = NoAccount
    BY <2>3, <2>4 DEF Settled, Connected
  <2>7. StageOK(q)'
    BY <2>1, <2>3, <2>6 DEF StageOK
  <2> QED BY <2>1, <2>2, <2>5, <2>7, SerialStep
<1>3. CASE SaveReadDefault(r)
  <2>1. CASE dflt = NoAccount
    <3> DEFINE q == [req[r] EXCEPT !.pc = "claiming"]
    <3>1. q \in Request /\ q.pc = "claiming" /\ q.acct = a
      BY <1>0 DEF Request, Stages
    <3>2. Put(r, q)
      BY <1>3, <2>1 DEF SaveReadDefault, Move
    <3> HIDE DEF q
    <3>3. StageOK(q)
      BY <1>0, <1>3, <3>1 DEF StageOK, SaveReadDefault, At
    <3> QED BY <1>3, <3>1, <3>2, <3>3, SerialMove DEF SaveReadDefault
  <2>2. CASE dflt # NoAccount
    <3>1. Settled
      BY <1>0, <1>3, <2>2 DEF StageOK, SaveReadDefault, At
    <3> QED BY <1>3, <2>2, <3>1, SerialReturn DEF SaveReadDefault
  <2> QED BY <2>1, <2>2
<1>4. CASE SaveClaimDefault(r)
  <2>1. dflt' = a /\ acct[a].exists
    BY <1>0, <1>4 DEF StageOK, SaveClaimDefault, At
  <2>2. Settled' /\ EveryAccountReadable'
    BY <1>0, <1>4, <2>1
    DEF SaveClaimDefault, Settled, Connected, EveryAccountReadable
  <2>3. StageOK(Idle)'
    BY <2>2, NullRecords DEF StageOK
  <2> QED BY <1>4, <2>2, <2>3, NullRecords, SerialStep DEF SaveClaimDefault, Return
<1> QED BY <1>1, <1>2, <1>3, <1>4 DEF Save

LEMMA SerialMint ==
    ASSUME AccountsInv, SerialInv, NEW r \in Requests, Requests = {r}, Mint(r)
    PROVE  SerialInv'
<1>0. /\ req[r] \in Request /\ StageOK(req[r]) /\ HandlerOK(req[r], owner)
      /\ EveryAccountReadable
  BY DEF AccountsInv, TypeOK, SerialInv, HandlersConsistent
<1>1. Settled
  BY <1>0
  DEF StageOK, At, Mint, MintFor, MintForDefault, MintReadDefault, MintRead,
      Refresh, RefreshRotates, RefreshDead, RefreshFails, MarkNeedsReauth
<1>2. ASSUME Return(r), UNCHANGED <<acct, dflt>> PROVE SerialInv'
  BY <1>1, <1>2, SerialReturn
<1>3. ASSUME NEW a \in Accounts, MintFor(r, a) PROVE SerialInv'
  <2> DEFINE q == [Idle EXCEPT !.pc = "reading", !.acct = a]
  <2>1. q \in Request /\ q.pc = "reading"
    BY NullRecords DEF Request, Stages
  <2>2. Put(r, q)
    BY <1>3 DEF MintFor
  <2> HIDE DEF q
  <2>3. StageOK(q)
    BY <1>1, <2>1 DEF StageOK
  <2> QED BY <1>3, <2>1, <2>2, <2>3, SerialMove DEF MintFor
<1>4. CASE MintForDefault(r)
  <2> DEFINE q == [req[r] EXCEPT !.pc = "mint_default"]
  <2>1. q \in Request /\ q.pc = "mint_default"
    BY <1>0 DEF Request, Stages
  <2>2. Put(r, q)
    BY <1>4 DEF MintForDefault, Move
  <2> HIDE DEF q
  <2>3. StageOK(q)
    BY <1>1, <2>1 DEF StageOK
  <2> QED BY <1>4, <2>1, <2>2, <2>3, SerialMove DEF MintForDefault
<1>5. CASE MintReadDefault(r)
  <2> DEFINE q == [req[r] EXCEPT !.pc = "reading", !.acct = dflt]
  <2>0. dflt \in Accounts \cup {NoAccount}
    BY DEF AccountsInv, TypeOK
  <2>1. q \in Request /\ q.pc = "reading"
    BY <1>0, <2>0 DEF Request, Stages
  <2>2. Put(r, q) \/ Return(r)
    BY <1>5 DEF MintReadDefault
  <2> HIDE DEF q
  <2>3. StageOK(q)
    BY <1>1, <2>1 DEF StageOK
  <2> QED BY <1>2, <1>5, <2>1, <2>2, <2>3, SerialMove DEF MintReadDefault
<1>6. CASE MintRead(r)
  <2> DEFINE d == acct[req[r].acct]
             q == [req[r] EXCEPT !.pc = "refreshing", !.cred = d.cred,
                                 !.cals = d.cals, !.sel = d.sel]
  <2>1. d \in Doc
    BY <1>0, <1>6 DEF MintRead, At, HandlerOK, AccountsInv, TypeOK
  <2>2. q \in Request /\ q.pc = "refreshing" /\ q.acct = req[r].acct
    BY <1>0, <2>1 DEF Doc, Request, Stages
  <2>3. (Put(r, q) /\ d.exists /\ d.bound) \/ Return(r)
    BY <1>6 DEF MintRead
  <2> HIDE DEF q
  <2>4. d.exists /\ d.bound => StageOK(q)
    BY <1>1, <2>2 DEF StageOK
  <2> HIDE DEF d
  <2> QED BY <1>2, <1>6, <2>2, <2>3, <2>4, SerialMove DEF MintRead
<1>7. ASSUME NEW t \in Tokens, RefreshRotates(r, t) PROVE SerialInv'
  <2> DEFINE q == [req[r] EXCEPT !.pc = "saving", !.cred = t]
  <2>1. q \in Request /\ q.pc = "saving"
    BY <1>0 DEF Request, Stages
  <2>2. Put(r, q)
    BY <1>7 DEF RefreshRotates
  <2> HIDE DEF q
  <2>3. StageOK(q)
    BY <1>1, <2>1 DEF StageOK
  <2> QED BY <1>7, <2>1, <2>2, <2>3, SerialMove DEF RefreshRotates
<1>8. CASE RefreshDead(r)
  <2> DEFINE q == [req[r] EXCEPT !.pc = "marking"]
  <2>1. q \in Request /\ q.pc = "marking" /\ q.acct = req[r].acct
    BY <1>0 DEF Request, Stages
  <2>2. Put(r, q)
    BY <1>8 DEF RefreshDead, Move
  <2> HIDE DEF q
  <2>3. acct[q.acct].exists /\ acct[q.acct].bound
    BY <1>0, <1>8, <2>1 DEF RefreshDead, At, StageOK
  <2>4. StageOK(q)
    BY <1>1, <2>1, <2>3 DEF StageOK
  <2> QED BY <1>8, <2>1, <2>2, <2>4, SerialMove DEF RefreshDead
<1>9. CASE MarkNeedsReauth(r)
  <2> DEFINE a == req[r].acct
             d == [acct[a] EXCEPT !.exists = TRUE, !.status = "needs_reauth",
                                  !.cred = NoToken]
  <2>1. a \in Accounts /\ acct[a].exists /\ acct[a].bound
    BY <1>0, <1>9 DEF MarkNeedsReauth, At, HandlerOK, StageOK
  <2>2. acct[a] \in Doc
    BY <2>1 DEF AccountsInv, TypeOK
  <2>3. d \in Doc /\ d.exists /\ d.bound
    BY <2>1, <2>2 DEF Doc
  <2>4. acct' = [acct EXCEPT ![a] = d]
    BY <1>9, <2>1, <2>2 DEF MarkNeedsReauth, AccountsInv, TypeOK, Doc
  <2> HIDE DEF a, d
  <2> QED BY <1>1, <1>9, <2>1, <2>3, <2>4, SerialMerge DEF MarkNeedsReauth
<1> QED
  BY <1>2, <1>3, <1>4, <1>5, <1>6, <1>7, <1>8, <1>9
  DEF Mint, Refresh, RefreshFails

LEMMA SerialDisconnect ==
    ASSUME AccountsInv, SerialInv, NEW r \in Requests, Requests = {r}, Disconnect(r)
    PROVE  SerialInv'
<1>0. /\ req[r] \in Request /\ StageOK(req[r]) /\ HandlerOK(req[r], owner)
      /\ EveryAccountReadable
  BY DEF AccountsInv, TypeOK, SerialInv, HandlersConsistent
<1>1. ASSUME NEW a \in Accounts, DisconnectRead(r, a) PROVE SerialInv'
  <2> DEFINE q == [Idle EXCEPT !.pc = IF acct[a].cred # NoToken
                                         THEN "revoking" ELSE "deleting",
                               !.acct = a, !.cred = acct[a].cred,
                               !.sel = acct[a].sel]
  <2>0. acct[a] \in Doc
    BY DEF AccountsInv, TypeOK
  <2>1. q \in Request /\ q.pc \in {"revoking", "deleting"}
    BY <2>0, NullRecords DEF Doc, Request, Stages
  <2>2. Put(r, q)
    BY <1>1 DEF DisconnectRead
  <2> HIDE DEF q
  <2>3. StageOK(q)
    BY <1>0, <1>1, <2>1 DEF StageOK, DisconnectRead, At
  <2> QED BY <1>1, <2>1, <2>2, <2>3, SerialMove DEF DisconnectRead
<1>2. CASE Revoke(r)
  <2> DEFINE q == [req[r] EXCEPT !.pc = "deleting"]
  <2>1. q \in Request /\ q.pc = "deleting"
    BY <1>0 DEF Request, Stages
  <2>2. Put(r, q)
    BY <1>2 DEF Revoke, Move
  <2> HIDE DEF q
  <2>3. StageOK(q)
    BY <1>0, <1>2, <2>1 DEF StageOK, Revoke, At
  <2> QED BY <1>2, <2>1, <2>2, <2>3, SerialMove DEF Revoke
<1>3. CASE Delete(r)
  <2> DEFINE a == req[r].acct
  <2>0. a \in Accounts /\ Settled
    BY <1>0, <1>3 DEF Delete, At, HandlerOK, StageOK
  <2> DEFINE moved == [req[r] EXCEPT !.pc = "undefaulting"]
  <2>a. moved \in Request /\ moved.pc = "undefaulting" /\ moved.acct = a
    BY <1>0 DEF Request, Stages
  <2> HIDE DEF moved
  <2>1. PICK q \in Request : q = moved /\ q.pc = "undefaulting" /\ q.acct = a
    BY <2>a
  <2>2. Put(r, q)
    BY <1>3, <2>1 DEF Delete, Move, moved
  <2>3. \A b \in Accounts : acct'[b] = IF b = a THEN Absent ELSE acct[b]
    BY <1>3 DEF Delete, AccountsInv, TypeOK
  <2> HIDE DEF a
  <2>4. EveryAccountReadable'
    BY <1>0, <2>3 DEF EveryAccountReadable, Readable, Absent
  <2>5. Settled' \/ dflt' = a
    BY <1>3, <2>0, <2>3 DEF Delete, Settled, Connected, Absent
  <2>6. StageOK(q)'
    BY <2>1, <2>5 DEF StageOK
  <2> QED BY <2>1, <2>2, <2>4, <2>6, SerialStep
<1>4. CASE DeleteReadDefault(r)
  <2> DEFINE q == [req[r] EXCEPT !.pc = "relisting"]
  <2>1. q \in Request /\ q.pc = "relisting"
    BY <1>0 DEF Request, Stages
  <2>2. Put(r, q) \/ (Return(r) /\ dflt # req[r].acct)
    BY <1>4 DEF DeleteReadDefault, Move
  <2> HIDE DEF q
  <2>3. StageOK(q)
    BY <2>1 DEF StageOK
  <2>4. dflt # req[r].acct => Settled
    BY <1>0, <1>4 DEF DeleteReadDefault, At, StageOK
  <2> QED
    BY <1>4, <2>1, <2>2, <2>3, <2>4, SerialMove, SerialReturn DEF DeleteReadDefault
<1>5. CASE DeleteListRemaining(r)
  <2>1. ~ListRaises
    BY <1>0 DEF EveryAccountReadable, ListRaises
  <2>2. PICK b \in IF Connected = {} THEN {NoAccount} ELSE Connected :
           Put(r, [req[r] EXCEPT !.pc = "promoting", !.next = b])
    BY <1>5, <2>1 DEF DeleteListRemaining
  <2> DEFINE q == [req[r] EXCEPT !.pc = "promoting", !.next = b]
  <2>3. b \in Connected \/ (b = NoAccount /\ Connected = {})
    BY <2>2
  <2>4. q \in Request /\ q.pc = "promoting" /\ q.next = b
    BY <1>0, <2>3 DEF Request, Stages, Connected
  <2>5. Put(r, q)
    BY <2>2
  <2> HIDE DEF q
  <2>6. StageOK(q)
    BY <2>3, <2>4 DEF StageOK
  <2> QED BY <1>5, <2>4, <2>5, <2>6, SerialMove DEF DeleteListRemaining
<1>6. CASE DeletePromote(r)
  <2>1. Settled' /\ EveryAccountReadable'
    BY <1>0, <1>6
    DEF DeletePromote, At, StageOK, Settled, Connected, EveryAccountReadable
  <2>2. StageOK(Idle)'
    BY <2>1, NullRecords DEF StageOK
  <2> QED BY <1>6, <2>1, <2>2, NullRecords, SerialStep DEF DeletePromote, Return
<1> QED BY <1>1, <1>2, <1>3, <1>4, <1>5, <1>6 DEF Disconnect

LEMMA SerialSelect ==
    ASSUME AccountsInv, SerialInv, NEW r \in Requests, Requests = {r}, Select(r)
    PROVE  SerialInv'
<1>0. /\ req[r] \in Request /\ StageOK(req[r]) /\ HandlerOK(req[r], owner)
      /\ EveryAccountReadable
  BY DEF AccountsInv, TypeOK, SerialInv, HandlersConsistent
<1>1. Settled
  BY <1>0 DEF StageOK, At, Select, SelectRead, SelectWrite
<1>2. ASSUME NEW a \in Accounts, NEW S \in SUBSET Calendars, SelectRead(r, a, S)
      PROVE  SerialInv'
  <2> DEFINE q == [Idle EXCEPT !.pc = "selecting", !.acct = a,
                               !.cals = acct[a].cals, !.sel = acct[a].cals \cap S]
  <2>1. acct[a].cals \in SUBSET Calendars /\ acct[a].cals \cap S \in SUBSET Calendars
    BY DEF AccountsInv, TypeOK, Doc
  <2>2. q \in Request /\ q.pc = "selecting" /\ q.acct = a
    BY <2>1, NullRecords DEF Request, Stages
  <2>3. Put(r, q)
    BY <1>2 DEF SelectRead
  <2> HIDE DEF q
  <2>4. acct[a].exists /\ acct[a].bound
    BY <1>0, <1>2 DEF SelectRead, EveryAccountReadable, Readable
  <2>5. StageOK(q)
    BY <1>1, <2>2, <2>4 DEF StageOK
  <2> QED BY <1>2, <2>2, <2>3, <2>5, SerialMove DEF SelectRead
<1>3. CASE SelectWrite(r)
  <2> DEFINE a == req[r].acct
             d == [acct[a] EXCEPT !.exists = TRUE, !.cals = req[r].cals,
                                  !.sel = req[r].sel]
  <2>1. a \in Accounts /\ acct[a].exists /\ acct[a].bound
    BY <1>0, <1>3 DEF SelectWrite, At, HandlerOK, StageOK
  <2>2. acct[a] \in Doc
    BY <2>1 DEF AccountsInv, TypeOK
  <2>3. d \in Doc /\ d.exists /\ d.bound
    BY <1>0, <2>1, <2>2 DEF Doc, Request
  <2>4. acct' = [acct EXCEPT ![a] = d]
    BY <1>3, <2>1, <2>2 DEF SelectWrite, AccountsInv, TypeOK, Doc
  <2> HIDE DEF a, d
  <2> QED BY <1>1, <1>3, <2>1, <2>3, <2>4, SerialMerge DEF SelectWrite
<1> QED BY <1>2, <1>3 DEF Select

\* The inductive invariant of one request at a time, none of which stops half
\* way.
THEOREM SerialInvariant ==
    ASSUME NEW only \in Requests, Requests = {only}, CanCrash = FALSE
    PROVE  Spec => [](AccountsInv /\ SerialInv)
<1>1. Init => SerialInv
  BY NullRecords
  DEF Init, SerialInv, EveryAccountReadable, Readable, StageOK, Settled, Connected,
      Absent
<1>2. AccountsInv /\ SerialInv /\ [Next]_vars => SerialInv'
  <2> SUFFICES ASSUME AccountsInv, SerialInv, [Next]_vars PROVE SerialInv'
    OBVIOUS
  <2>1. ASSUME NEW r \in Requests,
               Connect(r) \/ Save(r) \/ Mint(r) \/ Disconnect(r) \/ Select(r)
        PROVE  SerialInv'
    <3>1. Requests = {r}
      OBVIOUS
    <3> QED
      BY <2>1, <3>1, SerialConnect, SerialSave, SerialMint, SerialDisconnect,
         SerialSelect
  <2>2. ASSUME NEW r \in Requests, Crash(r) PROVE SerialInv'
    BY <2>2 DEF Crash
  <2>3. CASE UNCHANGED <<acct, dflt, req>>
    BY <2>3 DEF SerialInv, EveryAccountReadable, StageOK, Settled, Connected
  <2> QED BY <2>1, <2>2, <2>3 DEF Next, Lapse, vars
<1> QED BY <1>1, <1>2, AccountsInvariant, PTL DEF Spec

\* Between requests that come one at a time and run to their end, the default
\* account is a connected one and there is one as soon as any is connected.
THEOREM SerialDefaultSettled ==
    ASSUME NEW only \in Requests, Requests = {only}, CanCrash = FALSE
    PROVE  Spec => []DefaultSettled
<1>1. SerialInv => DefaultSettled
  BY DEF SerialInv, StageOK, Settled, DefaultSettled, Quiescent, At
<1> QED BY <1>1, SerialInvariant, PTL

\* Requests that come one at a time leave no document that cannot be read back.
THEOREM SerialAccountsReadable ==
    ASSUME NEW only \in Requests, Requests = {only}, CanCrash = FALSE
    PROVE  Spec => []EveryAccountReadable
<1>1. SerialInv => EveryAccountReadable
  BY DEF SerialInv
<1> QED BY <1>1, SerialInvariant, PTL
-----------------------------------------------------------------------------
(* Requests one at a time: what a handler read is still so when it writes, *)
(* and each step is one operation of the book or none.                     *)

\* The book as the one handler leaves it.
InBook(r, a) == acct[a].exists \/ Leaving(r, a)

Works(r, a) == acct[a].status = "active" \/ (Leaving(r, a) /\ req[r].cred # NoToken)

Chosen(r, a) == IF Leaving(r, a) THEN acct[a].sel \cup req[r].sel ELSE acct[a].sel

DefaultOf(r) == IF Arriving(r) THEN req[r].acct ELSE dflt

BookIs(r) ==
    /\ bookBar = {a \in Accounts : InBook(r, a)}
    /\ workingBar = {a \in Accounts : Works(r, a)}
    /\ chosenBar = [a \in Accounts |-> Chosen(r, a)]
    /\ defaultBar = DefaultOf(r)

\* The refinement mapping, for the one handler there is.
LEMMA BookOfOne ==
    ASSUME NEW r \in Requests, Requests = {r}
    PROVE  BookIs(r) /\ BookIs(r)'
<1>1. BookIs(r)
  <2>1. bookBar = {a \in Accounts : InBook(r, a)}
    BY DEF bookBar, Connected, LeavingAccounts, InBook
  <2>2. workingBar = {a \in Accounts : Works(r, a)}
    BY DEF workingBar, Works
  <2>3. ASSUME NEW a \in Accounts
        PROVE  acct[a].sel \cup UNION {req[s].sel : s \in {q \in Requests : Leaving(q, a)}}
                 = Chosen(r, a)
    <3>1. CASE Leaving(r, a)
      <4>1. {q \in Requests : Leaving(q, a)} = {r}
        BY <3>1
      <4>2. UNION {req[s].sel : s \in {r}} = req[r].sel
        OBVIOUS
      <4> QED BY <3>1, <4>1, <4>2 DEF Chosen
    <3>2. CASE ~Leaving(r, a)
      <4>1. {q \in Requests : Leaving(q, a)} = {}
        BY <3>2
      <4>2. UNION {req[s].sel : s \in {}} = {}
        OBVIOUS
      <4> QED BY <3>2, <4>1, <4>2 DEF Chosen
    <3> QED BY <3>1, <3>2
  <2>4. chosenBar = [a \in Accounts |-> Chosen(r, a)]
    BY <2>3 DEF chosenBar
  <2>5. defaultBar = DefaultOf(r)
    <3>1. CASE Arriving(r)
      <4>1. {req[p] : p \in {q \in Requests : Arriving(q)}} = {req[r]}
        BY <3>1
      <4>2. (CHOOSE q \in {req[r]} : TRUE) = req[r]
        OBVIOUS
      <4> QED BY <3>1, <4>1, <4>2 DEF defaultBar, DefaultOf
    <3>2. CASE ~Arriving(r)
      BY <3>2 DEF defaultBar, DefaultOf
    <3> QED BY <3>1, <3>2
  <2> QED BY <2>1, <2>2, <2>4, <2>5 DEF BookIs
<1> QED BY <1>1, PTL

BookStep == [Book!Next]_Book!bookVars

\* A step that shows none of its change.
LEMMA BookSame ==
    ASSUME NEW r \in Requests, Requests = {r},
           \A a \in Accounts : /\ InBook(r, a)' <=> InBook(r, a)
                               /\ Works(r, a)' <=> Works(r, a)
                               /\ Chosen(r, a)' = Chosen(r, a),
           DefaultOf(r)' = DefaultOf(r)
    PROVE  BookStep
<1>1. BookIs(r) /\ BookIs(r)'
  BY BookOfOne
<1>2. bookBar' = bookBar /\ workingBar' = workingBar
  BY <1>1 DEF BookIs
<1>3. chosenBar' = chosenBar /\ defaultBar' = defaultBar
  BY <1>1 DEF BookIs
<1> QED BY <1>2, <1>3 DEF BookStep, Book!bookVars

\* What the handler is doing shows in the book at these stages only.
OpenStages == {"defaulting", "claiming", "undefaulting", "relisting", "promoting"}

LEMMA ClosedStages ==
    ASSUME NEW r \in Requests, req[r].pc \notin OpenStages
    PROVE  /\ DefaultOf(r) = dflt
           /\ \A a \in Accounts : /\ InBook(r, a) <=> acct[a].exists
                                  /\ Works(r, a) <=> acct[a].status = "active"
                                  /\ Chosen(r, a) = acct[a].sel
  BY DEF OpenStages, InBook, Works, Chosen, DefaultOf, Leaving, Arriving

LEMMA ClosedAfter ==
    ASSUME NEW r \in Requests, req'[r].pc \notin OpenStages
    PROVE  /\ DefaultOf(r)' = dflt'
           /\ \A a \in Accounts : /\ InBook(r, a)' <=> acct'[a].exists
                                  /\ Works(r, a)' <=> acct'[a].status = "active"
                                  /\ Chosen(r, a)' = acct'[a].sel
  BY DEF OpenStages, InBook, Works, Chosen, DefaultOf, Leaving, Arriving

\* What a step of the one handler has to establish.
Sound(r) ==
    MissingAreAbsent' /\ SnapshotOK(req[r])' /\ CurrentBut(req[r])' /\ BookStep

Solo(r) == AccountsInv /\ SoloInv /\ Requests = {r}

LEMMA SoloFacts ==
    ASSUME NEW r \in Requests, Solo(r)
    PROVE  /\ acct \in [Accounts -> Doc] /\ req \in [Requests -> Request]
           /\ req[r] \in Request /\ HandlerOK(req[r], owner)
           /\ grant \in [Tokens -> {"unissued", "live", "rotated", "revoked", "lapsed"}]
           /\ dflt \in Accounts \cup {NoAccount}
           /\ SnapshotOK(req[r]) /\ CurrentBut(req[r]) /\ StageOK(req[r])
           /\ MissingAreAbsent /\ EveryAccountReadable
  BY DEF Solo, AccountsInv, TypeOK, HandlersConsistent, SoloInv, SerialInv

\* No grant that was current is replaced or revoked.
GrantsKept == \A t \in Tokens : Current(t) => Current(t)'

LEMMA CurrentKept ==
    ASSUME NEW r \in Requests, Solo(r), acct' = acct, GrantsKept,
           req[r].pc \in {"saving", "merging", "deleting"} =>
              req'[r].pc \in {"saving", "merging", "deleting"} /\ req'[r].acct = req[r].acct
    PROVE  CurrentBut(req[r])'
<1> SUFFICES ASSUME NEW a \in Accounts, acct[a].cred # NoToken, ~Current(acct[a].cred)'
             PROVE  a = req'[r].acct /\ req'[r].pc \in {"saving", "merging", "deleting"}
  BY DEF CurrentBut
<1>1. acct[a].cred \in Tokens /\ CurrentBut(req[r])
  BY SoloFacts DEF Doc
<1>2. ~Current(acct[a].cred)
  BY <1>1 DEF GrantsKept, Current
<1> QED BY <1>1, <1>2 DEF CurrentBut

\* A step between stages that do not show, which writes nothing of ours.
LEMMA SoloQuiet ==
    ASSUME NEW r \in Requests, Solo(r), UNCHANGED <<acct, dflt>>, GrantsKept,
           req[r].pc \notin OpenStages, req'[r].pc \notin OpenStages,
           req[r].pc \in {"saving", "merging", "deleting"} =>
              req'[r].pc \in {"saving", "merging", "deleting"} /\ req'[r].acct = req[r].acct,
           SnapshotOK(req[r])'
    PROVE  Sound(r)
<1>1. MissingAreAbsent'
  BY SoloFacts DEF MissingAreAbsent
<1>2. CurrentBut(req[r])'
  BY CurrentKept
<1>3. BookStep
  BY ClosedStages, ClosedAfter, BookSame DEF Solo
<1> QED BY <1>1, <1>2, <1>3 DEF Sound

LEMMA SameGrants == UNCHANGED grant => GrantsKept
  BY DEF GrantsKept, Current

LEMMA SoloReturn ==
    ASSUME NEW r \in Requests, Solo(r), UNCHANGED <<acct, dflt, grant>>, Return(r),
           req[r].pc \notin OpenStages, req[r].pc \notin {"saving", "merging", "deleting"}
    PROVE  Sound(r)
<1>1. req'[r] = Idle
  BY SoloFacts, NullRecords DEF Return, Put
<1>2. SnapshotOK(req[r])' /\ req'[r].pc \notin OpenStages
  BY <1>1, NullRecords DEF SnapshotOK, OpenStages
<1> QED BY <1>2, SoloQuiet, SameGrants

LEMMA SoloConnect ==
    ASSUME NEW r \in Requests, Solo(r), Connect(r)
    PROVE  Sound(r)
<1>1. ASSUME NEW a \in Accounts, NEW t \in Tokens, ExchangeCode(r, a, t)
      PROVE  Sound(r)
  <2>1. /\ req[r].pc = "idle" /\ req'[r].pc = "listing" /\ req'[r].cred = t
        /\ UNCHANGED <<acct, dflt>> /\ grant'[t] = "live"
        /\ \A u \in Tokens : u # t => grant'[u] = grant[u]
    BY <1>1, SoloFacts DEF ExchangeCode, At, Put, Idle
  <2>2. GrantsKept
    BY <2>1 DEF GrantsKept, Current
  <2>3. SnapshotOK(req[r])'
    BY <2>1 DEF SnapshotOK, Current
  <2> QED BY <2>1, <2>2, <2>3, SoloQuiet DEF OpenStages
<1>2. ASSUME NEW found \in SUBSET Calendars, ListCalendars(r, found)
      PROVE  Sound(r)
  <2>1. /\ req[r].pc = "listing" /\ req'[r].pc = "saving" /\ req'[r].cred = req[r].cred
        /\ UNCHANGED <<acct, dflt, grant>>
    BY <1>2, SoloFacts DEF ListCalendars, At, Put, Request
  <2>2. SnapshotOK(req[r])'
    BY <2>1, SoloFacts DEF SnapshotOK, Current
  <2> QED BY <2>1, <2>2, SoloQuiet, SameGrants DEF OpenStages
<1>3. CASE ListingFails(r)
  BY <1>3, SoloReturn DEF ListingFails, At, OpenStages
<1> QED BY <1>1, <1>2, <1>3 DEF Connect

\* Steps of the handler that are operations of the book.
LEMMA BookConnects ==
    ASSUME NEW r \in Requests, Requests = {r}, NEW a \in Accounts,
           \A b \in Accounts : /\ InBook(r, b)' <=> InBook(r, b) \/ b = a
                               /\ Works(r, b)' <=> Works(r, b) \/ b = a
                               /\ b # a => Chosen(r, b)' = Chosen(r, b),
           NEW S \in SUBSET Calendars, Chosen(r, a)' = S,
           Chosen(r, a) = {} \/ S \subseteq Chosen(r, a),
           DefaultOf(r)' = IF DefaultOf(r) = NoAccount THEN a ELSE DefaultOf(r)
    PROVE  BookStep
<1>1. BookIs(r) /\ BookIs(r)'
  BY BookOfOne
<1>2. bookBar' = bookBar \cup {a} /\ workingBar' = workingBar \cup {a}
  BY <1>1 DEF BookIs
<1>3. /\ chosenBar' = [chosenBar EXCEPT ![a] = S]
      /\ chosenBar[a] = Chosen(r, a)
  BY <1>1 DEF BookIs
<1>4. S \in IF chosenBar[a] = {} THEN SUBSET Calendars ELSE SUBSET chosenBar[a]
  BY <1>3
<1>5. defaultBar' = IF defaultBar = NoAccount THEN a ELSE defaultBar
  BY <1>1 DEF BookIs
<1>6. Book!Connect(a)
  BY <1>2, <1>3, <1>4, <1>5 DEF Book!Connect
<1> QED BY <1>6 DEF BookStep, Book!Next

LEMMA BookDisconnects ==
    ASSUME NEW r \in Requests, Requests = {r}, NEW a \in Accounts, InBook(r, a),
           \A b \in Accounts : /\ InBook(r, b)' <=> InBook(r, b) /\ b # a
                               /\ Works(r, b)' <=> Works(r, b) /\ b # a
                               /\ b # a => Chosen(r, b)' = Chosen(r, b),
           Chosen(r, a)' = {},
           DefaultOf(r) # a => DefaultOf(r)' = DefaultOf(r),
           DefaultOf(r) = a =>
              \/ DefaultOf(r)' \in Accounts /\ InBook(r, DefaultOf(r))'
              \/ DefaultOf(r)' = NoAccount /\ \A b \in Accounts : ~InBook(r, b)'
    PROVE  BookStep
<1>1. BookIs(r) /\ BookIs(r)'
  BY BookOfOne
<1>2. a \in bookBar /\ bookBar' = bookBar \ {a} /\ workingBar' = workingBar \ {a}
  BY <1>1 DEF BookIs
<1>3. chosenBar' = [chosenBar EXCEPT ![a] = {}]
  BY <1>1 DEF BookIs
<1>4. CASE DefaultOf(r) # a
  <2>1. defaultBar # a /\ defaultBar' = defaultBar
    BY <1>1, <1>4 DEF BookIs
  <2>2. Book!Disconnect(a)
    BY <1>2, <1>3, <2>1 DEF Book!Disconnect
  <2> QED BY <2>2 DEF BookStep, Book!Next
<1>5. CASE DefaultOf(r) = a
  <2>1. defaultBar = a
    BY <1>1, <1>5 DEF BookIs
  <2>2. IF bookBar' = {} THEN defaultBar' = NoAccount ELSE defaultBar' \in bookBar'
    <3>1. CASE DefaultOf(r)' \in Accounts /\ InBook(r, DefaultOf(r))'
      BY <1>1, <3>1 DEF BookIs
    <3>2. CASE DefaultOf(r)' = NoAccount /\ \A b \in Accounts : ~InBook(r, b)'
      BY <1>1, <3>2 DEF BookIs
    <3> QED BY <1>5, <3>1, <3>2
  <2>3. Book!Disconnect(a)
    BY <1>2, <1>3, <2>1, <2>2 DEF Book!Disconnect
  <2> QED BY <2>3 DEF BookStep, Book!Next
<1> QED BY <1>4, <1>5

LEMMA BookChooses ==
    ASSUME NEW r \in Requests, Requests = {r}, NEW a \in Accounts, InBook(r, a),
           \A b \in Accounts : /\ InBook(r, b)' <=> InBook(r, b)
                               /\ Works(r, b)' <=> Works(r, b)
                               /\ b # a => Chosen(r, b)' = Chosen(r, b),
           NEW S \in SUBSET Calendars, Chosen(r, a)' = S,
           DefaultOf(r)' = DefaultOf(r)
    PROVE  BookStep
<1>1. BookIs(r) /\ BookIs(r)'
  BY BookOfOne
<1>2. a \in bookBar /\ bookBar' = bookBar /\ workingBar' = workingBar
  BY <1>1 DEF BookIs
<1>3. chosenBar' = [chosenBar EXCEPT ![a] = S] /\ defaultBar' = defaultBar
  BY <1>1 DEF BookIs
<1>4. Book!Choose(a, S)
  BY <1>2, <1>3 DEF Book!Choose
<1> QED BY <1>4 DEF BookStep, Book!Next

LEMMA BookFails ==
    ASSUME NEW r \in Requests, Requests = {r}, NEW a \in Accounts, Works(r, a),
           \A b \in Accounts : /\ InBook(r, b)' <=> InBook(r, b)
                               /\ Works(r, b)' <=> Works(r, b) /\ b # a
                               /\ Chosen(r, b)' = Chosen(r, b),
           DefaultOf(r)' = DefaultOf(r)
    PROVE  BookStep
<1>1. BookIs(r) /\ BookIs(r)'
  BY BookOfOne
<1>2. a \in workingBar /\ bookBar' = bookBar /\ workingBar' = workingBar \ {a}
  BY <1>1 DEF BookIs
<1>3. chosenBar' = chosenBar /\ defaultBar' = defaultBar
  BY <1>1 DEF BookIs
<1>4. Book!Fail(a)
  BY <1>2, <1>3 DEF Book!Fail
<1> QED BY <1>4 DEF BookStep, Book!Next

LEMMA SoloSave ==
    ASSUME NEW r \in Requests, Solo(r), Save(r)
    PROVE  Sound(r)
<1> DEFINE a == req[r].acct
<1>0. a \in Accounts /\ a # NoAccount
  BY SoloFacts, NullsAreNulls
  DEF HandlerOK, Save, SaveRead, SaveWrite, SaveReadDefault, SaveClaimDefault, At
<1>1. CASE SaveRead(r)
  <2>1. /\ req[r].pc = "saving" /\ req'[r].pc = "merging" /\ req'[r].cred = req[r].cred
        /\ req'[r].acct = a /\ req'[r].keep = acct[a].sel
        /\ UNCHANGED <<acct, dflt, grant>>
    BY <1>1, SoloFacts DEF SaveRead, At, Put, Request
  <2>2. SnapshotOK(req[r])'
    BY <2>1, SoloFacts DEF SnapshotOK, Current
  <2> QED BY <2>1, <2>2, SoloQuiet, SameGrants DEF OpenStages
<1>2. CASE SaveWrite(r)
  <2> DEFINE S == Merged(req[r])
             d == [exists |-> TRUE, bound |-> TRUE, status |-> "active",
                   cred |-> req[r].cred, cals |-> req[r].cals, sel |-> S]
  <2>1. /\ req[r].pc = "merging" /\ req'[r].pc = "defaulting" /\ req'[r].acct = a
        /\ acct' = [acct EXCEPT ![a] = d] /\ UNCHANGED <<dflt, grant>>
    BY <1>2, SoloFacts DEF SaveWrite, At, Put, Move, Request
  <2>2. /\ Current(req[r].cred) /\ req[r].keep = acct[a].sel
        /\ S \in SUBSET Calendars /\ (req[r].keep # {} => S \subseteq req[r].keep)
    BY <2>1, SoloFacts DEF SnapshotOK, Merged, Request
  <2> HIDE DEF S
  <2>3. /\ d.exists /\ d.status = "active" /\ d.cred = req[r].cred /\ d.sel = S
        /\ acct'[a] = d /\ \A b \in Accounts : b # a => acct'[b] = acct[b]
    BY <1>0, <2>1, SoloFacts
  <2> HIDE DEF d
  <2>4. MissingAreAbsent'
    BY <2>3, SoloFacts DEF MissingAreAbsent
  <2>5. SnapshotOK(req[r])'
    BY <2>1 DEF SnapshotOK
  <2>6. CurrentBut(req[r])'
    BY <1>0, <2>1, <2>2, <2>3, SoloFacts DEF CurrentBut, Current
  <2>7. BookStep
    <3>1. /\ DefaultOf(r) = dflt
          /\ \A b \in Accounts : /\ InBook(r, b) <=> acct[b].exists
                                 /\ Works(r, b) <=> acct[b].status = "active"
                                 /\ Chosen(r, b) = acct[b].sel
      BY <2>1, ClosedStages DEF OpenStages
    <3>2. /\ DefaultOf(r)' = IF dflt = NoAccount THEN a ELSE dflt
          /\ \A b \in Accounts : /\ InBook(r, b)' <=> acct'[b].exists
                                 /\ Works(r, b)' <=> acct'[b].status = "active"
                                 /\ Chosen(r, b)' = acct'[b].sel
      BY <2>1 DEF InBook, Works, Chosen, DefaultOf, Leaving, Arriving
    <3> HIDE DEF a
    <3> QED BY <1>0, <2>2, <2>3, <3>1, <3>2, BookConnects DEF Solo
  <2> QED BY <2>4, <2>5, <2>6, <2>7 DEF Sound
<1>3. CASE SaveReadDefault(r)
  <2>1. /\ req[r].pc = "defaulting" /\ UNCHANGED <<acct, dflt, grant>>
        /\ \/ dflt = NoAccount /\ req'[r].pc = "claiming" /\ req'[r].acct = a
           \/ dflt # NoAccount /\ req'[r].pc = "idle"
    BY <1>3, SoloFacts, NullRecords DEF SaveReadDefault, At, Put, Move, Return, Request
  <2>2. SnapshotOK(req[r])'
    BY <2>1 DEF SnapshotOK
  <2>3. CurrentBut(req[r])' /\ MissingAreAbsent'
    BY <2>1, CurrentKept, SameGrants, SoloFacts DEF MissingAreAbsent
  <2>4. BookStep
    BY <2>1, BookSame
    DEF Solo, InBook, Works, Chosen, DefaultOf, Leaving, Arriving
  <2> QED BY <2>2, <2>3, <2>4 DEF Sound
<1>4. CASE SaveClaimDefault(r)
  <2>1. /\ req[r].pc = "claiming" /\ UNCHANGED <<acct, grant>> /\ req'[r].pc = "idle"
        /\ dflt' = a /\ dflt = NoAccount
    BY <1>4, SoloFacts, NullRecords DEF SaveClaimDefault, At, Put, Return, SnapshotOK
  <2>2. SnapshotOK(req[r])'
    BY <2>1 DEF SnapshotOK
  <2>3. CurrentBut(req[r])' /\ MissingAreAbsent'
    BY <2>1, CurrentKept, SameGrants, SoloFacts DEF MissingAreAbsent
  <2>4. BookStep
    BY <2>1, BookSame
    DEF Solo, InBook, Works, Chosen, DefaultOf, Leaving, Arriving
  <2> QED BY <2>2, <2>3, <2>4 DEF Sound
<1> QED BY <1>1, <1>2, <1>3, <1>4 DEF Save

LEMMA SoloMint ==
    ASSUME NEW r \in Requests, Solo(r), Mint(r)
    PROVE  Sound(r)
<1> DEFINE a == req[r].acct
<1>1. ASSUME NEW b \in Accounts, MintFor(r, b) PROVE Sound(r)
  <2>1. /\ req[r].pc = "idle" /\ req'[r].pc = "reading" /\ UNCHANGED <<acct, dflt, grant>>
    BY <1>1, SoloFacts DEF MintFor, At, Put, Idle
  <2>2. SnapshotOK(req[r])'
    BY <2>1 DEF SnapshotOK
  <2> QED BY <2>1, <2>2, SoloQuiet, SameGrants DEF OpenStages
<1>2. CASE MintForDefault(r)
  <2>1. /\ req[r].pc = "idle" /\ req'[r].pc = "mint_default"
        /\ UNCHANGED <<acct, dflt, grant>>
    BY <1>2, SoloFacts DEF MintForDefault, At, Put, Move, Request
  <2>2. SnapshotOK(req[r])'
    BY <2>1 DEF SnapshotOK
  <2> QED BY <2>1, <2>2, SoloQuiet, SameGrants DEF OpenStages
<1>3. CASE MintReadDefault(r)
  <2>1. CASE dflt = NoAccount
    BY <1>3, <2>1, SoloReturn DEF MintReadDefault, At, OpenStages
  <2>2. CASE dflt # NoAccount
    <3> DEFINE q == [req[r] EXCEPT !.pc = "reading", !.acct = dflt]
    <3>0. q.pc = "reading"
      BY SoloFacts DEF Request
    <3>1. /\ req[r].pc = "mint_default" /\ req'[r].pc = "reading"
          /\ UNCHANGED <<acct, dflt, grant>>
      <4>1. Put(r, q)
        BY <1>3, <2>2 DEF MintReadDefault
      <4> HIDE DEF q
      <4> QED BY <1>3, <3>0, <4>1, SoloFacts DEF MintReadDefault, At, Put
    <3>2. SnapshotOK(req[r])'
      BY <3>1 DEF SnapshotOK
    <3> QED BY <3>1, <3>2, SoloQuiet, SameGrants DEF OpenStages
  <2> QED BY <2>1, <2>2
<1>4. CASE MintRead(r)
  <2>1. CASE acct[a].exists /\ acct[a].bound /\ Usable(acct[a])
    <3> DEFINE q == [req[r] EXCEPT !.pc = "refreshing", !.cred = acct[a].cred,
                                   !.cals = acct[a].cals, !.sel = acct[a].sel]
    <3>0. q.pc = "refreshing" /\ q.acct = a /\ q.cred = acct[a].cred
      BY SoloFacts DEF Request
    <3>1. /\ req[r].pc = "reading" /\ req'[r].pc = "refreshing" /\ req'[r].acct = a
          /\ req'[r].cred = acct[a].cred /\ acct[a].cred # NoToken
          /\ UNCHANGED <<acct, dflt, grant>>
      <4>1. Put(r, q)
        BY <1>4, <2>1 DEF MintRead
      <4> HIDE DEF q
      <4> QED BY <1>4, <2>1, <3>0, <4>1, SoloFacts DEF MintRead, At, Put, Usable
    <3>2. SnapshotOK(req[r])'
      BY <3>1 DEF SnapshotOK
    <3> QED BY <3>1, <3>2, SoloQuiet, SameGrants DEF OpenStages
  <2>2. CASE ~(acct[a].exists /\ acct[a].bound /\ Usable(acct[a]))
    BY <1>4, <2>2, SoloReturn DEF MintRead, At, OpenStages
  <2> QED BY <2>1, <2>2
<1>5. CASE Refresh(r) \/ RefreshFails(r)
  BY <1>5, SoloReturn DEF Refresh, RefreshFails, At, OpenStages
<1>6. ASSUME NEW t \in Tokens, RefreshRotates(r, t) PROVE Sound(r)
  <2>1. /\ req[r].pc = "refreshing" /\ req'[r].pc = "saving"
        /\ req'[r].acct = a /\ req'[r].cred = t /\ UNCHANGED <<acct, dflt>>
    BY <1>6, SoloFacts DEF RefreshRotates, At, Put, Request
  <2>2. /\ a \in Accounts /\ req[r].cred \in Tokens /\ t # req[r].cred
        /\ owner[req[r].cred] = a /\ grant'[t] = "live"
        /\ \A u \in Tokens : u # req[r].cred /\ Current(u) => Current(u)'
    BY <1>6, <2>1, SoloFacts, NullsAreNulls DEF RefreshRotates, HandlerOK, Current
  <2>3. SnapshotOK(req[r])'
    BY <2>1, <2>2 DEF SnapshotOK, Current
  <2>4. ASSUME NEW b \in Accounts, acct[b].cred # NoToken, b # a
        PROVE  Current(acct[b].cred)'
    <3>1. acct[b].cred \in Tokens /\ owner[acct[b].cred] = b
      BY <2>4, SoloFacts DEF Doc, Solo, AccountsInv, CredentialBelongs
    <3>2. Current(acct[b].cred)
      BY <2>1, <2>4, SoloFacts DEF CurrentBut
    <3>3. acct[b].cred # req[r].cred
      BY <2>2, <2>4, <3>1
    <3>4. PICK u \in Tokens : u = acct[b].cred
      BY <3>1
    <3> QED BY <2>1, <2>2, <3>2, <3>3, <3>4 DEF Current
  <2>5. CurrentBut(req[r])'
    BY <2>1, <2>4 DEF CurrentBut
  <2>6. MissingAreAbsent'
    BY <2>1, SoloFacts DEF MissingAreAbsent
  <2>7. BookStep
    BY <2>1, ClosedStages, ClosedAfter, BookSame DEF Solo, OpenStages
  <2> QED BY <2>3, <2>5, <2>6, <2>7 DEF Sound
<1>7. CASE RefreshDead(r)
  <2>1. /\ req[r].pc = "refreshing" /\ req'[r].pc = "marking"
        /\ req'[r].acct = a /\ req'[r].cred = req[r].cred /\ grant[req[r].cred] # "live"
        /\ UNCHANGED <<acct, dflt, grant>>
    BY <1>7, SoloFacts DEF RefreshDead, At, Put, Move, Request
  <2>2. SnapshotOK(req[r])'
    BY <2>1, SoloFacts DEF SnapshotOK
  <2> QED BY <2>1, <2>2, SoloQuiet, SameGrants DEF OpenStages
<1>8. CASE MarkNeedsReauth(r)
  <2>1. /\ req[r].pc = "marking" /\ req'[r].pc = "idle" /\ UNCHANGED <<dflt, grant>>
        /\ a \in Accounts /\ acct[a].exists /\ acct[a].cred # NoToken
    BY <1>8, SoloFacts, NullRecords
    DEF MarkNeedsReauth, At, Put, Return, HandlerOK, SnapshotOK, StageOK
  <2>2. /\ acct'[a].exists /\ acct'[a].status = "needs_reauth" /\ acct'[a].cred = NoToken
        /\ acct'[a].sel = acct[a].sel
        /\ \A b \in Accounts : b # a => acct'[b] = acct[b]
    BY <1>8, <2>1, SoloFacts DEF MarkNeedsReauth, Doc
  <2>3. acct[a].status = "active"
    BY <2>1 DEF Solo, AccountsInv, StatusMatchesCredential
  <2>4. SnapshotOK(req[r])'
    BY <2>1 DEF SnapshotOK
  <2>5. MissingAreAbsent'
    BY <2>2, SoloFacts DEF MissingAreAbsent
  <2>6. CurrentBut(req[r])'
    BY <2>1, <2>2, SoloFacts DEF CurrentBut, Current
  <2>7. BookStep
    <3>1. /\ DefaultOf(r) = dflt
          /\ \A b \in Accounts : /\ InBook(r, b) <=> acct[b].exists
                                 /\ Works(r, b) <=> acct[b].status = "active"
                                 /\ Chosen(r, b) = acct[b].sel
      BY <2>1, ClosedStages DEF OpenStages
    <3>2. /\ DefaultOf(r)' = dflt'
          /\ \A b \in Accounts : /\ InBook(r, b)' <=> acct'[b].exists
                                 /\ Works(r, b)' <=> acct'[b].status = "active"
                                 /\ Chosen(r, b)' = acct'[b].sel
      BY <2>1, ClosedAfter DEF OpenStages
    <3> HIDE DEF a
    <3> QED BY <2>1, <2>2, <2>3, <3>1, <3>2, BookFails DEF Solo
  <2> QED BY <2>4, <2>5, <2>6, <2>7 DEF Sound
<1> QED BY <1>1, <1>2, <1>3, <1>4, <1>5, <1>6, <1>7, <1>8 DEF Mint

LEMMA SoloSelect ==
    ASSUME NEW r \in Requests, Solo(r), Select(r)
    PROVE  Sound(r)
<1>1. ASSUME NEW a \in Accounts, NEW S \in SUBSET Calendars, SelectRead(r, a, S)
      PROVE  Sound(r)
  <2>1. /\ req[r].pc = "idle" /\ req'[r].pc = "selecting"
        /\ UNCHANGED <<acct, dflt, grant>>
    BY <1>1, SoloFacts DEF SelectRead, At, Put, Idle
  <2>2. SnapshotOK(req[r])'
    BY <2>1 DEF SnapshotOK
  <2> QED BY <2>1, <2>2, SoloQuiet, SameGrants DEF OpenStages
<1>2. CASE SelectWrite(r)
  <2> DEFINE a == req[r].acct
             S == req[r].sel
  <2>1. /\ req[r].pc = "selecting" /\ req'[r].pc = "idle" /\ UNCHANGED <<dflt, grant>>
        /\ a \in Accounts /\ acct[a].exists /\ S \in SUBSET Calendars
    BY <1>2, SoloFacts, NullRecords DEF SelectWrite, At, Put, Return, HandlerOK, StageOK, Request
  <2>2. /\ acct'[a].exists /\ acct'[a].status = acct[a].status
        /\ acct'[a].cred = acct[a].cred /\ acct'[a].sel = S
        /\ \A b \in Accounts : b # a => acct'[b] = acct[b]
    BY <1>2, <2>1, SoloFacts DEF SelectWrite, Doc
  <2>3. SnapshotOK(req[r])'
    BY <2>1 DEF SnapshotOK
  <2>4. MissingAreAbsent'
    BY <2>2, SoloFacts DEF MissingAreAbsent
  <2>5. CurrentBut(req[r])'
    BY <2>1, <2>2, SoloFacts DEF CurrentBut, Current
  <2>6. BookStep
    <3>1. /\ DefaultOf(r) = dflt
          /\ \A b \in Accounts : /\ InBook(r, b) <=> acct[b].exists
                                 /\ Works(r, b) <=> acct[b].status = "active"
                                 /\ Chosen(r, b) = acct[b].sel
      BY <2>1, ClosedStages DEF OpenStages
    <3>2. /\ DefaultOf(r)' = dflt'
          /\ \A b \in Accounts : /\ InBook(r, b)' <=> acct'[b].exists
                                 /\ Works(r, b)' <=> acct'[b].status = "active"
                                 /\ Chosen(r, b)' = acct'[b].sel
      BY <2>1, ClosedAfter DEF OpenStages
    <3> HIDE DEF a, S
    <3> QED BY <2>1, <2>2, <3>1, <3>2, BookChooses DEF Solo
  <2> QED BY <2>3, <2>4, <2>5, <2>6 DEF Sound
<1> QED BY <1>1, <1>2 DEF Select

LEMMA SoloDisconnect ==
    ASSUME NEW r \in Requests, Solo(r), Disconnect(r)
    PROVE  Sound(r)
<1> DEFINE a == req[r].acct
<1>1. ASSUME NEW b \in Accounts, DisconnectRead(r, b) PROVE Sound(r)
  <2> DEFINE q == [Idle EXCEPT !.pc = IF acct[b].cred # NoToken
                                         THEN "revoking" ELSE "deleting",
                               !.acct = b, !.cred = acct[b].cred, !.sel = acct[b].sel]
  <2>1. /\ q.pc \in {"revoking", "deleting"} /\ q.acct = b
        /\ q.cred = acct[b].cred /\ q.sel = acct[b].sel
    BY DEF Idle
  <2>2. /\ req[r].pc = "idle" /\ acct[b].exists /\ Put(r, q)
        /\ UNCHANGED <<acct, dflt, grant>>
    BY <1>1 DEF DisconnectRead, At
  <2> HIDE DEF q
  <2>3. /\ req'[r].pc \in {"revoking", "deleting"} /\ req'[r].acct = b
        /\ req'[r].cred = acct[b].cred /\ req'[r].sel = acct[b].sel
    BY <2>1, <2>2, SoloFacts DEF Put
  <2>4. SnapshotOK(req[r])'
    BY <2>2, <2>3 DEF SnapshotOK
  <2> QED BY <2>2, <2>3, <2>4, SoloQuiet, SameGrants DEF OpenStages
<1>2. CASE Revoke(r)
  <2>1. /\ req[r].pc = "revoking" /\ req'[r].pc = "deleting" /\ req'[r].acct = a
        /\ req'[r].cred = req[r].cred /\ req'[r].sel = req[r].sel
        /\ UNCHANGED <<acct, dflt>>
    BY <1>2, SoloFacts DEF Revoke, At, Put, Move, Request
  <2>2. \A t \in Tokens : grant'[t] = grant[t] \/ owner[t] = a
    BY <1>2, SoloFacts DEF Revoke
  <2>3. SnapshotOK(req[r])'
    BY <2>1, SoloFacts DEF SnapshotOK
  <2>4. ASSUME NEW b \in Accounts, acct[b].cred # NoToken, b # a
        PROVE  Current(acct[b].cred)'
    <3>1. acct[b].cred \in Tokens /\ owner[acct[b].cred] = b
      BY <2>4, SoloFacts DEF Doc, Solo, AccountsInv, CredentialBelongs
    <3>2. Current(acct[b].cred)
      BY <2>1, <2>4, SoloFacts DEF CurrentBut
    <3> QED BY <2>1, <2>2, <2>4, <3>1, <3>2 DEF Current
  <2>5. CurrentBut(req[r])'
    BY <2>1, <2>4 DEF CurrentBut
  <2>6. MissingAreAbsent'
    BY <2>1, SoloFacts DEF MissingAreAbsent
  <2>7. BookStep
    BY <2>1, ClosedStages, ClosedAfter, BookSame DEF Solo, OpenStages
  <2> QED BY <2>3, <2>5, <2>6, <2>7 DEF Sound
<1>3. CASE Delete(r)
  <2>1. /\ req[r].pc = "deleting" /\ req'[r].pc = "undefaulting" /\ req'[r].acct = a
        /\ req'[r].cred = req[r].cred /\ req'[r].sel = req[r].sel
        /\ acct' = [acct EXCEPT ![a] = Absent] /\ UNCHANGED <<dflt, grant>>
        /\ a \in Accounts
    BY <1>3, SoloFacts DEF Delete, At, Put, Move, Request, HandlerOK
  <2>2. /\ acct'[a] = Absent /\ \A b \in Accounts : b # a => acct'[b] = acct[b]
    BY <2>1, SoloFacts
  <2>3. /\ acct[a].exists /\ req[r].cred = acct[a].cred /\ req[r].sel = acct[a].sel
        /\ (acct[a].status = "active") <=> (req[r].cred # NoToken)
    BY <2>1, SoloFacts DEF SnapshotOK, Solo, AccountsInv, StatusMatchesCredential
  <2>4. ~Absent.exists /\ Absent.status # "active" /\ Absent.sel = {} /\ Absent.cred = NoToken
    BY DEF Absent
  <2>5. SnapshotOK(req[r])'
    BY <2>1, <2>2 DEF SnapshotOK
  <2>6. MissingAreAbsent'
    BY <2>2, SoloFacts DEF MissingAreAbsent
  <2>7. CurrentBut(req[r])'
    BY <2>1, <2>2, <2>4, SoloFacts DEF CurrentBut, Current
  <2>8. /\ DefaultOf(r) = dflt
        /\ \A b \in Accounts : /\ InBook(r, b) <=> acct[b].exists
                               /\ Works(r, b) <=> acct[b].status = "active"
                               /\ Chosen(r, b) = acct[b].sel
    BY <2>1, ClosedStages DEF OpenStages
  <2>9. /\ DefaultOf(r)' = dflt
        /\ \A b \in Accounts :
              LET left == b = a /\ dflt = a IN
              /\ InBook(r, b)' <=> acct'[b].exists \/ left
              /\ Works(r, b)' <=> acct'[b].status = "active" \/ (left /\ req[r].cred # NoToken)
              /\ Chosen(r, b)' = IF left THEN acct'[b].sel \cup req[r].sel ELSE acct'[b].sel
    BY <2>1 DEF InBook, Works, Chosen, DefaultOf, Leaving, Arriving
  <2> HIDE DEF a
  <2>10. CASE dflt = a
    <3>1. ASSUME NEW b \in Accounts
          PROVE  /\ InBook(r, b)' <=> InBook(r, b)
                 /\ Works(r, b)' <=> Works(r, b)
                 /\ Chosen(r, b)' = Chosen(r, b)
      <4>1. CASE b = a
        BY <2>2, <2>3, <2>4, <2>8, <2>9, <2>10, <4>1
      <4>2. CASE b # a
        BY <2>2, <2>8, <2>9, <4>2
      <4> QED BY <4>1, <4>2
    <3>2. BookStep
      BY <2>8, <2>9, <3>1, BookSame DEF Solo
    <3> QED BY <2>5, <2>6, <2>7, <3>2 DEF Sound
  <2>11. CASE dflt # a
    <3>1. BookStep
      BY <2>1, <2>2, <2>3, <2>4, <2>8, <2>9, <2>11, BookDisconnects DEF Solo
    <3> QED BY <2>5, <2>6, <2>7, <3>1 DEF Sound
  <2> QED BY <2>10, <2>11
<1>4. CASE DeleteReadDefault(r)
  <2>1. /\ req[r].pc = "undefaulting" /\ UNCHANGED <<acct, dflt, grant>>
        /\ \/ /\ dflt = a /\ req'[r].pc = "relisting" /\ req'[r].acct = a
              /\ req'[r].cred = req[r].cred /\ req'[r].sel = req[r].sel
           \/ dflt # a /\ req'[r].pc = "idle"
    BY <1>4, SoloFacts, NullRecords DEF DeleteReadDefault, At, Put, Move, Return, Request
  <2>2. SnapshotOK(req[r])'
    BY <2>1, SoloFacts DEF SnapshotOK
  <2>3. CurrentBut(req[r])' /\ MissingAreAbsent'
    BY <2>1, CurrentKept, SameGrants, SoloFacts DEF MissingAreAbsent
  <2>4. BookStep
    BY <2>1, BookSame
    DEF Solo, InBook, Works, Chosen, DefaultOf, Leaving, Arriving
  <2> QED BY <2>2, <2>3, <2>4 DEF Sound
<1>5. CASE DeleteListRemaining(r)
  <2>1. ~ListRaises
    BY SoloFacts DEF EveryAccountReadable, ListRaises
  <2>2. PICK b : Put(r, [req[r] EXCEPT !.pc = "promoting", !.next = b])
    BY <1>5, <2>1 DEF DeleteListRemaining
  <2> DEFINE q == [req[r] EXCEPT !.pc = "promoting", !.next = b]
  <2>3. /\ q.pc = "promoting" /\ q.acct = a /\ q.cred = req[r].cred /\ q.sel = req[r].sel
    BY SoloFacts DEF Request
  <2> HIDE DEF q
  <2>4. req'[r] = q
    BY <2>2, SoloFacts DEF Put, q
  <2>5. req[r].pc = "relisting" /\ UNCHANGED <<acct, dflt, grant>>
    BY <1>5 DEF DeleteListRemaining, At
  <2>6. SnapshotOK(req[r])'
    BY <2>3, <2>4, <2>5, SoloFacts DEF SnapshotOK
  <2>7. CurrentBut(req[r])' /\ MissingAreAbsent'
    BY <2>5, CurrentKept, SameGrants, SoloFacts DEF MissingAreAbsent
  <2>8. BookStep
    BY <2>3, <2>4, <2>5, BookSame
    DEF Solo, InBook, Works, Chosen, DefaultOf, Leaving, Arriving
  <2> QED BY <2>6, <2>7, <2>8 DEF Sound
<1>6. CASE DeletePromote(r)
  <2> DEFINE n == req[r].next
  <2>1. /\ req[r].pc = "promoting" /\ req'[r].pc = "idle" /\ UNCHANGED <<acct, grant>>
        /\ dflt = a /\ dflt' = n /\ a \in Accounts /\ acct[a] = Absent
        /\ n \in Connected \/ (n = NoAccount /\ Connected = {})
    BY <1>6, SoloFacts, NullRecords
    DEF DeletePromote, At, Put, Return, HandlerOK, SnapshotOK, StageOK
  <2>2. SnapshotOK(req[r])'
    BY <2>1 DEF SnapshotOK
  <2>3. CurrentBut(req[r])' /\ MissingAreAbsent'
    BY <2>1, CurrentKept, SameGrants, SoloFacts DEF MissingAreAbsent
  <2>4. ~Absent.exists /\ Absent.status # "active" /\ Absent.sel = {}
    BY DEF Absent
  <2>5. /\ DefaultOf(r) = a
        /\ \A b \in Accounts :
              /\ InBook(r, b) <=> acct[b].exists \/ b = a
              /\ b # a => (Works(r, b) <=> acct[b].status = "active")
              /\ b # a => Chosen(r, b) = acct[b].sel
    BY <2>1 DEF InBook, Works, Chosen, DefaultOf, Leaving, Arriving
  <2>6. /\ DefaultOf(r)' = n
        /\ \A b \in Accounts : /\ InBook(r, b)' <=> acct[b].exists
                               /\ Works(r, b)' <=> acct[b].status = "active"
                               /\ Chosen(r, b)' = acct[b].sel
    BY <2>1, ClosedAfter DEF OpenStages
  <2> HIDE DEF a, n
  <2>7. \/ DefaultOf(r)' \in Accounts /\ InBook(r, DefaultOf(r))'
        \/ DefaultOf(r)' = NoAccount /\ \A b \in Accounts : ~InBook(r, b)'
    BY <2>1, <2>6 DEF Connected
  <2>8. BookStep
    BY <2>1, <2>4, <2>5, <2>6, <2>7, BookDisconnects DEF Solo
  <2> QED BY <2>2, <2>3, <2>8 DEF Sound
<1> QED BY <1>1, <1>2, <1>3, <1>4, <1>5, <1>6 DEF Disconnect

LEMMA SoloLapse ==
    ASSUME NEW r \in Requests, Solo(r), NEW a \in Accounts, Lapse(a)
    PROVE  Sound(r)
<1>1. /\ UNCHANGED <<acct, dflt, req>>
      /\ \A t \in Tokens : grant'[t] = grant[t] \/ grant'[t] = "lapsed"
  BY DEF Lapse
<1>2. GrantsKept
  BY <1>1 DEF GrantsKept, Current
<1>3. SnapshotOK(req[r])'
  <2>1. HandlerOK(req[r], owner)
    BY SoloFacts
  <2>2. req[r].pc \in {"listing", "saving", "merging", "marking"} => req[r].cred \in Tokens
    BY SoloFacts DEF HandlerOK, SnapshotOK, Request
  <2> QED BY <1>1, <1>2, <2>1, <2>2, SoloFacts DEF SnapshotOK, GrantsKept, Current
<1>4. CurrentBut(req[r])' /\ MissingAreAbsent'
  BY <1>1, <1>2, CurrentKept, SoloFacts DEF MissingAreAbsent
<1>5. BookStep
  BY <1>1, BookSame DEF Solo, InBook, Works, Chosen, DefaultOf, Leaving, Arriving
<1> QED BY <1>3, <1>4, <1>5 DEF Sound

LEMMA SoloStutter ==
    ASSUME NEW r \in Requests, Solo(r), UNCHANGED vars
    PROVE  Sound(r)
<1>1. UNCHANGED <<acct, dflt, grant, req>>
  BY DEF vars
<1>2. SnapshotOK(req[r])' /\ CurrentBut(req[r])' /\ MissingAreAbsent'
  BY <1>1, SoloFacts DEF SnapshotOK, CurrentBut, Current, MissingAreAbsent
<1>3. BookStep
  BY <1>1, BookSame DEF Solo, InBook, Works, Chosen, DefaultOf, Leaving, Arriving
<1> QED BY <1>2, <1>3 DEF Sound

LEMMA SoloNext ==
    ASSUME NEW r \in Requests, Solo(r), CanCrash = FALSE, [Next]_vars
    PROVE  Sound(r)
<1>1. ASSUME NEW s \in Requests,
             Connect(s) \/ Save(s) \/ Mint(s) \/ Disconnect(s) \/ Select(s)
      PROVE  Sound(r)
  <2>1. s = r
    BY DEF Solo
  <2> QED BY <1>1, <2>1, SoloConnect, SoloSave, SoloMint, SoloDisconnect, SoloSelect
<1>2. ASSUME NEW s \in Requests, Crash(s) PROVE Sound(r)
  BY <1>2 DEF Crash
<1>3. CASE UNCHANGED vars
  BY <1>3, SoloStutter
<1> QED BY <1>1, <1>2, <1>3, SoloLapse DEF Next

\* The inductive invariant of one request at a time: a snapshot taken before an
\* await is still true after it.
THEOREM SoloInvariant ==
    ASSUME NEW only \in Requests, Requests = {only}, CanCrash = FALSE
    PROVE  Spec => [](AccountsInv /\ SoloInv)
<1> DEFINE Facts == /\ MissingAreAbsent
                    /\ SnapshotOK(req[only]) /\ CurrentBut(req[only])
<1>1. Init => Facts
  BY NullRecords DEF Init, MissingAreAbsent, SnapshotOK, CurrentBut, Absent
<1>2. AccountsInv /\ SerialInv /\ Facts => SoloInv
  BY DEF SoloInv
<1>3. AccountsInv /\ SerialInv /\ Facts /\ [Next]_vars => Facts'
  BY <1>2, SoloNext DEF Solo, Sound
<1> HIDE DEF Facts
<1> QED BY <1>1, <1>2, <1>3, SerialInvariant, PTL DEF Spec

\* One request at a time, the handlers implement the book: each of their steps
\* is one whole operation of it or changes nothing that it shows.
THEOREM ImplementsTheBook ==
    ASSUME NEW only \in Requests, Requests = {only}, CanCrash = FALSE
    PROVE  Spec => ImplementsBook
<1>1. Init => Book!Init
  <2> SUFFICES ASSUME Init PROVE Book!Init
    OBVIOUS
  <2>1. BookIs(only) /\ ~Arriving(only) /\ \A a \in Accounts : ~Leaving(only, a)
    BY BookOfOne, NullRecords DEF Init, Arriving, Leaving
  <2> QED BY <2>1 DEF BookIs, Init, InBook, Works, Chosen, DefaultOf, Book!Init, Absent
<1>2. AccountsInv /\ SoloInv /\ [Next]_vars => [Book!Next]_Book!bookVars
  BY SoloNext DEF Solo, Sound, BookStep
<1> QED BY <1>1, <1>2, SoloInvariant, PTL DEF Spec, ImplementsBook, Book!Spec

\* Between requests that come one at a time, every stored credential is the
\* latest that the provider issued, neither replaced nor revoked.
THEOREM SerialCredentialCurrent ==
    ASSUME NEW only \in Requests, Requests = {only}, CanCrash = FALSE
    PROVE  Spec => []StoredCredentialCurrent
<1>1. AccountsInv /\ SoloInv => StoredCredentialCurrent
  BY DEF SoloInv, CurrentBut, Current, StoredCredentialCurrent, Quiescent, At
<1> QED BY <1>1, SoloInvariant, PTL

\* The steps that take a credential out of a document, or write another.
LEMMA CredentialSteps ==
    ASSUME NEW r \in Requests, Solo(r), CanCrash = FALSE, Next, NEW a \in Accounts,
           acct'[a].cred # acct[a].cred
    PROVE  a = req[r].acct /\ (SaveWrite(r) \/ MarkNeedsReauth(r) \/ Delete(r))
<1>1. acct' # acct
  OBVIOUS
<1>2. \A s \in Requests : s = r
  BY DEF Solo
<1>3. SaveWrite(r) \/ MarkNeedsReauth(r) \/ Delete(r) \/ SelectWrite(r)
  BY <1>1, <1>2
  DEF Next, Connect, ExchangeCode, ListCalendars, ListingFails,
      Save, SaveRead, SaveReadDefault, SaveClaimDefault,
      Mint, MintFor, MintForDefault, MintReadDefault, MintRead, Refresh, RefreshRotates,
      RefreshDead, RefreshFails, Disconnect, DisconnectRead, Revoke, DeleteReadDefault,
      DeleteListRemaining, DeletePromote, Select, SelectRead, Crash, Lapse
<1>4. ~SelectWrite(r)
  BY SoloFacts DEF SelectWrite, Doc
<1>5. a = req[r].acct
  BY <1>3, <1>4, SoloFacts DEF SaveWrite, MarkNeedsReauth, Delete, Doc
<1> QED BY <1>3, <1>4, <1>5

\* With requests one at a time, a credential dropped for good had been declared
\* dead by the provider.
THEOREM SerialDroppedIsDead ==
    ASSUME NEW only \in Requests, Requests = {only}, CanCrash = FALSE
    PROVE  Spec => DroppedCredentialIsDead
<1> DEFINE Dead == \A a \in Accounts :
                     /\ acct[a].cred # NoToken
                     /\ acct'[a].exists /\ acct'[a].cred = NoToken
                     => grant[acct[a].cred] # "live"
<1>1. ASSUME AccountsInv, SoloInv, Next PROVE Dead
  <2> SUFFICES ASSUME NEW a \in Accounts, acct[a].cred # NoToken, acct'[a].exists,
                      acct'[a].cred = NoToken
               PROVE  grant[acct[a].cred] # "live"
    OBVIOUS
  <2>1. Solo(only)
    BY <1>1 DEF Solo
  <2>2. /\ a = req[only].acct
        /\ SaveWrite(only) \/ MarkNeedsReauth(only) \/ Delete(only)
    BY <1>1, <2>1, CredentialSteps
  <2>3. CASE SaveWrite(only)
    <3>1. acct'[a].cred = req[only].cred /\ req[only].cred \in Tokens
      BY <2>1, <2>2, <2>3, SoloFacts DEF SaveWrite, At, HandlerOK
    <3> QED BY <3>1, NullsAreNulls
  <2>4. CASE MarkNeedsReauth(only)
    BY <2>1, <2>2, <2>4, SoloFacts DEF MarkNeedsReauth, At, SnapshotOK
  <2>5. CASE Delete(only)
    BY <2>1, <2>2, <2>5, SoloFacts DEF Delete, Absent
  <2> QED BY <2>2, <2>3, <2>4, <2>5
<1>2. ASSUME UNCHANGED vars PROVE Dead
  BY <1>2 DEF vars
<1>3. AccountsInv /\ SoloInv /\ [Next]_vars => [Dead]_vars
  BY <1>1, <1>2
<1> QED BY <1>3, SoloInvariant, PTL DEF Spec, DroppedCredentialIsDead

\* With requests one at a time, connecting again or rotating a token keeps the
\* calendars that the user had selected.
THEOREM SerialSelectionSurvives ==
    ASSUME NEW only \in Requests, Requests = {only}, CanCrash = FALSE
    PROVE  Spec => ChosenSelectionSurvives
<1> DEFINE Kept == \A a \in Accounts :
                     /\ acct[a].exists /\ acct'[a].exists
                     /\ acct'[a].cred # acct[a].cred
                     /\ acct'[a].status = "active"
                     /\ acct[a].sel # {}
                     => acct'[a].sel = acct[a].sel \cap acct'[a].cals
<1>1. ASSUME AccountsInv, SoloInv, Next PROVE Kept
  <2> SUFFICES ASSUME NEW a \in Accounts, acct'[a].exists, acct'[a].cred # acct[a].cred,
                      acct'[a].status = "active", acct[a].sel # {}
               PROVE  acct'[a].sel = acct[a].sel \cap acct'[a].cals
    OBVIOUS
  <2>1. Solo(only)
    BY <1>1 DEF Solo
  <2>2. /\ a = req[only].acct
        /\ SaveWrite(only) \/ MarkNeedsReauth(only) \/ Delete(only)
    BY <1>1, <2>1, CredentialSteps
  <2>3. CASE SaveWrite(only)
    <3>1. /\ acct'[a].sel = Merged(req[only]) /\ acct'[a].cals = req[only].cals
          /\ req[only].keep = acct[a].sel
      BY <2>1, <2>2, <2>3, SoloFacts DEF SaveWrite, At, SnapshotOK
    <3> QED BY <3>1 DEF Merged
  <2>4. CASE MarkNeedsReauth(only)
    BY <2>1, <2>2, <2>4, SoloFacts DEF MarkNeedsReauth, Doc
  <2>5. CASE Delete(only)
    BY <2>1, <2>2, <2>5, SoloFacts DEF Delete, Absent
  <2> QED BY <2>2, <2>3, <2>4, <2>5
<1>2. ASSUME UNCHANGED vars PROVE Kept
  BY <1>2 DEF vars
<1>3. AccountsInv /\ SoloInv /\ [Next]_vars => [Kept]_vars
  BY <1>1, <1>2
<1> QED BY <1>3, SoloInvariant, PTL DEF Spec, ChosenSelectionSurvives

=============================================================================
