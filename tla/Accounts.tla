------------------------------ MODULE Accounts ------------------------------
(***************************************************************************)
(* The connected calendar accounts of one user.                            *)
(*                                                                         *)
(* Two services run these handlers against one Firestore database: the     *)
(* public app (connect, select, disconnect) and the agent-facing internal  *)
(* service (access-token, disconnect).  Every await on Firestore or on the *)
(* provider is a step of its own, because another request may run there;   *)
(* what a handler read before an await it keeps in its own record.         *)
(***************************************************************************)
EXTENDS Naturals, FiniteSets

CONSTANTS
    Requests,       \* handler slots: how many requests may be in flight
    Accounts,       \* provider accounts this user may connect
    Calendars,      \* calendars a provider account may list
    ByDefault,      \* those of them that are selected unless the user chose
    Tokens,         \* refresh tokens the provider may issue (bounds a run)
    Operations,     \* which endpoints the clients call
    CanCrash,       \* may a handler stop between two awaits?
    NoAccount, NoToken

ASSUME ByDefaultIsCalendars == ByDefault \subseteq Calendars
ASSUME NullsAreNulls == NoAccount \notin Accounts /\ NoToken \notin Tokens
ASSUME OperationsAreEndpoints ==
    Operations \subseteq {"connect", "mint", "select", "disconnect"}
ASSUME CanCrashIsBoolean == CanCrash \in BOOLEAN

VARIABLES
    acct,       \* users/{user}/connected_accounts/{a}
    dflt,       \* users/{user}.default_account_id
    grant,      \* provider side: what became of each refresh token
    owner,      \* provider side: the account each refresh token is for
    req         \* what each handler holds, and where it stands

vars == <<acct, dflt, grant, owner, req>>

-----------------------------------------------------------------------------

(***************************************************************************)
(* A document is written field by field with merge=True, so one may exist  *)
(* without the fields ConnectedAccount.from_dict insists on: bound says    *)
(* that provider and provider_account_id are there.                        *)
(***************************************************************************)
Doc == [exists : BOOLEAN, bound : BOOLEAN,
        status : {"unset", "active", "needs_reauth"},
        cred : Tokens \cup {NoToken},
        cals : SUBSET Calendars, sel : SUBSET Calendars]

Absent == [exists |-> FALSE, bound |-> FALSE, status |-> "unset",
           cred |-> NoToken, cals |-> {}, sel |-> {}]

Stages == {"idle", "listing", "saving", "merging", "defaulting", "claiming",
           "mint_default", "reading", "refreshing", "marking",
           "revoking", "deleting", "undefaulting", "relisting", "promoting",
           "selecting"}

Request == [pc : Stages, acct : Accounts \cup {NoAccount},
            cred : Tokens \cup {NoToken}, cals : SUBSET Calendars,
            sel : SUBSET Calendars, keep : SUBSET Calendars,
            next : Accounts \cup {NoAccount}]

Idle == [pc |-> "idle", acct |-> NoAccount, cred |-> NoToken, cals |-> {},
         sel |-> {}, keep |-> {}, next |-> NoAccount]

Connected == {a \in Accounts : acct[a].exists}

\* from_dict raises KeyError on a document without its provider fields.
Readable(d) == d.exists => d.bound

\* ConnectedAccount.is_usable, for a document that exists.
Usable(d) == d.status = "active" /\ d.cred # NoToken

\* Listing the user's accounts raises as soon as one document is unreadable.
ListRaises == \E a \in Accounts : ~Readable(acct[a])

At(r, stage) == req[r].pc = stage

Put(r, q) == req' = [req EXCEPT ![r] = q]

Move(r, stage) == Put(r, [req[r] EXCEPT !.pc = stage])

Return(r) == Put(r, Idle)

-----------------------------------------------------------------------------
(* Connecting an account: the OAuth callback, after the nonce is consumed. *)

(***************************************************************************)
(* The authorization code is exchanged: from here on the provider has a    *)
(* live grant that nothing on our side records yet.                        *)
(***************************************************************************)
ExchangeCode(r, a, t) ==
    /\ "connect" \in Operations
    /\ At(r, "idle")
    /\ grant[t] = "unissued"
    /\ grant' = [grant EXCEPT ![t] = "live"]
    /\ owner' = [owner EXCEPT ![t] = a]
    /\ Put(r, [Idle EXCEPT !.pc = "listing", !.acct = a, !.cred = t])
    /\ UNCHANGED <<acct, dflt>>

\* An account without calendars is refused, so found is never empty.
ListCalendars(r, found) ==
    /\ At(r, "listing")
    /\ found # {}
    /\ Put(r, [req[r] EXCEPT !.pc = "saving", !.cals = found,
                             !.sel = found \cap ByDefault])
    /\ UNCHANGED <<acct, dflt, grant, owner>>

\* ConnectFailed: the calendar list could not be read, nothing is stored.
ListingFails(r) ==
    /\ At(r, "listing")
    /\ Return(r)
    /\ UNCHANGED <<acct, dflt, grant, owner>>

(***************************************************************************)
(* AccountRepository.save, shared by the callback and by a token rotation: *)
(* read the document, merge the new fields over it, then give the user a   *)
(* default account if there is none.                                       *)
(***************************************************************************)
SaveRead(r) ==
    /\ At(r, "saving")
    /\ Put(r, [req[r] EXCEPT !.pc = "merging", !.keep = acct[req[r].acct].sel])
    /\ UNCHANGED <<acct, dflt, grant, owner>>

\* Faulty: the provider's preselection written over the user's.
MergedAnew(q) == q.sel

\* The selection saved: what was selected before, if anything was.
Merged(q) == IF q.keep # {} THEN q.cals \cap q.keep ELSE q.sel

SaveWrite(r) ==
    /\ At(r, "merging")
    /\ acct' = [acct EXCEPT ![req[r].acct] =
                   [exists |-> TRUE, bound |-> TRUE, status |-> "active",
                    cred |-> req[r].cred, cals |-> req[r].cals,
                    sel |-> Merged(req[r])]]
    /\ Move(r, "defaulting")
    /\ UNCHANGED <<dflt, grant, owner>>

SaveReadDefault(r) ==
    /\ At(r, "defaulting")
    /\ IF dflt = NoAccount THEN Move(r, "claiming") ELSE Return(r)
    /\ UNCHANGED <<acct, dflt, grant, owner>>

SaveClaimDefault(r) ==
    /\ At(r, "claiming")
    /\ dflt' = req[r].acct
    /\ Return(r)
    /\ UNCHANGED <<acct, grant, owner>>

-----------------------------------------------------------------------------
(* Minting an access token for the agent. *)

MintFor(r, a) ==
    /\ "mint" \in Operations
    /\ At(r, "idle")
    /\ Put(r, [Idle EXCEPT !.pc = "reading", !.acct = a])
    /\ UNCHANGED <<acct, dflt, grant, owner>>

\* No account named: the user's default account is looked up first.
MintForDefault(r) ==
    /\ "mint" \in Operations
    /\ At(r, "idle")
    /\ Move(r, "mint_default")
    /\ UNCHANGED <<acct, dflt, grant, owner>>

MintReadDefault(r) ==
    /\ At(r, "mint_default")
    /\ IF dflt = NoAccount
         THEN Return(r)                                   \* NotConnected
         ELSE Put(r, [req[r] EXCEPT !.pc = "reading", !.acct = dflt])
    /\ UNCHANGED <<acct, dflt, grant, owner>>

\* Faulty: the default account's credential used when the one asked for has none.
MintReadAny(r) ==
    /\ At(r, "reading")
    /\ LET a == IF acct[req[r].acct].cred = NoToken /\ dflt # NoAccount
                  THEN dflt ELSE req[r].acct IN
       IF acct[a].exists /\ acct[a].bound /\ Usable(acct[a])
         THEN Put(r, [req[r] EXCEPT !.pc = "refreshing", !.cred = acct[a].cred,
                                    !.cals = acct[a].cals, !.sel = acct[a].sel])
         ELSE Return(r)
    /\ UNCHANGED <<acct, dflt, grant, owner>>

\* NotConnected, ReauthRequired and a from_dict failure all end the call.
MintRead(r) ==
    /\ At(r, "reading")
    /\ LET d == acct[req[r].acct] IN
       IF d.exists /\ d.bound /\ Usable(d)
         THEN Put(r, [req[r] EXCEPT !.pc = "refreshing", !.cred = d.cred,
                                    !.cals = d.cals, !.sel = d.sel])
         ELSE Return(r)
    /\ UNCHANGED <<acct, dflt, grant, owner>>

\* The provider hands out an access token and keeps the refresh token.
Refresh(r) ==
    /\ At(r, "refreshing")
    /\ grant[req[r].cred] = "live"
    /\ Return(r)
    /\ UNCHANGED <<acct, dflt, grant, owner>>

\* Faulty: a rotation that is not saved.
RefreshForgets(r, t) ==
    /\ At(r, "refreshing")
    /\ grant[req[r].cred] = "live"
    /\ grant[t] = "unissued"
    /\ grant' = [grant EXCEPT ![req[r].cred] = "rotated", ![t] = "live"]
    /\ owner' = [owner EXCEPT ![t] = owner[req[r].cred]]
    /\ Return(r)
    /\ UNCHANGED <<acct, dflt>>

(***************************************************************************)
(* The provider rotates the refresh token: the old one is dead from now    *)
(* on, and the new one is saved with the calendars read before the call.   *)
(***************************************************************************)
RefreshRotates(r, t) ==
    /\ At(r, "refreshing")
    /\ grant[req[r].cred] = "live"
    /\ grant[t] = "unissued"
    /\ grant' = [grant EXCEPT ![req[r].cred] = "rotated", ![t] = "live"]
    /\ owner' = [owner EXCEPT ![t] = owner[req[r].cred]]
    /\ Put(r, [req[r] EXCEPT !.pc = "saving", !.cred = t])
    /\ UNCHANGED <<acct, dflt>>

\* invalid_grant: NeedsReauth.
RefreshDead(r) ==
    /\ At(r, "refreshing")
    /\ grant[req[r].cred] # "live"
    /\ Move(r, "marking")
    /\ UNCHANGED <<acct, dflt, grant, owner>>

\* Faulty: any failure taken for a dead grant.
RefreshFailsDead(r) ==
    /\ At(r, "refreshing")
    /\ Move(r, "marking")
    /\ UNCHANGED <<acct, dflt, grant, owner>>

\* Any other provider or KMS failure: the call fails and changes nothing.
RefreshFails(r) ==
    /\ At(r, "refreshing")
    /\ Return(r)
    /\ UNCHANGED <<acct, dflt, grant, owner>>

\* Faulty: the account flagged, its credential kept.
MarkKeepsCredential(r) ==
    /\ At(r, "marking")
    /\ acct' = [acct EXCEPT ![req[r].acct].exists = TRUE,
                            ![req[r].acct].status = "needs_reauth"]
    /\ Return(r)
    /\ UNCHANGED <<dflt, grant, owner>>

(***************************************************************************)
(* mark_needs_reauth merges two fields without looking: a document that    *)
(* was deleted meanwhile comes back with those fields only, and one that   *)
(* was reconnected meanwhile loses its new credential.                     *)
(***************************************************************************)
MarkNeedsReauth(r) ==
    /\ At(r, "marking")
    /\ acct' = [acct EXCEPT ![req[r].acct].exists = TRUE,
                            ![req[r].acct].status = "needs_reauth",
                            ![req[r].acct].cred = NoToken]
    /\ Return(r)
    /\ UNCHANGED <<dflt, grant, owner>>

-----------------------------------------------------------------------------
(* Disconnecting. *)

\* A missing account is a 404 and an unreadable one a 500: neither acts.
DisconnectRead(r, a) ==
    /\ "disconnect" \in Operations
    /\ At(r, "idle")
    /\ acct[a].exists /\ acct[a].bound
    /\ Put(r, [Idle EXCEPT !.pc = IF acct[a].cred # NoToken
                                     THEN "revoking" ELSE "deleting",
                            !.acct = a, !.cred = acct[a].cred,
                            !.sel = acct[a].sel])
    /\ UNCHANGED <<acct, dflt, grant, owner>>

\* Revocation ends every token of the grant; failing it is only logged.
Revoke(r) ==
    /\ At(r, "revoking")
    /\ \/ grant' = [t \in Tokens |->
                      IF owner[t] = req[r].acct /\ grant[t] = "live"
                        THEN "revoked" ELSE grant[t]]
       \/ UNCHANGED grant
    /\ Move(r, "deleting")
    /\ UNCHANGED <<acct, dflt, owner>>

Delete(r) ==
    /\ At(r, "deleting")
    /\ acct' = [acct EXCEPT ![req[r].acct] = Absent]
    /\ Move(r, "undefaulting")
    /\ UNCHANGED <<dflt, grant, owner>>

\* Faulty: the default left pointing at the account that is gone.
DeleteKeepsDefault(r) ==
    /\ At(r, "undefaulting")
    /\ Return(r)
    /\ UNCHANGED <<acct, dflt, grant, owner>>

DeleteReadDefault(r) ==
    /\ At(r, "undefaulting")
    /\ IF dflt = req[r].acct THEN Move(r, "relisting") ELSE Return(r)
    /\ UNCHANGED <<acct, dflt, grant, owner>>

\* Whatever is left is promoted; one unreadable document fails the listing.
DeleteListRemaining(r) ==
    /\ At(r, "relisting")
    /\ \/ ListRaises /\ Return(r)
       \/ /\ ~ListRaises
          /\ \E b \in IF Connected = {} THEN {NoAccount} ELSE Connected :
                Put(r, [req[r] EXCEPT !.pc = "promoting", !.next = b])
    /\ UNCHANGED <<acct, dflt, grant, owner>>

\* Faulty: the default cleared, nothing promoted.
DeleteClearsDefault(r) ==
    /\ At(r, "promoting")
    /\ dflt' = NoAccount
    /\ Return(r)
    /\ UNCHANGED <<acct, grant, owner>>

DeletePromote(r) ==
    /\ At(r, "promoting")
    /\ dflt' = req[r].next
    /\ Return(r)
    /\ UNCHANGED <<acct, grant, owner>>

-----------------------------------------------------------------------------
(* Choosing calendars. *)

\* Faulty: an account that was never connected is given a selection.
SelectUnknown(r, a, S) ==
    /\ "select" \in Operations
    /\ At(r, "idle")
    /\ Put(r, [Idle EXCEPT !.pc = "selecting", !.acct = a,
                            !.cals = acct[a].cals,
                            !.sel = acct[a].cals \cap S])
    /\ UNCHANGED <<acct, dflt, grant, owner>>

SelectRead(r, a, S) ==
    /\ "select" \in Operations
    /\ At(r, "idle")
    /\ acct[a].exists
    /\ Put(r, [Idle EXCEPT !.pc = "selecting", !.acct = a,
                            !.cals = acct[a].cals,
                            !.sel = acct[a].cals \cap S])
    /\ UNCHANGED <<acct, dflt, grant, owner>>

\* The whole calendars list is written back, as it was read.
SelectWrite(r) ==
    /\ At(r, "selecting")
    /\ acct' = [acct EXCEPT ![req[r].acct].exists = TRUE,
                            ![req[r].acct].cals = req[r].cals,
                            ![req[r].acct].sel = req[r].sel]
    /\ Return(r)
    /\ UNCHANGED <<dflt, grant, owner>>

-----------------------------------------------------------------------------
(* The environment. *)

\* The user withdraws consent, or the token lapses, at the provider.
Lapse(a) ==
    /\ \E t \in Tokens : owner[t] = a /\ grant[t] = "live"
    /\ grant' = [t \in Tokens |->
                   IF owner[t] = a /\ grant[t] = "live"
                     THEN "lapsed" ELSE grant[t]]
    /\ UNCHANGED <<acct, dflt, owner, req>>

\* A handler stops between two awaits: instance shutdown, Firestore error.
Crash(r) ==
    /\ CanCrash
    /\ ~At(r, "idle")
    /\ Return(r)
    /\ UNCHANGED <<acct, dflt, grant, owner>>

-----------------------------------------------------------------------------

Init ==
    /\ acct = [a \in Accounts |-> Absent]
    /\ dflt = NoAccount
    /\ grant = [t \in Tokens |-> "unissued"]
    /\ owner = [t \in Tokens |-> NoAccount]
    /\ req = [r \in Requests |-> Idle]

Connect(r) ==
    \/ \E a \in Accounts, t \in Tokens : ExchangeCode(r, a, t)
    \/ \E found \in SUBSET Calendars : ListCalendars(r, found)
    \/ ListingFails(r)

Save(r) ==
    \/ SaveRead(r)
    \/ SaveWrite(r)
    \/ SaveReadDefault(r)
    \/ SaveClaimDefault(r)

Mint(r) ==
    \/ \E a \in Accounts : MintFor(r, a)
    \/ MintForDefault(r)
    \/ MintReadDefault(r)
    \/ MintRead(r)
    \/ Refresh(r)
    \/ \E t \in Tokens : RefreshRotates(r, t)
    \/ RefreshDead(r)
    \/ RefreshFails(r)
    \/ MarkNeedsReauth(r)

Disconnect(r) ==
    \/ \E a \in Accounts : DisconnectRead(r, a)
    \/ Revoke(r)
    \/ Delete(r)
    \/ DeleteReadDefault(r)
    \/ DeleteListRemaining(r)
    \/ DeletePromote(r)

Select(r) ==
    \/ \E a \in Accounts, S \in SUBSET Calendars : SelectRead(r, a, S)
    \/ SelectWrite(r)

Next ==
    \/ \E r \in Requests :
          Connect(r) \/ Save(r) \/ Mint(r) \/ Disconnect(r) \/ Select(r)
            \/ Crash(r)
    \/ \E a \in Accounts : Lapse(a)

Spec == Init /\ [][Next]_vars

-----------------------------------------------------------------------------
(* What holds of these handlers. *)

\* The documents, the pointer, the provider's books and the handlers' locals
\* are what the code can put there.
TypeOK ==
    /\ acct \in [Accounts -> Doc]
    /\ dflt \in Accounts \cup {NoAccount}
    /\ grant \in [Tokens -> {"unissued", "live", "rotated", "revoked", "lapsed"}]
    /\ owner \in [Tokens -> Accounts \cup {NoAccount}]
    /\ req \in [Requests -> Request]

\* However the two services' writes interleave, an account is active exactly
\* when it holds a credential: the agent is never told to plan on an account
\* that has none, and a secret known to be useless is never kept.
StatusMatchesCredential ==
    \A a \in Accounts : (acct[a].status = "active") <=> (acct[a].cred # NoToken)

\* The credential stored under an account was issued for that account and
\* sits in a complete document, so a token minted for an account never opens
\* another one, whatever handler wrote it last and from whatever snapshot.
CredentialBelongs ==
    \A a \in Accounts :
        acct[a].cred # NoToken => owner[acct[a].cred] = a /\ acct[a].bound

\* What a handler carries from one await to the next: the account it works on,
\* and a credential issued for that account.
HandlerOK(q, own) ==
    /\ q.pc \notin {"idle", "mint_default"} => q.acct \in Accounts
    /\ q.pc \in {"listing", "saving", "merging", "refreshing"} => q.cred \in Tokens
    /\ q.cred # NoToken => own[q.cred] = q.acct /\ q.acct \in Accounts
    /\ q.pc \in {"idle", "mint_default"} => q.cred = NoToken

\* Across every interleaving, a handler holds a credential of the account it
\* was called for, and no token changes hands once the provider issued it.
HandlersConsistent ==
    /\ \A r \in Requests : HandlerOK(req[r], owner)
    /\ \A t \in Tokens : grant[t] = "unissued" <=> owner[t] = NoAccount

\* The inductive invariant behind the two credential invariants.
AccountsInv ==
    TypeOK /\ StatusMatchesCredential /\ CredentialBelongs /\ HandlersConsistent

Quiescent == \A r \in Requests : At(r, "idle")

\* Between requests the default account is a connected one, and there is one
\* as soon as any account is connected: save claims it for the first, delete
\* promotes what is left so that it does not dangle at a deleted id.
DefaultSettled ==
    Quiescent => \/ dflt \in Connected
                 \/ dflt = NoAccount /\ Connected = {}

\* Every stored document can be turned back into a ConnectedAccount: one that
\* cannot makes every listing of the user's accounts fail.
EveryAccountReadable == \A a \in Accounts : Readable(acct[a])

\* mark_needs_reauth only drops a credential that the provider has declared
\* dead: "it is known-useless".
DroppedCredentialIsDead ==
    [][\A a \in Accounts :
          /\ acct[a].cred # NoToken
          /\ acct'[a].exists /\ acct'[a].cred = NoToken
          => grant[acct[a].cred] # "live"]_vars

\* Between requests a stored credential is the latest the provider issued:
\* not one that a rotation replaced, and not one that a disconnect revoked.
StoredCredentialCurrent ==
    Quiescent => \A a \in Accounts :
        acct[a].cred # NoToken => grant[acct[a].cred] \in {"live", "lapsed"}

\* Saving an account again keeps the user's choice of calendars: it selects
\* none the user had not selected and drops none that is still listed.
SelectionSurvives ==
    [][\A a \in Accounts :
          /\ acct[a].exists /\ acct'[a].exists
          /\ acct'[a].cred # acct[a].cred
          /\ acct'[a].status = "active"
          => acct'[a].sel = acct[a].sel \cap acct'[a].cals]_vars

\* The same for a user who has selected at least one calendar.
ChosenSelectionSurvives ==
    [][\A a \in Accounts :
          /\ acct[a].exists /\ acct'[a].exists
          /\ acct'[a].cred # acct[a].cred
          /\ acct'[a].status = "active"
          /\ acct[a].sel # {}
          => acct'[a].sel = acct[a].sel \cap acct'[a].cals]_vars

\* While an account is being saved as the first one, as many calendars are
\* selected in it as the page that ends the sign-in will say: what is "used for
\* planning".
PageCountsSelection ==
    \A r \in Requests : req[r].pc \in {"defaulting", "claiming"} =>
        Cardinality(req[r].sel) = Cardinality(acct[req[r].acct].sel)

\* The first account connected becomes the default and stays it until it is
\* disconnected.
FirstAccountStaysDefault ==
    [][dflt # NoAccount /\ dflt' # dflt =>
          \E r \in Requests : At(r, "promoting")]_vars

-----------------------------------------------------------------------------
(* Strengthenings that make the properties of restricted clients inductive. *)

Settled == dflt \in Connected \/ (dflt = NoAccount /\ Connected = {})

\* What one request at a time knows at each stage about documents and default.
StageOK(q) ==
    /\ q.pc \in {"refreshing", "marking", "selecting"} =>
          acct[q.acct].exists /\ acct[q.acct].bound
    /\ q.pc = "defaulting" => acct[q.acct].exists /\ (Settled \/ dflt = NoAccount)
    /\ q.pc = "claiming" => acct[q.acct].exists
    /\ q.pc = "undefaulting" => Settled \/ dflt = q.acct
    /\ q.pc = "promoting" => q.next \in Connected
                               \/ (q.next = NoAccount /\ Connected = {})
    /\ q.pc \notin {"defaulting", "claiming", "undefaulting", "relisting", "promoting"}
          => Settled

SerialInv == EveryAccountReadable /\ \A r \in Requests : StageOK(req[r])

\* Not replaced by a rotation, not revoked by a disconnection.
Current(t) == grant[t] \in {"live", "lapsed"}

\* A snapshot taken before an await is still true after it.
SnapshotOK(q) ==
    /\ q.pc = "merging" => q.keep = acct[q.acct].sel
    /\ q.pc = "claiming" => dflt = NoAccount
    /\ q.pc \in {"refreshing", "marking"} => acct[q.acct].cred = q.cred /\ q.cred # NoToken
    /\ q.pc = "marking" => grant[q.cred] # "live"
    /\ q.pc \in {"listing", "saving", "merging"} => Current(q.cred)
    /\ q.pc \in {"revoking", "deleting"} =>
          /\ acct[q.acct].exists
          /\ q.cred = acct[q.acct].cred /\ q.sel = acct[q.acct].sel
    /\ q.pc \in {"undefaulting", "relisting", "promoting"} => acct[q.acct] = Absent
    /\ q.pc \in {"relisting", "promoting"} => dflt = q.acct

\* A dead credential is stored only until the handler that replaced or revoked
\* it writes the document.
CurrentBut(q) ==
    \A a \in Accounts : acct[a].cred # NoToken /\ ~Current(acct[a].cred) =>
        a = q.acct /\ q.pc \in {"saving", "merging", "deleting"}

MissingAreAbsent == \A a \in Accounts : ~acct[a].exists => acct[a] = Absent

\* The inductive invariant behind the implementation of AccountBook and the
\* other properties of requests that come one at a time.
SoloInv ==
    /\ SerialInv /\ MissingAreAbsent
    /\ \A r \in Requests : SnapshotOK(req[r]) /\ CurrentBut(req[r])

=============================================================================
