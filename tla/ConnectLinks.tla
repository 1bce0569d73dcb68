---------------------------- MODULE ConnectLinks ----------------------------
(***************************************************************************)
(* The connect links: a single-use nonce, minted for a signed-in user by   *)
(* either service, that ties a consent screen in an anonymous browser to   *)
(* that user.  /start only looks at the nonce; /callback consumes it, then *)
(* exchanges the authorization code and stores the account, with an await  *)
(* between any two of these.                                               *)
(***************************************************************************)
EXTENDS Naturals, FiniteSets

CONSTANTS
    Links,          \* the nonces that may be minted
    Users,
    Accounts,       \* provider accounts people may consent with
    Codes,          \* authorization codes the provider may issue
    Requests,       \* callback handlers that may be in flight
    Ttl,            \* state_ttl_seconds
    MaxTime,        \* bounds the clock of a run
    NoUser, NoAccount, NoLink, NoCode

ASSUME TtlIsPositive == Ttl \in Nat \ {0} /\ MaxTime \in Nat
ASSUME NullsAreOutside ==
    /\ NoUser \notin Users
    /\ NoAccount \notin Accounts
    /\ NoLink \notin Links
    /\ NoCode \notin Codes

VARIABLES
    now,
    link,       \* oauth_states/{nonce}, with what was minted even once deleted
    screens,    \* links whose consent screen a browser has been sent to
    code,       \* provider side: for whose screen and account a code is
    req,        \* the callbacks in flight
    bound,      \* the accounts stored, each with the link and code it came by
    tried       \* links that some callback has named

vars == <<now, link, screens, code, req, bound, tried>>

Link == [minted : BOOLEAN, stored : BOOLEAN, user : Users \cup {NoUser},
         expires : Nat]

Code == [state : {"unissued", "fresh", "spent"}, link : Links \cup {NoLink},
         account : Accounts \cup {NoAccount}]

Request == [pc : {"idle", "checking", "exchanging", "listing", "saving"},
            link : Links \cup {NoLink}, code : Codes \cup {NoCode}]

Binding == [link : Links, code : Codes, user : Users, account : Accounts]

Idle == [pc |-> "idle", link |-> NoLink, code |-> NoCode]

Expired(l) == now >= link[l].expires

At(r, stage) == req[r].pc = stage

Move(r, stage) == req' = [req EXCEPT ![r].pc = stage]

Finish(r) == req' = [req EXCEPT ![r] = Idle]

-----------------------------------------------------------------------------

\* POST /me/connect-link, or the agent's connect_link: a fresh nonce with a
\* fresh code verifier.
MintConnectLink(l, u) ==
    /\ ~link[l].minted
    /\ link' = [link EXCEPT ![l] = [minted |-> TRUE, stored |-> TRUE, user |-> u,
                                    expires |-> now + Ttl]]
    /\ UNCHANGED <<now, screens, code, req, bound, tried>>

\* Faulty: a start that consumes the nonce.
StartConsumes(l) ==
    /\ link[l].stored /\ ~Expired(l)
    /\ screens' = screens \cup {l}
    /\ link' = [link EXCEPT ![l].stored = FALSE]
    /\ UNCHANGED <<now, code, req, bound, tried>>

\* GET /auth/{provider}/start peeks, so the link may be clicked again.
Start(l) ==
    /\ link[l].stored /\ ~Expired(l)
    /\ screens' = screens \cup {l}
    /\ UNCHANGED <<now, link, code, req, bound, tried>>

\* Faulty: one verifier for every link.
SharedVerifier(l) == NoLink

\* The challenge sent to the provider is derived from the link's verifier, one
\* to each link, so a code can be told by the link it was issued on.
Verifier(l) == l

(***************************************************************************)
(* Somebody consents on the screen, as often as they like: each time the   *)
(* provider redirects the browser with a new code.                         *)
(***************************************************************************)
Consent(l, c, a) ==
    /\ l \in screens
    /\ code[c].state = "unissued"
    /\ code' = [code EXCEPT ![c] = [state |-> "fresh", link |-> l, account |-> a]]
    /\ UNCHANGED <<now, link, screens, req, bound, tried>>

\* Faulty: the nonce read and left in the store.
Peek(r, c, l) ==
    /\ At(r, "idle")
    /\ code[c].state # "unissued" /\ link[l].minted
    /\ tried' = tried \cup {l}
    /\ \/ /\ link[l].stored
          /\ req' = [req EXCEPT ![r] = [pc |-> "checking", link |-> l, code |-> c]]
       \/ ~link[l].stored /\ UNCHANGED req
    /\ UNCHANGED <<now, link, screens, code, bound>>

(***************************************************************************)
(* GET /auth/{provider}/callback with any code and any nonce, reloads      *)
(* included: the nonce is read and deleted in one transaction.             *)
(***************************************************************************)
Consume(r, c, l) ==
    /\ At(r, "idle")
    /\ code[c].state # "unissued" /\ link[l].minted
    /\ tried' = tried \cup {l}
    /\ \/ /\ link[l].stored
          /\ link' = [link EXCEPT ![l].stored = FALSE]
          /\ req' = [req EXCEPT ![r] = [pc |-> "checking", link |-> l, code |-> c]]
       \/ ~link[l].stored /\ UNCHANGED <<link, req>>      \* answered: dead
    /\ UNCHANGED <<now, screens, code, bound>>

\* Asked after the transaction, so the nonce is gone either way: has the link
\* expired, and does the callback's path name the provider it was minted for?
CheckLink(r) ==
    /\ At(r, "checking")
    /\ \E matches \in BOOLEAN :
          IF matches /\ ~Expired(req[r].link) THEN Move(r, "exchanging") ELSE Finish(r)
    /\ UNCHANGED <<now, link, screens, code, bound, tried>>

\* The provider takes a code once, from whoever knows the verifier behind the
\* challenge it was issued for.
Exchange(r) ==
    /\ At(r, "exchanging")
    /\ code[req[r].code].state = "fresh"
    /\ Verifier(code[req[r].code].link) = Verifier(req[r].link)
    /\ code' = [code EXCEPT ![req[r].code].state = "spent"]
    /\ Move(r, "listing")
    /\ UNCHANGED <<now, link, screens, bound, tried>>

\* Rejected, unreachable, or no refresh token came back: the code may be spent.
ExchangeFails(r) ==
    /\ At(r, "exchanging")
    /\ \/ code' = [code EXCEPT ![req[r].code].state = "spent"]
       \/ UNCHANGED code
    /\ Finish(r)
    /\ UNCHANGED <<now, link, screens, bound, tried>>

ListCalendars(r) ==
    /\ At(r, "listing")
    /\ Move(r, "saving")
    /\ UNCHANGED <<now, link, screens, code, bound, tried>>

ListingFails(r) ==
    /\ At(r, "listing")
    /\ Finish(r)
    /\ UNCHANGED <<now, link, screens, code, bound, tried>>

\* The account is stored for the user the nonce was minted for.
SaveAccount(r) ==
    /\ At(r, "saving")
    /\ bound' = bound \cup {[link |-> req[r].link, code |-> req[r].code,
                             user |-> link[req[r].link].user,
                             account |-> code[req[r].code].account]}
    /\ Finish(r)
    /\ UNCHANGED <<now, link, screens, code, tried>>

\* The instance stops, or Firestore or KMS raises: no answer, nothing undone.
Crash(r) ==
    /\ ~At(r, "idle")
    /\ Finish(r)
    /\ UNCHANGED <<now, link, screens, code, bound, tried>>

\* Firestore's TTL policy deletes an expired nonce, sooner or later.
Sweep(l) ==
    /\ link[l].stored /\ Expired(l)
    /\ link' = [link EXCEPT ![l].stored = FALSE]
    /\ UNCHANGED <<now, screens, code, req, bound, tried>>

Tick ==
    /\ now < MaxTime
    /\ now' = now + 1
    /\ UNCHANGED <<link, screens, code, req, bound, tried>>

-----------------------------------------------------------------------------

Init ==
    /\ now = 0
    /\ link = [l \in Links |-> [minted |-> FALSE, stored |-> FALSE,
                                user |-> NoUser, expires |-> 0]]
    /\ screens = {}
    /\ code = [c \in Codes |-> [state |-> "unissued", link |-> NoLink,
                                account |-> NoAccount]]
    /\ req = [r \in Requests |-> Idle]
    /\ bound = {}
    /\ tried = {}

Callback(r) ==
    \/ \E c \in Codes, l \in Links : Consume(r, c, l)
    \/ CheckLink(r)
    \/ Exchange(r)
    \/ ExchangeFails(r)
    \/ ListCalendars(r)
    \/ ListingFails(r)
    \/ SaveAccount(r)
    \/ Crash(r)

Browse(l) ==
    \/ \E u \in Users : MintConnectLink(l, u)
    \/ Start(l)
    \/ \E c \in Codes, a \in Accounts : Consent(l, c, a)
    \/ Sweep(l)

Next ==
    \/ \E r \in Requests : Callback(r)
    \/ \E l \in Links : Browse(l)
    \/ Tick

Spec == Init /\ [][Next]_vars

-----------------------------------------------------------------------------

TypeOK ==
    /\ now \in Nat
    /\ link \in [Links -> Link]
    /\ screens \in SUBSET Links
    /\ code \in [Codes -> Code]
    /\ req \in [Requests -> Request]
    /\ bound \in SUBSET Binding
    /\ tried \in SUBSET Links

\* A link attaches at most one account, by one code, however often its
\* callback is replayed and however many replays are in flight at once.
LinkBindsOnce ==
    \A b, d \in bound : b.link = d.link => b = d

\* The account a callback stores was consented to on the screen of the very
\* link the callback named, and goes to the user that link was minted for:
\* no mix of one link's nonce with another's code gets through the exchange.
ConsentedForUser ==
    \A b \in bound :
        /\ code[b.code].link = b.link
        /\ code[b.code].account = b.account
        /\ link[b.link].user = b.user

\* A link that has not expired and that no callback has named is still good,
\* however often /start was opened: clicking again is not told it is dead.
UntriedLinkIsGood ==
    \A l \in Links :
        link[l].minted /\ ~Expired(l) /\ l \notin tried => link[l].stored

\* What the nonces and the handlers say of each other: only one handler ever
\* holds a link, and it holds one that is gone from the store and has bound
\* nothing.
HandlersExclusive ==
    /\ \A r \in Requests : ~At(r, "idle") =>
          /\ req[r].link \in Links /\ req[r].code \in Codes
          /\ link[req[r].link].minted /\ ~link[req[r].link].stored
          /\ code[req[r].code].state # "unissued"
          /\ \A b \in bound : b.link # req[r].link
    /\ \A r, s \in Requests :
          ~At(r, "idle") /\ ~At(s, "idle") /\ req[r].link = req[s].link => r = s
    /\ \A l \in Links : link[l].stored => link[l].minted /\ \A b \in bound : b.link # l
    /\ \A l \in Links : link[l].minted => link[l].user \in Users
    /\ \A l \in Links : ~link[l].minted => ~link[l].stored
    /\ \A b \in bound : link[b.link].minted /\ code[b.code].state # "unissued"

\* Past the exchange, the code in hand is spent and was issued on this link's
\* screen.
ExchangedCodes ==
    /\ \A r \in Requests : req[r].pc \in {"listing", "saving"} =>
          /\ code[req[r].code].state = "spent"
          /\ code[req[r].code].link = req[r].link
    /\ \A c \in Codes : code[c].state # "unissued" =>
          code[c].link \in Links /\ code[c].account \in Accounts

LinksInv ==
    TypeOK /\ LinkBindsOnce /\ ConsentedForUser /\ HandlersExclusive /\ ExchangedCodes

=============================================================================
