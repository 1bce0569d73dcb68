------------------------- MODULE ConnectLinksProofs -------------------------
(***************************************************************************)
(* Theorems about ConnectLinks, for any number of links, users, codes and  *)
(* concurrent callbacks, and any clock.                                    *)
(***************************************************************************)
EXTENDS ConnectLinks, TLAPS

\* The store, the provider and the bindings stay put while one handler moves
\* to the next stage of its callback, or answers.
LEMMA HandlerStep ==
    ASSUME LinksInv, NEW r \in Requests, ~At(r, "idle"), NEW q \in Request,
           req' = [req EXCEPT ![r] = q],
           q = Idle \/ (q.pc # "idle" /\ q.link = req[r].link /\ q.code = req[r].code),
           q.pc \in {"listing", "saving"} =>
               /\ code'[req[r].code].state = "spent"
               /\ code'[req[r].code].link = req[r].link,
           UNCHANGED <<now, link, screens, bound, tried>>,
           code' \in [Codes -> Code],
           \A c \in Codes : /\ code'[c].link = code[c].link
                            /\ code'[c].account = code[c].account
                            /\ \/ code'[c].state = code[c].state
                               \/ code'[c].state = "spent" /\ c = req[r].code
    PROVE  LinksInv'
<1>1. req' \in [Requests -> Request] /\ req'[r] = q
  BY DEF LinksInv, TypeOK
<1>2. \A s \in Requests : s # r => req'[s] = req[s]
  BY DEF LinksInv, TypeOK
<1>3. TypeOK'
  BY <1>1 DEF LinksInv, TypeOK, Expired
<1>4. \A b \in bound : b.code \in Codes
  BY DEF LinksInv, TypeOK, Binding
<1>5. req[r].code \in Codes /\ code[req[r].code].state # "unissued"
  BY DEF LinksInv, HandlersExclusive
<1>6. \A c \in Codes : code'[c].state = "unissued" <=> code[c].state = "unissued"
  BY <1>5
<1>7. LinkBindsOnce' /\ ConsentedForUser'
  BY <1>4 DEF LinksInv, LinkBindsOnce, ConsentedForUser
<1>8. HandlersExclusive'
  <2>1. \A s \in Requests : ~At(s, "idle")' =>
           /\ ~At(s, "idle") /\ req'[s].link = req[s].link /\ req'[s].code = req[s].code
    BY <1>1, <1>2 DEF At, Idle
  <2> QED BY <2>1, <1>4, <1>6 DEF LinksInv, HandlersExclusive
<1>9. ExchangedCodes'
  <2>1. \A c \in Codes : code'[c].state # "unissued" =>
           code'[c].link \in Links /\ code'[c].account \in Accounts
    BY <1>6 DEF LinksInv, ExchangedCodes
  <2>2. ASSUME NEW s \in Requests, req'[s].pc \in {"listing", "saving"}
        PROVE  /\ code'[req'[s].code].state = "spent"
               /\ code'[req'[s].code].link = req'[s].link
    <3>1. CASE s = r
      BY <2>2, <3>1, <1>1 DEF Idle
    <3>2. CASE s # r
      <4>1. /\ req'[s] = req[s] /\ req[s].code \in Codes
            /\ code[req[s].code].state = "spent"
            /\ code[req[s].code].link = req[s].link
        BY <2>2, <3>2, <1>2 DEF LinksInv, ExchangedCodes, HandlersExclusive, At
      <4> QED BY <4>1
    <3> QED BY <3>1, <3>2
  <2> QED BY <2>1, <2>2 DEF ExchangedCodes
<1> QED BY <1>3, <1>7, <1>8, <1>9 DEF LinksInv

\* A step that only changes nonces, screens, clock or answers, and neither
\* brings a nonce back nor changes whose it is.
LEMMA StoreStep ==
    ASSUME LinksInv, UNCHANGED <<code, req, bound>>,
           now' \in Nat, link' \in [Links -> Link], screens' \in SUBSET Links,
           tried' \in SUBSET Links,
           \A l \in Links : \/ link'[l] = link[l]
                            \/ ~link[l].minted /\ link'[l].minted /\ link'[l].user \in Users
                            \/ /\ link[l].minted /\ link'[l].minted
                               /\ link'[l].user = link[l].user /\ ~link'[l].stored
    PROVE  LinksInv'
<1>1. TypeOK'
  BY DEF LinksInv, TypeOK
<1>2. \A b \in bound : b.link \in Links /\ link[b.link].minted
  BY DEF LinksInv, TypeOK, Binding, HandlersExclusive
<1>3. LinkBindsOnce' /\ ConsentedForUser'
  BY <1>2 DEF LinksInv, LinkBindsOnce, ConsentedForUser
<1>4. HandlersExclusive'
  BY <1>2 DEF LinksInv, HandlersExclusive, At
<1>5. ExchangedCodes'
  BY DEF LinksInv, ExchangedCodes
<1> QED BY <1>1, <1>3, <1>4, <1>5 DEF LinksInv

LEMMA ConsumeStep ==
    ASSUME LinksInv, NEW r \in Requests, NEW c \in Codes, NEW l \in Links,
           Consume(r, c, l)
    PROVE  LinksInv'
<1>0. tried' \in SUBSET Links
  BY DEF Consume, LinksInv, TypeOK
<1>1. CASE /\ link[l].stored
           /\ link' = [link EXCEPT ![l].stored = FALSE]
           /\ req' = [req EXCEPT ![r] = [pc |-> "checking", link |-> l, code |-> c]]
  <2> DEFINE q == [pc |-> "checking", link |-> l, code |-> c]
  <2>1. q \in Request /\ q.pc = "checking" /\ q.link = l /\ q.code = c
    BY DEF Request
  <2> HIDE DEF q
  <2>2. /\ req' \in [Requests -> Request] /\ req'[r] = q
        /\ \A s \in Requests : s # r => req'[s] = req[s]
    BY <1>1, <2>1 DEF LinksInv, TypeOK, q
  <2>3. /\ link' \in [Links -> Link] /\ ~link'[l].stored
        /\ \A k \in Links : /\ link'[k].user = link[k].user
                            /\ link'[k].minted = link[k].minted
                            /\ k # l => link'[k] = link[k]
    BY <1>1 DEF LinksInv, TypeOK, Link
  <2>4. /\ UNCHANGED <<now, screens, code, bound>>
        /\ code[c].state # "unissued" /\ link[l].minted
    BY DEF Consume
  <2>5. TypeOK'
    BY <1>0, <1>1, <2>2, <2>3, <2>4 DEF LinksInv, TypeOK
  <2>6. \A b \in bound : b.link \in Links /\ b.link # l
    BY <1>1 DEF LinksInv, TypeOK, Binding, HandlersExclusive
  <2>7. LinkBindsOnce' /\ ConsentedForUser'
    BY <2>3, <2>4, <2>6 DEF LinksInv, LinkBindsOnce, ConsentedForUser
  <2>8. \A s \in Requests : ~At(s, "idle") => req[s].link # l
    BY <1>1 DEF LinksInv, HandlersExclusive
  <2>9. HandlersExclusive'
    <3>1. \A s \in Requests : ~At(s, "idle")' =>
             /\ req'[s].link \in Links /\ req'[s].code \in Codes
             /\ link'[req'[s].link].minted /\ ~link'[req'[s].link].stored
             /\ code[req'[s].code].state # "unissued"
             /\ \A b \in bound : b.link # req'[s].link
      BY <2>1, <2>2, <2>3, <2>4, <2>6 DEF LinksInv, HandlersExclusive, At
    <3>2. \A s, t \in Requests :
             ~At(s, "idle")' /\ ~At(t, "idle")' /\ req'[s].link = req'[t].link => s = t
      BY <2>1, <2>2, <2>8 DEF LinksInv, HandlersExclusive, At
    <3>3. \A k \in Links : link'[k].stored =>
             link'[k].minted /\ \A b \in bound : b.link # k
      BY <2>3 DEF LinksInv, HandlersExclusive
    <3>4. /\ \A k \in Links : link'[k].minted => link'[k].user \in Users
          /\ \A k \in Links : ~link'[k].minted => ~link'[k].stored
          /\ \A b \in bound : link'[b.link].minted /\ code[b.code].state # "unissued"
      BY <2>3, <2>6 DEF LinksInv, HandlersExclusive
    <3> QED BY <3>1, <3>2, <3>3, <3>4, <2>4 DEF HandlersExclusive
  <2>10. ExchangedCodes'
    BY <2>1, <2>2, <2>4 DEF LinksInv, ExchangedCodes
  <2> QED BY <2>5, <2>7, <2>9, <2>10 DEF LinksInv
<1>2. CASE UNCHANGED <<link, req>>
  BY <1>0, <1>2, StoreStep DEF Consume, LinksInv, TypeOK
<1> QED BY <1>1, <1>2 DEF Consume

LEMMA SaveAccountStep ==
    ASSUME LinksInv, NEW r \in Requests, SaveAccount(r)
    PROVE  LinksInv'
<1> DEFINE l == req[r].link
           c == req[r].code
           new == [link |-> l, code |-> c, user |-> link[l].user,
                   account |-> code[c].account]
<1>1. /\ l \in Links /\ c \in Codes /\ link[l].minted /\ ~link[l].stored
      /\ \A b \in bound : b.link # l
      /\ link[l].user \in Users
      /\ code[c].state = "spent" /\ code[c].link = l /\ code[c].account \in Accounts
  BY DEF SaveAccount, At, LinksInv, HandlersExclusive, ExchangedCodes
<1>2. /\ new \in Binding /\ new.link = l /\ new.code = c
      /\ new.user = link[l].user /\ new.account = code[c].account
  BY <1>1 DEF Binding
<1>3. bound' = bound \cup {new} /\ UNCHANGED <<now, link, screens, code, tried>>
  BY DEF SaveAccount
<1>4. req' = [req EXCEPT ![r] = Idle]
  BY DEF SaveAccount, Finish
<1>5. /\ req' \in [Requests -> Request] /\ req'[r] = Idle
      /\ \A s \in Requests : s # r => req'[s] = req[s]
  BY <1>4 DEF LinksInv, TypeOK, Idle, Request
<1>6. ~At(r, "idle")
  BY DEF SaveAccount, At
<1> HIDE DEF new, l, c
<1>7. TypeOK'
  BY <1>1, <1>2, <1>3, <1>5 DEF LinksInv, TypeOK
<1>8. LinkBindsOnce'
  BY <1>1, <1>2, <1>3 DEF LinksInv, LinkBindsOnce
<1>9. ConsentedForUser'
  BY <1>1, <1>2, <1>3 DEF LinksInv, ConsentedForUser
<1>10. HandlersExclusive'
  <2>1. \A s \in Requests : ~At(s, "idle")' =>
           s # r /\ ~At(s, "idle") /\ req'[s] = req[s] /\ req[s].link # l
    BY <1>5, <1>6 DEF LinksInv, HandlersExclusive, At, Idle, l
  <2>2. \A k \in Links : link[k].stored => k # l
    BY <1>1
  <2> QED BY <1>1, <1>2, <1>3, <2>1, <2>2 DEF LinksInv, HandlersExclusive
<1>11. ExchangedCodes'
  BY <1>3, <1>5 DEF LinksInv, ExchangedCodes, Idle
<1> QED BY <1>7, <1>8, <1>9, <1>10, <1>11 DEF LinksInv

LEMMA CallbackStep ==
    ASSUME LinksInv, NEW r \in Requests, Callback(r) PROVE LinksInv'
<1>0. req[r] \in Request
  BY DEF LinksInv, TypeOK
<1>1. ASSUME NEW stage \in {"checking", "exchanging", "listing", "saving"}
      PROVE  LET q == [req[r] EXCEPT !.pc = stage] IN
             /\ q \in Request /\ q.pc = stage
             /\ q.link = req[r].link /\ q.code = req[r].code
             /\ Move(r, stage) => req' = [req EXCEPT ![r] = q]
  BY <1>0 DEF Request, Move, LinksInv, TypeOK
<1>2. Idle \in Request /\ Idle.pc = "idle"
  BY DEF Idle, Request
<1>3. ~At(r, "idle") => req[r].link \in Links /\ req[r].code \in Codes
  BY DEF LinksInv, HandlersExclusive
<1>5. code \in [Codes -> Code]
  BY DEF LinksInv, TypeOK
<1>6. CASE CheckLink(r)
  <2>1. ~At(r, "idle") /\ UNCHANGED <<now, link, screens, code, bound, tried>>
    BY <1>6 DEF CheckLink, At
  <2>2. CASE Move(r, "exchanging")
    <3> DEFINE q == [req[r] EXCEPT !.pc = "exchanging"]
    <3>1. /\ q \in Request /\ q.pc = "exchanging" /\ q.link = req[r].link
          /\ q.code = req[r].code /\ req' = [req EXCEPT ![r] = q]
      BY <1>1, <2>2
    <3> HIDE DEF q
    <3> QED BY <1>5, <2>1, <2>2, <3>1, HandlerStep
  <2>3. CASE Finish(r)
    BY <1>2, <1>5, <2>1, <2>3, HandlerStep DEF Finish
  <2> QED BY <1>6, <2>2, <2>3 DEF CheckLink
<1>7. CASE Exchange(r)
  <2> DEFINE q == [req[r] EXCEPT !.pc = "listing"]
             c == req[r].code
  <2>1. /\ ~At(r, "idle") /\ c \in Codes
        /\ UNCHANGED <<now, link, screens, bound, tried>>
        /\ code[c].link = req[r].link
        /\ code' = [code EXCEPT ![c].state = "spent"]
    BY <1>3, <1>7 DEF Exchange, At, Verifier
  <2>2. /\ q \in Request /\ q.pc = "listing" /\ q.link = req[r].link
        /\ q.code = c /\ req' = [req EXCEPT ![r] = q]
    BY <1>1, <1>7 DEF Exchange
  <2>3. /\ code' \in [Codes -> Code] /\ code'[c].state = "spent"
        /\ \A d \in Codes : /\ code'[d].link = code[d].link
                            /\ code'[d].account = code[d].account
                            /\ code'[d].state = code[d].state \/ d = c
    BY <1>5, <2>1 DEF Code
  <2> HIDE DEF q
  <2> QED BY <1>5, <2>1, <2>2, <2>3, HandlerStep
<1>8. CASE ExchangeFails(r)
  <2> DEFINE c == req[r].code
  <2>1. ~At(r, "idle") /\ UNCHANGED <<now, link, screens, bound, tried>>
    BY <1>8 DEF ExchangeFails, At
  <2>2. /\ code' \in [Codes -> Code]
        /\ \A d \in Codes : /\ code'[d].link = code[d].link
                            /\ code'[d].account = code[d].account
                            /\ \/ code'[d].state = code[d].state
                               \/ code'[d].state = "spent" /\ d = c
    <3>1. CASE UNCHANGED code
      BY <1>5, <3>1
    <3>2. CASE code' = [code EXCEPT ![c].state = "spent"]
      BY <1>3, <1>5, <2>1, <3>2 DEF Code
    <3> QED BY <1>8, <3>1, <3>2 DEF ExchangeFails
  <2>3. req' = [req EXCEPT ![r] = Idle]
    BY <1>8 DEF ExchangeFails, Finish
  <2> QED BY <1>2, <2>1, <2>2, <2>3, HandlerStep
<1>9. CASE ListCalendars(r)
  <2> DEFINE q == [req[r] EXCEPT !.pc = "saving"]
  <2>1. /\ ~At(r, "idle") /\ UNCHANGED <<now, link, screens, code, bound, tried>>
        /\ code[req[r].code].state = "spent" /\ code[req[r].code].link = req[r].link
    BY <1>9 DEF ListCalendars, At, LinksInv, ExchangedCodes
  <2>2. /\ q \in Request /\ q.pc = "saving" /\ q.link = req[r].link
        /\ q.code = req[r].code /\ req' = [req EXCEPT ![r] = q]
    BY <1>1, <1>9 DEF ListCalendars
  <2> HIDE DEF q
  <2> QED BY <1>5, <2>1, <2>2, HandlerStep
<1>10. CASE ListingFails(r)
  <2>1. ~At(r, "idle") /\ UNCHANGED <<now, link, screens, code, bound, tried>>
    BY <1>10 DEF ListingFails, At
  <2>2. req' = [req EXCEPT ![r] = Idle]
    BY <1>10 DEF ListingFails, Finish
  <2> QED BY <1>2, <1>5, <2>1, <2>2, HandlerStep
<1>11. CASE Crash(r)
  BY <1>2, <1>5, <1>11, HandlerStep DEF Crash, Finish
<1> QED
  BY <1>6, <1>7, <1>8, <1>9, <1>10, <1>11, ConsumeStep, SaveAccountStep DEF Callback

LEMMA BrowseStep ==
    ASSUME LinksInv, NEW l \in Links, Browse(l) PROVE LinksInv'
<1>0. TypeOK
  BY DEF LinksInv
<1>1. ASSUME NEW u \in Users, MintConnectLink(l, u) PROVE LinksInv'
  <2> DEFINE new == [minted |-> TRUE, stored |-> TRUE, user |-> u,
                     expires |-> now + Ttl]
  <2>1. new \in Link /\ new.minted /\ new.user = u
    BY <1>0, TtlIsPositive DEF TypeOK, Link
  <2>2. link' = [link EXCEPT ![l] = new]
    BY <1>1 DEF MintConnectLink
  <2> HIDE DEF new
  <2>3. /\ link' \in [Links -> Link]
        /\ \A k \in Links : \/ link'[k] = link[k]
                            \/ /\ ~link[k].minted /\ link'[k].minted
                               /\ link'[k].user \in Users
    BY <1>0, <1>1, <2>1, <2>2 DEF TypeOK, MintConnectLink
  <2>4. UNCHANGED <<now, screens, code, req, bound, tried>>
    BY <1>1 DEF MintConnectLink
  <2>5. /\ now' \in Nat /\ screens' \in SUBSET Links /\ tried' \in SUBSET Links
    BY <1>0, <2>4 DEF TypeOK
  <2> QED BY <2>3, <2>4, <2>5, StoreStep
<1>2. CASE Start(l)
  BY <1>0, <1>2, StoreStep DEF Start, TypeOK
<1>3. ASSUME NEW c \in Codes, NEW a \in Accounts, Consent(l, c, a) PROVE LinksInv'
  <2> DEFINE new == [state |-> "fresh", link |-> l, account |-> a]
  <2>1. new \in Code /\ new.state = "fresh" /\ new.link = l /\ new.account = a
    BY DEF Code
  <2>2. code' = [code EXCEPT ![c] = new] /\ code[c].state = "unissued"
    BY <1>3 DEF Consent
  <2> HIDE DEF new
  <2>3. /\ code' \in [Codes -> Code] /\ code'[c] = new
        /\ \A d \in Codes : d # c => code'[d] = code[d]
    BY <1>0, <2>1, <2>2 DEF TypeOK
  <2>4. UNCHANGED <<now, link, screens, req, bound, tried>>
    BY <1>3 DEF Consent
  <2>5. TypeOK'
    BY <1>0, <2>3, <2>4 DEF TypeOK
  <2>6. \A b \in bound : b.code \in Codes /\ b.code # c
    BY <2>2 DEF LinksInv, TypeOK, Binding, HandlersExclusive
  <2>7. \A r \in Requests : ~At(r, "idle") => req[r].code \in Codes /\ req[r].code # c
    BY <2>2 DEF LinksInv, HandlersExclusive
  <2>8. LinkBindsOnce' /\ ConsentedForUser'
    BY <2>3, <2>4, <2>6 DEF LinksInv, LinkBindsOnce, ConsentedForUser
  <2>9. HandlersExclusive'
    BY <2>3, <2>4, <2>6, <2>7 DEF LinksInv, HandlersExclusive, At
  <2>10. ExchangedCodes'
    BY <2>1, <2>3, <2>4, <2>7 DEF LinksInv, ExchangedCodes, At
  <2> QED BY <2>5, <2>8, <2>9, <2>10 DEF LinksInv
<1>4. CASE Sweep(l)
  <2>1. /\ link' \in [Links -> Link]
        /\ \A k \in Links : \/ link'[k] = link[k]
                            \/ /\ link[k].minted /\ link'[k].minted
                               /\ link'[k].user = link[k].user /\ ~link'[k].stored
    BY <1>0, <1>4 DEF Sweep, LinksInv, HandlersExclusive, TypeOK, Link
  <2> QED BY <1>0, <1>4, <2>1, StoreStep DEF Sweep, TypeOK
<1> QED BY <1>1, <1>2, <1>3, <1>4 DEF Browse

\* However callbacks are replayed, crossed, delayed or cut short, a link never
\* binds twice and a binding is one its user's own screen led to.
THEOREM LinksInvariant == Spec => []LinksInv
<1>1. Init => LinksInv
  BY DEF Init, LinksInv, TypeOK, Link, Code, Request, Idle, LinkBindsOnce,
         ConsentedForUser, HandlersExclusive, ExchangedCodes, At
<1>2. LinksInv /\ [Next]_vars => LinksInv'
  <2> SUFFICES ASSUME LinksInv, [Next]_vars PROVE LinksInv'
    OBVIOUS
  <2>1. CASE Tick
    BY <2>1, StoreStep DEF Tick, LinksInv, TypeOK
  <2>2. CASE UNCHANGED vars
    BY <2>2, StoreStep DEF vars, LinksInv, TypeOK
  <2> QED BY <2>1, <2>2, CallbackStep, BrowseStep DEF Next
<1> QED BY <1>1, <1>2, PTL DEF Spec

\* A link attaches at most one account, whatever is replayed.
THEOREM LinkIsSingleUse == Spec => []LinkBindsOnce
  BY LinksInvariant, PTL DEF LinksInv

\* An account only ever goes to the user whose link its owner consented on.
THEOREM BindingIsConsented == Spec => []ConsentedForUser
  BY LinksInvariant, PTL DEF LinksInv

\* No two callbacks are ever past the nonce of the same link.
THEOREM LinkHeldByOneHandler == Spec => []HandlersExclusive
  BY LinksInvariant, PTL DEF LinksInv

\* A nonce leaves the store by a callback that names it or once it has expired,
\* and comes in good for the whole of its life.
LEMMA UntriedStep ==
    ASSUME TypeOK, UntriedLinkIsGood, [Next]_vars PROVE UntriedLinkIsGood'
<1>1. ASSUME UNCHANGED link, now' \in Nat, now <= now', tried \subseteq tried'
      PROVE  UntriedLinkIsGood'
  <2>1. \A l \in Links : link[l].expires \in Nat
    BY DEF TypeOK, Link
  <2> QED BY <1>1, <2>1 DEF UntriedLinkIsGood, Expired, TypeOK
<1>2. ASSUME NEW r \in Requests, Callback(r) PROVE UntriedLinkIsGood'
  <2>1. ASSUME NEW c \in Codes, NEW l \in Links, Consume(r, c, l)
        PROVE  UntriedLinkIsGood'
    <3>1. tried' = tried \cup {l} /\ now' = now
      BY <2>1 DEF Consume
    <3>2. \A k \in Links : k # l => link'[k] = link[k]
      BY <2>1 DEF Consume, TypeOK
    <3> QED BY <3>1, <3>2 DEF UntriedLinkIsGood, Expired
  <2>2. CASE UNCHANGED <<now, link, tried>>
    BY <1>1, <2>2 DEF TypeOK
  <2> QED
    BY <1>2, <2>1, <2>2 DEF Callback, CheckLink, Exchange, ExchangeFails,
       ListCalendars, ListingFails, SaveAccount, Crash
<1>3. ASSUME NEW l \in Links, Browse(l) PROVE UntriedLinkIsGood'
  <2>1. ASSUME NEW u \in Users, MintConnectLink(l, u) PROVE UntriedLinkIsGood'
    <3>1. UNCHANGED <<now, tried>>
      BY <2>1 DEF MintConnectLink
    <3>2. \A k \in Links : IF k = l THEN link'[k].stored ELSE link'[k] = link[k]
      BY <2>1 DEF MintConnectLink, TypeOK
    <3> QED BY <3>1, <3>2 DEF UntriedLinkIsGood, Expired
  <2>2. CASE Start(l) \/ \E c \in Codes, a \in Accounts : Consent(l, c, a)
    BY <1>1, <2>2 DEF Start, Consent, TypeOK
  <2>3. CASE Sweep(l)
    <3>1. UNCHANGED <<now, tried>> /\ Expired(l)
      BY <2>3 DEF Sweep
    <3>2. \A k \in Links : IF k = l THEN link'[k].expires = link[k].expires
                                    ELSE link'[k] = link[k]
      BY <2>3 DEF Sweep, TypeOK, Link
    <3> QED BY <3>1, <3>2 DEF UntriedLinkIsGood, Expired
  <2> QED BY <1>3, <2>1, <2>2, <2>3 DEF Browse
<1>4. CASE Tick
  BY <1>1, <1>4 DEF Tick, TypeOK
<1>5. CASE UNCHANGED vars
  BY <1>1, <1>5 DEF vars, TypeOK
<1> QED BY <1>2, <1>3, <1>4, <1>5 DEF Next

\* Until it expires or some callback names it, a minted link works: opening
\* /start again never spends it, nor does any other link's callback.
THEOREM UntriedLinkWorks == Spec => []UntriedLinkIsGood
<1>1. Init => UntriedLinkIsGood
  BY DEF Init, UntriedLinkIsGood
<1>2. TypeOK /\ UntriedLinkIsGood /\ [Next]_vars => UntriedLinkIsGood'
  BY UntriedStep
<1>3. Spec => []TypeOK
  BY LinksInvariant, PTL DEF LinksInv
<1> QED BY <1>1, <1>2, <1>3, PTL DEF Spec

=============================================================================
