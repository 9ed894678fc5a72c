---------------------------- MODULE RefreshGrants ----------------------------
(***************************************************************************)
(* The authorization server of the gateway: the code flow in front of an   *)
(* upstream provider (gateway/oauth.ts) and the families of rotating       *)
(* refresh tokens it ends in (gateway/refresh-grants.ts).                  *)
(*                                                                         *)
(* A request is a process: what it does between two awaits is one action.  *)
(* Several gateways share the store, so nothing but the store's take and   *)
(* compare-and-swap keeps requests apart.  A request may vanish at any     *)
(* await (its gateway crashes), an answer may be lost on its way to the    *)
(* client, and the client may repeat any request whose token it holds.     *)
(*                                                                         *)
(* An access token and the refresh token of one pair share an identifier.  *)
(* Client authentication, redirect URIs, PKCE and scopes do not change     *)
(* from one request to the next and are left out: the client is itself.    *)
(***************************************************************************)
EXTENDS ExpiringStore, FiniteSets

CONSTANTS Requests,       \* requests under way at once
          TransactionTtl, \* TRANSACTION_TTL_SECONDS
          CodeTtl,        \* CODE_TTL_SECONDS
          Receipt,        \* RECEIPT_SECONDS
          Inflight,       \* INFLIGHT_SECONDS
          GrantTtl,       \* refreshGrantTtlSeconds
          AssertionTtl,   \* how long an identity assertion is valid
          MaxTime,        \* bound: the clock
          MaxSent         \* bound: requests sent

ASSUME TimesAssumption ==
  {TransactionTtl, CodeTtl, Receipt, Inflight, GrantTtl, AssertionTtl, MaxTime, MaxSent} \subseteq Nat

\* RECEIPT_SECONDS is 10 and INFLIGHT_SECONDS 45.  Of the upstream it is assumed that an
\* assertion it just made is valid for two seconds: the answer it leads to can be repeated
\* no longer than that.
ASSUME MarginsAssumption == Receipt >= 2 /\ Inflight >= 1 /\ AssertionTtl >= 2

VARIABLES now,       \* the clock
          store,     \* what the gateways share
          req,       \* the requests
          client,    \* how the client registered
          inbox,     \* what the client was answered
          minted,    \* tokens made so far
          presented, \* upstream refresh tokens an upstream call may have spent
          answers,   \* <<what was presented, what it was answered with>>
          retired,   \* grants whose workers were told to retire
          excused,   \* something happened that justifies a revocation
          wrongs,    \* what went wrong: empty if nothing ever did
          sent       \* counter the bound is on

vars == <<now, store, req, client, inbox, minted, presented, answers, retired, excused,
          wrongs, sent>>

Idle == [pc |-> "idle"]
Transaction == <<"transactions", 1>>
Code(c)     == <<"authorization-codes", c>>
Access(t)   == <<"access-tokens", t>>
Refresh(t)  == <<"refresh-tokens", t>>
Family(g)   == <<"grant-families", g>>
State == <<"state", 1>>
NoToken == <<"none", 0>>
NoReceipt == [digest |-> NoToken, until |-> 0, pair |-> NoToken, access |-> 0]

Min(a, b) == IF a < b THEN a ELSE b

Found(key) == Entry(store, key, now)
Wrong(name, condition) == wrongs' = IF condition THEN wrongs \union {name} ELSE wrongs
Go(r, next) == req' = [req EXCEPT ![r] = next]
At(r, pc) == req[r].pc = pc
Done(r) == Go(r, Idle)

\* An answer reaches the client, or is lost.
Answer(r, presentedToken, token) ==
  /\ Done(r)
  /\ answers' = answers \union {<<presentedToken, token>>}
  /\ inbox' \in {inbox, inbox \union {token}}

-----------------------------------------------------------------------------
(* Registration, authorization and the code flow.                          *)

Register ==
  /\ client = "none"
  /\ client' \in {"plain", "refresh"}
  /\ UNCHANGED <<now, store, req, inbox, minted, presented, answers, retired, excused, wrongs, sent>>

\* The browser is sent upstream with the state of a transaction.
Authorize ==
  /\ client # "none" /\ State \notin inbox
  /\ store' = Put(store, Transaction, [refresh |-> client = "refresh"], now + TransactionTtl)
  /\ inbox' = inbox \union {State}
  /\ UNCHANGED <<now, req, client, minted, presented, answers, retired, excused, wrongs, sent>>

\* A token that was replaced, and whose receipt is over, is a replay.
Stale(token) ==
  LET reference == Found(Refresh(token))
      family    == Found(Family(reference.value.grant))
  IN  IF reference = None \/ Found(Family(reference.value.grant)) = None THEN FALSE
      ELSE ~(\/ family.value.digest = token
             \/ family.value.receipt.digest = token /\ family.value.receipt.until > now)

\* The client moves on to another token before its last refresh is answered.
Overtakes(token) ==
  \E r \in Requests : "token" \in DOMAIN req[r] /\ req[r].pc \notin {"redeem", "create", "bearer"}
                     /\ req[r].token # token

RevokedIn(s, grant) ==
  Family(grant) \in DOMAIN s /\ s[Family(grant)].value.status = "revoked"

\* The client, or its browser, makes a request for something it was answered.
Send ==
  /\ sent < MaxSent /\ sent' = sent + 1
  /\ \E r \in Requests, token \in inbox :
       /\ At(r, "idle")
       /\ \/ token[1] = "state" /\ Go(r, [pc |-> "callback"]) /\ UNCHANGED excused
          \/ token[1] = "code" /\ Go(r, [pc |-> "redeem", token |-> token]) /\ UNCHANGED excused
          \/ /\ token[1] = "pair" /\ Go(r, [pc |-> "reference", token |-> token])
             /\ excused' = (excused \/ Stale(token) \/ Overtakes(token))
          \/ /\ token[1] \in {"pair", "plain"}
             /\ LET access == Found(Access(token))
                IN  Go(r, [pc |-> "bearer", token |-> token,
                           late |-> access # None /\ RevokedIn(store, access.value.grant)])
             /\ UNCHANGED excused
  /\ UNCHANGED <<now, store, client, inbox, minted, presented, answers, retired, wrongs>>

\* The callback takes the transaction: a second one finds none.
Callback(r) ==
  /\ At(r, "callback")
  /\ LET transaction == Found(Transaction)
     IN  IF transaction = None THEN Done(r)
         ELSE Go(r, [pc |-> "exchange", refresh |-> transaction.value.refresh])
  /\ store' = Without(store, Transaction)
  /\ UNCHANGED <<now, client, inbox, minted, presented, answers, retired, excused, wrongs, sent>>

\* The upstream exchange fails, or ends in a code of ours.
Exchange(r) ==
  /\ At(r, "exchange")
  /\ \/ /\ Done(r)
        /\ UNCHANGED <<store, inbox, minted, answers>>
     \/ LET code == <<"code", minted + 1>>
        IN  /\ minted' = minted + 1
            /\ store' = Put(store, Code(code),
                            [upstream |-> IF req[r].refresh THEN minted + 1 ELSE 0,
                             expires |-> now + GrantTtl, assertion |-> now + AssertionTtl],
                            now + Min(CodeTtl, AssertionTtl))
            /\ Answer(r, State, code)
  /\ UNCHANGED <<now, client, presented, retired, excused, wrongs, sent>>

\* A code is taken before anything is made of it.
Redeem(r) ==
  /\ At(r, "redeem")
  /\ LET code == Found(Code(req[r].token))
     IN  /\ store' = Without(store, Code(req[r].token))
         /\ IF code = None \/ code.value.assertion <= now THEN Done(r)
            ELSE Go(r, [pc |-> "create", token |-> req[r].token, code |-> code.value])
  /\ UNCHANGED <<now, client, inbox, minted, presented, answers, retired, excused, wrongs, sent>>

\* The store with the two records of a new pair.
WithPair(pair, grant, generation, access, expires) ==
  Put(Put(store, Access(pair), [grant |-> grant, generation |-> generation, expires |-> access],
          access),
      Refresh(pair), [grant |-> grant, generation |-> generation], expires)

\* A code becomes a plain access token, or the first pair of a grant.
Create(r) ==
  /\ At(r, "create")
  /\ LET code   == req[r].code
         grant  == minted + 1
         pair   == <<"pair", grant>>
         access == Min(code.assertion, code.expires)
         family == [expires |-> code.expires, generation |-> 0, status |-> "active",
                    assertion |-> code.assertion, upstream |-> code.upstream, digest |-> pair,
                    since |-> 0, receipt |-> NoReceipt]
     IN  \/ /\ access <= now
            /\ Done(r) /\ UNCHANGED <<store, inbox, answers, minted>>
         \/ /\ access > now /\ code.upstream = 0
            /\ store' = Put(store, Access(<<"plain", grant>>),
                            [grant |-> 0, generation |-> 0, expires |-> code.assertion],
                            code.assertion)
            /\ Answer(r, req[r].token, <<"plain", grant>>) /\ minted' = grant
         \/ /\ access > now /\ code.upstream # 0
            /\ store' = Put(WithPair(pair, grant, 0, access, code.expires),
                            Family(grant), family, code.expires)
            /\ Answer(r, req[r].token, pair) /\ minted' = grant
  /\ UNCHANGED <<now, client, presented, retired, excused, wrongs, sent>>

-----------------------------------------------------------------------------
(* Refreshing.                                                             *)

ReadReference(r) ==
  /\ At(r, "reference")
  /\ LET reference == Found(Refresh(req[r].token))
     IN  IF reference = None THEN Done(r)
         ELSE Go(r, [pc |-> "look", token |-> req[r].token, grant |-> reference.value.grant,
                     generation |-> reference.value.generation, until |-> now + Inflight])
  /\ UNCHANGED <<now, store, client, inbox, minted, presented, answers, retired, excused, wrongs, sent>>

To(r, pc) == [req[r] EXCEPT !.pc = pc]

\* The refresh under way is taken for dead.
Lapsed(family) == family.since + Inflight <= now

\* Mutant: no receipts.
HasReceipt_Never(family, token) == FALSE

\* The token was rotated just now: whoever repeats it gets the same pair.
HasReceipt(family, token) ==
  /\ family.receipt.digest = token
  /\ family.receipt.until > now /\ family.receipt.access > now

IsReplay(family, request) ==
  family.digest # request.token \/ family.generation # request.generation

\* A request that found the family is answered from the receipt, is a replay,
\* waits for another, or is the one to rotate the token.
Look(r) ==
  /\ At(r, "look")
  /\ LET entry  == Found(Family(req[r].grant))
         family == entry.value
     IN  CASE entry = None -> Done(r) /\ UNCHANGED <<answers, inbox>>
           [] entry # None /\ family.status = "revoked" -> Done(r) /\ UNCHANGED <<answers, inbox>>
           [] OTHER ->
                IF HasReceipt(family, req[r].token)
                THEN Answer(r, req[r].token, family.receipt.pair)
                ELSE /\ UNCHANGED <<answers, inbox>>
                     /\ IF \/ IsReplay(family, req[r])
                           \/ family.status = "refreshing" /\ Lapsed(family)
                        THEN Go(r, To(r, "revoke"))
                        ELSE IF family.status = "refreshing"
                        THEN IF now >= req[r].until THEN Done(r) ELSE Go(r, To(r, "waiting"))
                        ELSE Go(r, [pc |-> "claim", token |-> req[r].token, grant |-> req[r].grant,
                                    generation |-> req[r].generation, until |-> req[r].until,
                                    version |-> entry.version,
                                    family |-> [family EXCEPT !.status = "refreshing",
                                                              !.since = now]])
  /\ UNCHANGED <<now, store, client, minted, presented, retired, excused, wrongs, sent>>

\* The next poll.
Wake(r) ==
  /\ At(r, "waiting")
  /\ Go(r, To(r, "look"))
  /\ UNCHANGED <<now, store, client, inbox, minted, presented, answers, retired, excused, wrongs, sent>>

\* Mutant: the claim is stored without comparing.
Claim_Blind(r) ==
  /\ At(r, "claim")
  /\ store' = Put(store, Family(req[r].grant), req[r].family, req[r].family.expires)
  /\ Go(r, To(r, "upstream"))
  /\ Wrong("spent", req[r].family.upstream \in presented)
  /\ presented' = presented \union {req[r].family.upstream}
  /\ UNCHANGED <<now, client, inbox, minted, answers, retired, excused, sent>>

\* The one whose claim is stored calls upstream; the others look again.
Claim(r) ==
  /\ At(r, "claim")
  /\ IF Unchanged(store, Family(req[r].grant), req[r].version, now)
     THEN /\ store' = Put(store, Family(req[r].grant), req[r].family, req[r].family.expires)
          /\ Go(r, To(r, "upstream"))
          /\ Wrong("spent", req[r].family.upstream \in presented)
          /\ presented' = presented \union {req[r].family.upstream}
     ELSE /\ Go(r, [pc |-> "look", token |-> req[r].token, grant |-> req[r].grant,
                    generation |-> req[r].generation, until |-> req[r].until])
          /\ UNCHANGED <<store, presented, wrongs>>
  /\ UNCHANGED <<now, client, inbox, minted, answers, retired, excused, sent>>

ToRevoke(r) == [pc |-> "revoke", token |-> req[r].token, grant |-> req[r].grant,
                generation |-> req[r].generation, until |-> req[r].until]

\* The upstream refuses or its answer is lost, after it may have spent the
\* token; or it answers with an assertion, and keeps or rotates its token.
Upstream(r) ==
  /\ At(r, "upstream")
  /\ LET claimed == req[r].family
         pair    == <<"pair", minted + 1>>
         access  == Min(now + AssertionTtl, claimed.expires)
     IN  \/ /\ Go(r, ToRevoke(r)) /\ excused' = TRUE
            /\ UNCHANGED <<store, minted, presented>>
         \/ /\ claimed.expires <= now
            /\ Go(r, ToRevoke(r))
            /\ UNCHANGED <<store, minted, presented, excused>>
         \/ /\ claimed.expires > now
            /\ minted' = minted + 1
            /\ store' = WithPair(pair, req[r].grant, claimed.generation + 1, access, claimed.expires)
            /\ \E rotates \in BOOLEAN :
                 /\ presented' = IF rotates THEN presented ELSE presented \ {claimed.upstream}
                 /\ Go(r, [req[r] EXCEPT !.pc = "reread",
                        !.family = [claimed EXCEPT
                           !.generation = @ + 1, !.status = "active", !.since = 0,
                           !.assertion = now + AssertionTtl, !.digest = pair,
                           !.upstream = IF rotates THEN minted + 1 ELSE @,
                           !.receipt = [digest |-> req[r].token, until |-> 0,
                                        pair |-> pair, access |-> access]]])
            /\ UNCHANGED excused
  /\ UNCHANGED <<now, client, inbox, answers, retired, wrongs, sent>>

\* The claim must still stand before the new generation is stored.
StillClaimed(family, request) ==
  /\ family.status = "refreshing" /\ family.generation = request.generation
  /\ family.digest = request.token

Reread(r) ==
  /\ At(r, "reread")
  /\ LET entry == Found(Family(req[r].grant))
     IN  IF entry = None THEN Go(r, ToRevoke(r))
         ELSE IF StillClaimed(entry.value, req[r])
         THEN Go(r, [req[r] EXCEPT !.pc = "commit", !.version = entry.version,
                       !.family.receipt.until = Min(now + Receipt, req[r].family.receipt.access)])
         ELSE Go(r, ToRevoke(r))
  /\ UNCHANGED <<now, store, client, inbox, minted, presented, answers, retired, excused, wrongs, sent>>

Commit(r) ==
  /\ At(r, "commit")
  /\ IF Unchanged(store, Family(req[r].grant), req[r].version, now)
     THEN /\ store' = Put(store, Family(req[r].grant), req[r].family, req[r].family.expires)
          /\ Answer(r, req[r].token, req[r].family.receipt.pair)
     ELSE /\ Go(r, ToRevoke(r)) /\ UNCHANGED <<store, answers, inbox>>
  /\ UNCHANGED <<now, client, minted, presented, retired, excused, wrongs, sent>>

-----------------------------------------------------------------------------
(* Revocation.  The code gives up after eight lost swaps, more than there  *)
(* can be here.                                                            *)

ReadToRevoke(r) ==
  /\ At(r, "revoke")
  /\ LET entry == Found(Family(req[r].grant))
     IN  IF entry = None THEN Done(r)
         ELSE Go(r, [pc |-> IF entry.value.status = "revoked" THEN "cleanup" ELSE "swap",
                     token |-> req[r].token, grant |-> req[r].grant,
                     generation |-> req[r].generation, until |-> req[r].until,
                     version |-> entry.version, family |-> entry.value])
  /\ UNCHANGED <<now, store, client, inbox, minted, presented, answers, retired, excused, wrongs, sent>>

\* A revocation is unjust when nothing has happened to justify it.
Swap(r) ==
  /\ At(r, "swap")
  /\ IF Unchanged(store, Family(req[r].grant), req[r].version, now)
     THEN /\ store' = Put(store, Family(req[r].grant),
                          [req[r].family EXCEPT !.status = "revoked", !.upstream = 0,
                             !.assertion = 0, !.receipt = NoReceipt], req[r].family.expires)
          /\ Go(r, To(r, "cleanup"))
          /\ Wrong("unjust", ~excused /\ req[r].family.expires > now + Receipt)
     ELSE Go(r, ToRevoke(r)) /\ UNCHANGED <<store, wrongs>>
  /\ UNCHANGED <<now, client, inbox, minted, presented, answers, retired, excused, sent>>

\* The workers of the grant are told to retire; what they say is only logged.
Cleanup(r) ==
  /\ At(r, "cleanup")
  /\ retired' = retired \union {req[r].grant}
  /\ Done(r)
  /\ UNCHANGED <<now, store, client, inbox, minted, presented, answers, excused, wrongs, sent>>

-----------------------------------------------------------------------------
(* Bearer tokens.                                                          *)

\* A plain token is judged by its own assertion, and leads to no grant.
ReadAccess(r) ==
  /\ At(r, "bearer")
  /\ LET access == Found(Access(req[r].token))
     IN  IF access = None \/ access.value.grant = 0 THEN Done(r)
         ELSE Go(r, [pc |-> "identity", access |-> access.value, late |-> req[r].late])
  /\ UNCHANGED <<now, store, client, inbox, minted, presented, answers, retired, excused, wrongs, sent>>

Accepted(family, access) ==
  /\ family.status # "revoked" /\ family.expires > now
  /\ access.generation <= family.generation
  /\ Min(access.expires, family.assertion) > now

Identity(r) ==
  /\ At(r, "identity")
  /\ LET entry == Found(Family(req[r].access.grant))
         accepted == IF entry = None THEN FALSE ELSE Accepted(entry.value, req[r].access)
     IN  Wrong("after", accepted /\ req[r].late)
  /\ Done(r)
  /\ UNCHANGED <<now, store, client, inbox, minted, presented, answers, retired, excused, sent>>

-----------------------------------------------------------------------------
(* Time and failures.                                                      *)

\* A request that the store keeps waiting over a tick, or an upstream call
\* that outlasts its time, justifies that the others give the grant up.
Tick ==
  /\ now < MaxTime /\ now' = now + 1
  /\ excused' = (excused \/ \E r \in Requests :
       \/ req[r].pc \in {"reference", "look", "claim", "reread", "commit", "revoke", "swap"}
       \/ req[r].pc = "upstream" /\ req[r].family.since + Inflight <= now + 1)
  /\ req' = [r \in Requests |-> IF req[r].pc = "waiting" THEN To(r, "look") ELSE req[r]]
  /\ UNCHANGED <<store, client, inbox, minted, presented, answers, retired, wrongs, sent>>

\* A gateway crashes.  Between the claim and the new generation it leaves a
\* grant that is refreshing for nobody.
Crash(r) ==
  /\ ~At(r, "idle")
  /\ Done(r)
  /\ excused' = (excused \/ req[r].pc \in {"upstream", "reread", "commit"})
  /\ UNCHANGED <<now, store, client, inbox, minted, presented, answers, retired, wrongs, sent>>

Init ==
  /\ now = 0 /\ store = Empty /\ req = [r \in Requests |-> Idle]
  /\ client = "none" /\ inbox = {} /\ minted = 0 /\ presented = {} /\ answers = {}
  /\ retired = {} /\ excused = FALSE /\ wrongs = {} /\ sent = 0

Next ==
  \/ Register \/ Authorize \/ Send \/ Tick
  \/ \E r \in Requests :
       \/ Callback(r) \/ Exchange(r) \/ Redeem(r) \/ Create(r)
       \/ ReadReference(r) \/ Look(r) \/ Wake(r) \/ Claim(r) \/ Upstream(r)
       \/ Reread(r) \/ Commit(r) \/ ReadToRevoke(r) \/ Swap(r) \/ Cleanup(r)
       \/ ReadAccess(r) \/ Identity(r) \/ Crash(r)

Spec == Init /\ [][Next]_vars

-----------------------------------------------------------------------------
(* Properties.                                                             *)

\* A login, a code or a refresh token that is presented again, by a retry or
\* by two requests at once, through one gateway or two, never leads to a
\* second chain of tokens: every answer to it is the same.
AnswersAgree == \A a, b \in answers : a[1] = b[1] => a[2] = b[2]

\* "Once an upstream request may have consumed a rotating token, retrying it
\* is unsafe" (refresh-grants.ts): after a crash, a refusal or a timeout, and
\* with any number of gateways, no upstream token is sent twice unless the
\* upstream kept it.
UpstreamTokenIsSentOnce == "spent" \notin wrongs

\* Both: what is handed out once is handed out once.
GrantsInvariant == AnswersAgree /\ UpstreamTokenIsSentOnce

\* A revoked grant stays revoked whatever was under way, and no bearer that
\* is presented afterwards is accepted.
RevokedIsOver ==
  /\ \A g \in 1..minted : RevokedIn(store, g) => RevokedIn(store', g)
  /\ "after" \notin wrongs'

\* A client that repeats a request whose answer it may have missed, in time
\* and with the token it was last given, does not lose its grant, as long as
\* no gateway crashes or hangs and the upstream does not fail.
RevocationIsJustified == "unjust" \notin wrongs'

\* Both, of every step: a grant is over when it should be, and then for good.
GrantsEndRightly == [][RevocationIsJustified /\ RevokedIsOver]_vars
=============================================================================
