------------------------- MODULE RefreshGrants_proofs -------------------------
(***************************************************************************)
(* Proofs about RefreshGrants for any number of requests and gateways and  *)
(* for all times to live: what is handed out once is handed out once, what *)
(* is revoked stays revoked, and no client that is in time is revoked.     *)
(***************************************************************************)
EXTENDS RefreshGrants, TLAPS

------------------------------------------------------------------------------
(* Types.  Every number in use was minted: the next one is new. *)

Pairs(m)  == {"pair"} \X (1..m)
Codes(m)  == {"code"} \X (1..m)
Plains(m) == {"plain"} \X (1..m)
Tokens(m) == {State} \union Codes(m) \union Pairs(m) \union Plains(m)

Receipts(m) ==
  [digest : Pairs(m), until : Nat, pair : Pairs(m), access : Nat] \union {NoReceipt}

Families(m) ==
  [expires : Nat, generation : Nat, status : {"active", "refreshing", "revoked"},
   assertion : Nat, upstream : 0..m, digest : Pairs(m), since : Nat, receipt : Receipts(m)]

Accesses(m)    == [grant : 0..m, generation : Nat, expires : Nat]
References(m)  == [grant : 1..m, generation : Nat]
CodeRecords(m) == [upstream : 0..m, expires : Nat, assertion : Nat]

\* What a request knows, by where it is.
AtRest           == [pc : {"idle", "callback"}]
AtExchange       == [pc : {"exchange"}, refresh : BOOLEAN]
AtRedeem(m)      == [pc : {"redeem"}, token : Codes(m)]
AtCreate(m)      == [pc : {"create"}, token : Codes(m), code : CodeRecords(m)]
AtReference(m)   == [pc : {"reference"}, token : Pairs(m)]
AtLook(m)        == [pc : {"look", "waiting", "revoke"}, token : Pairs(m), grant : 1..m,
                     generation : Nat, until : Nat]
AtFamily(m)      == [pc : {"claim", "upstream", "reread", "commit", "swap", "cleanup"},
                     token : Pairs(m), grant : 1..m, generation : Nat, until : Nat,
                     version : Nat, family : Families(m)]
AtBearer(m)      == [pc : {"bearer"}, token : Pairs(m) \union Plains(m), late : BOOLEAN]
AtIdentity(m)    == [pc : {"identity"}, access : Accesses(m), late : BOOLEAN]

RequestRecords(m) ==
  AtRest \union AtExchange \union AtRedeem(m) \union AtCreate(m) \union AtReference(m)
    \union AtLook(m) \union AtFamily(m) \union AtBearer(m) \union AtIdentity(m)

In(key)  == key \in DOMAIN store
Fam(g)   == store[Family(g)].value
Ver(g)   == store[Family(g)].version

StoreTypes(s, m) ==
  /\ \A g : Family(g) \in DOMAIN s =>
       g \in 1..m /\ s[Family(g)].value \in Families(m) /\ s[Family(g)].version \in Nat \ {0}
  /\ \A t : Access(t) \in DOMAIN s =>
       t \in Pairs(m) \union Plains(m) /\ s[Access(t)].value \in Accesses(m)
  /\ \A t : Refresh(t) \in DOMAIN s => s[Refresh(t)].value \in References(m)
  /\ \A c : Code(c) \in DOMAIN s => c \in Codes(m) /\ s[Code(c)].value \in CodeRecords(m)
  /\ Transaction \in DOMAIN s => s[Transaction].value \in [refresh : BOOLEAN]

Types ==
  /\ now \in Nat /\ minted \in Nat
  /\ req \in [Requests -> RequestRecords(minted)]
  /\ inbox \subseteq Tokens(minted)
  /\ presented \subseteq 1..minted
  /\ answers \subseteq Tokens(minted) \X Tokens(minted)
  /\ StoreTypes(store, minted)

------------------------------------------------------------------------------
(* Who works on a family. *)

\* Between its claim and its commit a request carries the family, from the upstream's
\* answer on with a new pair.
Carries(q) == q.pc \in {"upstream", "reread", "commit"}
Renewed(q) == q.pc \in {"reread", "commit"}
Versioned(q) == q.pc \in {"claim", "upstream", "reread", "commit", "swap"}

\* What a request makes of the family it read still fits it, if its version is still there.
Reads(q) ==
  /\ Versioned(q) => In(Family(q.grant)) /\ q.version \in 1..Ver(q.grant)
  /\ q.pc = "claim" =>
       /\ q.family.status = "refreshing" /\ q.family.digest = q.token /\ q.family.upstream # 0
       /\ q.version = Ver(q.grant) =>
            /\ Fam(q.grant).status = "active" /\ q.family.digest = Fam(q.grant).digest
            /\ q.family.upstream = Fam(q.grant).upstream
            /\ q.family.receipt = Fam(q.grant).receipt
  /\ Carries(q) =>
       /\ Fam(q.grant).digest = q.token /\ Fam(q.grant).status \in {"refreshing", "revoked"}
       /\ q.family.upstream # 0
  /\ Renewed(q) =>
       /\ q.family.status = "active" /\ q.family.receipt.digest = q.token
       /\ q.family.digest \notin {Fam(q.grant).digest, Fam(q.grant).receipt.digest}
  /\ q.pc = "commit" => (q.version = Ver(q.grant) => Fam(q.grant).status = "refreshing")
  /\ q.pc = "swap" => (q.version = Ver(q.grant) => q.family = Fam(q.grant))

ReadsFit == \A r \in Requests : Reads(req[r])

\* One request at a time carries a family.
Alone ==
  \A r, s \in Requests :
    Carries(req[r]) /\ Carries(req[s]) /\ req[r].grant = req[s].grant => r = s

\* The upstream tokens and the digests that a grant has, stored or carried.
UpstreamOf(g, u) ==
  \/ In(Family(g)) /\ Fam(g).upstream = u
  \/ \E r \in Requests : Carries(req[r]) /\ req[r].grant = g /\ req[r].family.upstream = u

DigestOf(g, t) ==
  \/ In(Family(g)) /\ t \in {Fam(g).digest, Fam(g).receipt.digest}
  \/ \E r \in Requests : Renewed(req[r]) /\ req[r].grant = g /\ req[r].family.digest = t

\* No two grants share one.
Owned ==
  /\ \A g, h, u : UpstreamOf(g, u) /\ UpstreamOf(h, u) /\ u # 0 => g = h
  /\ \A g, h, t : DigestOf(g, t) /\ DigestOf(h, t) /\ t # NoToken => g = h
  /\ \A g : In(Family(g)) => Fam(g).digest # Fam(g).receipt.digest

\* What may still be sent upstream was not.
Unspent ==
  /\ \A g : In(Family(g)) /\ Fam(g).status = "active" =>
       Fam(g).upstream # 0 /\ Fam(g).upstream \notin presented
  /\ \A r \in Requests : Renewed(req[r]) => req[r].family.upstream \notin presented

\* What was answered is no token that may still be exchanged, and the receipt repeats it.
Answered ==
  /\ \A a \in answers : \A g : In(Family(g)) =>
       /\ a[1] # Fam(g).digest
       /\ a[1] = Fam(g).receipt.digest => a[2] = Fam(g).receipt.pair
  /\ \A a \in answers, r \in Requests : Renewed(req[r]) => a[1] # req[r].family.digest
  /\ AnswersAgree

------------------------------------------------------------------------------
(* The login and its code. *)

Creating(r) == req[r].pc = "create"

\* The transaction, and after it the code, is in one place.
Taken ==
  /\ \A r \in Requests : req[r].pc = "exchange" => ~In(Transaction)
  /\ \A r, s \in Requests : req[r].pc = "exchange" /\ req[s].pc = "exchange" => r = s
  /\ State \notin inbox =>
       ~In(Transaction) /\ (\A r \in Requests : req[r].pc # "exchange") /\ \A a \in answers : a[1] # State
  /\ \A r \in Requests : \A c : Creating(r) /\ req[r].token = c => ~In(Code(c))
  /\ \A r, s \in Requests : Creating(r) /\ Creating(s) /\ req[r].token = req[s].token => r = s

\* Nothing was answered to what can still be taken.
Unanswered ==
  /\ \A a \in answers : In(Transaction) \/ (\E r \in Requests : req[r].pc = "exchange") => a[1] # State
  /\ \A a \in answers : \A c : In(Code(c)) => a[1] # c
  /\ \A a \in answers, r \in Requests : Creating(r) => a[1] # req[r].token

\* The upstream token of a code is its own: no grant has it, nobody sent it.
CodesOwn ==
  /\ \A c, u : In(Code(c)) /\ store[Code(c)].value.upstream = u /\ u # 0 =>
       u = c[2] /\ u \notin presented /\ \A g : ~UpstreamOf(g, u)
  /\ \A r \in Requests : \A u : Creating(r) /\ req[r].code.upstream = u /\ u # 0 =>
       u = req[r].token[2] /\ u \notin presented /\ \A g : ~UpstreamOf(g, u)

\* A bearer that is late finds its grant revoked.
LateIsLate ==
  \A r \in Requests :
    /\ \A t : req[r].pc = "bearer" /\ req[r].late /\ req[r].token = t =>
         In(Access(t)) /\ RevokedIn(store, store[Access(t)].value.grant)
    /\ req[r].pc = "identity" /\ req[r].late => RevokedIn(store, req[r].access.grant)

IInv ==
  /\ Types
  /\ ReadsFit
  /\ Alone
  /\ Owned
  /\ Unspent
  /\ Answered
  /\ Taken
  /\ Unanswered
  /\ CodesOwn
  /\ LateIsLate
  /\ wrongs \intersect {"spent", "after"} = {}

------------------------------------------------------------------------------
(* Lemmas on the store, the keys and the tokens. *)

\* Keys of different kinds differ.
LEMMA KeysDiffer ==
  /\ \A a, b : Family(a) = Family(b) => a = b
  /\ \A a, b : Access(a) = Access(b) => a = b
  /\ \A a, b : Refresh(a) = Refresh(b) => a = b
  /\ \A a, b : Code(a) = Code(b) => a = b
  /\ \A a, b : Family(a) # Access(b) /\ Family(a) # Refresh(b) /\ Family(a) # Code(b)
               /\ Family(a) # Transaction
  /\ \A a, b : Access(a) # Refresh(b) /\ Access(a) # Code(b) /\ Access(a) # Transaction
  /\ \A a, b : Refresh(a) # Code(b) /\ Refresh(a) # Transaction
  /\ \A a : Code(a) # Transaction
BY DEF Family, Access, Refresh, Code, Transaction

\* What put writes, and what it leaves alone.
LEMMA PutIs ==
  ASSUME NEW s, NEW key, NEW value, NEW until
  PROVE  /\ DOMAIN Put(s, key, value, until) = DOMAIN s \union {key}
         /\ Put(s, key, value, until)[key].value = value
         /\ Put(s, key, value, until)[key].version = LastVersion(s, key) + 1
         /\ \A k \in DOMAIN s : k # key => Put(s, key, value, until)[k] = s[k]
BY DEF Put

\* What take removes, and what it leaves alone.
LEMMA WithoutIs ==
  ASSUME NEW s, NEW key
  PROVE  /\ DOMAIN Without(s, key) = DOMAIN s \ {key}
         /\ \A k \in DOMAIN s : k # key => Without(s, key)[k] = s[k]
BY DEF Without

\* What is found is in the store, unless nothing is.
LEMMA FoundIs ==
  ASSUME NEW key
  PROVE  /\ Found(key) = None \/ (key \in DOMAIN store /\ Found(key) = store[key])
         /\ None.version = 0
BY DEF Found, Entry, None

\* A swap that is done found the version it compares with.
LEMMA SwapIs ==
  ASSUME NEW key, NEW version, version # 0, Unchanged(store, key, version, now)
  PROVE  key \in DOMAIN store /\ store[key].version = version
BY DEF Unchanged, Entry, None

\* Tokens of different kinds differ.
LEMMA TokensDiffer ==
  ASSUME NEW m
  PROVE  /\ State \notin Codes(m) /\ State \notin Pairs(m) /\ State \notin Plains(m)
         /\ NoToken \notin Pairs(m)
         /\ Codes(m) \intersect Pairs(m) = {} /\ Codes(m) \intersect Plains(m) = {}
         /\ Pairs(m) \intersect Plains(m) = {}
         /\ \A t \in Codes(m) : t[1] = "code" /\ t[2] \in 1..m
         /\ \A t \in Pairs(m) : t[1] = "pair" /\ t[2] \in 1..m
         /\ \A t \in Plains(m) : t[1] = "plain" /\ t[2] \in 1..m
         /\ State[1] = "state"
BY DEF State, NoToken, Codes, Pairs, Plains

LEMMA MadeTokens ==
  ASSUME NEW m, NEW n \in 1..m
  PROVE  <<"pair", n>> \in Pairs(m) /\ <<"code", n>> \in Codes(m) /\ <<"plain", n>> \in Plains(m)
BY DEF Codes, Pairs, Plains

\* A token is new when its number is.
LEMMA NewTokens ==
  ASSUME NEW m \in Nat, NEW k \in {"code", "pair", "plain"}
  PROVE  /\ <<k, m + 1>> \notin Tokens(m)
         /\ <<k, m + 1>> \notin Codes(m) \union Pairs(m) \union Plains(m)
<1>1. m + 1 \notin 1..m
  OBVIOUS
<1>2. <<k, m + 1>> \notin Codes(m) \union Pairs(m) \union Plains(m)
  BY <1>1 DEF Codes, Pairs, Plains
<1>3. <<k, m + 1>> # State
  BY DEF State
<1> QED BY <1>2, <1>3 DEF Tokens

------------------------------------------------------------------------------
(* Lemmas on the types. *)

\* What was minted stays minted.
LEMMA TokensGrow ==
  ASSUME NEW m \in Nat, NEW n \in Nat, m <= n
  PROVE  /\ Pairs(m) \subseteq Pairs(n) /\ Codes(m) \subseteq Codes(n) /\ Plains(m) \subseteq Plains(n)
         /\ Tokens(m) \subseteq Tokens(n) /\ 1..m \subseteq 1..n /\ 0..m \subseteq 0..n
BY DEF Pairs, Codes, Plains, Tokens

LEMMA RecordsGrow ==
  ASSUME NEW m \in Nat, NEW n \in Nat, m <= n
  PROVE  /\ Families(m) \subseteq Families(n) /\ Accesses(m) \subseteq Accesses(n)
         /\ References(m) \subseteq References(n) /\ CodeRecords(m) \subseteq CodeRecords(n)
<1>1. Receipts(m) \subseteq Receipts(n)
  BY TokensGrow DEF Receipts
<1>2. Families(m) \subseteq Families(n)
  BY <1>1, TokensGrow DEF Families
<1>3. /\ Accesses(m) \subseteq Accesses(n)
      /\ References(m) \subseteq References(n) /\ CodeRecords(m) \subseteq CodeRecords(n)
  BY TokensGrow DEF Accesses, References, CodeRecords
<1> QED BY <1>2, <1>3

LEMMA RequestsGrow ==
  ASSUME NEW m \in Nat, NEW n \in Nat, m <= n
  PROVE  RequestRecords(m) \subseteq RequestRecords(n)
<1>1. AtRedeem(m) \subseteq AtRedeem(n) /\ AtReference(m) \subseteq AtReference(n)
  BY TokensGrow DEF AtRedeem, AtReference
<1>2. AtCreate(m) \subseteq AtCreate(n)
  BY TokensGrow, RecordsGrow DEF AtCreate
<1>3. AtLook(m) \subseteq AtLook(n)
  BY TokensGrow DEF AtLook
<1>4. AtFamily(m) \subseteq AtFamily(n)
  BY TokensGrow, RecordsGrow DEF AtFamily
<1>5. AtBearer(m) \subseteq AtBearer(n)
  BY TokensGrow DEF AtBearer
<1>6. AtIdentity(m) \subseteq AtIdentity(n)
  BY RecordsGrow DEF AtIdentity
<1> QED BY <1>1, <1>2, <1>3, <1>4, <1>5, <1>6 DEF RequestRecords

\* What a request knows, by where it is.
LEMMA RequestKnows ==
  ASSUME NEW m, NEW q \in RequestRecords(m)
  PROVE  /\ q.pc \in {"idle", "callback"} => q \in AtRest
         /\ q.pc = "exchange" => q \in AtExchange
         /\ q.pc = "redeem" => q \in AtRedeem(m)
         /\ q.pc = "create" => q \in AtCreate(m)
         /\ q.pc = "reference" => q \in AtReference(m)
         /\ q.pc \in {"look", "waiting", "revoke"} => q \in AtLook(m)
         /\ Versioned(q) \/ q.pc = "cleanup" => q \in AtFamily(m)
         /\ q.pc = "bearer" => q \in AtBearer(m)
         /\ q.pc = "identity" => q \in AtIdentity(m)
<1> DEFINE Pcs(S, P) == \A x \in S : x.pc \in P
<1>1. /\ Pcs(AtRest, {"idle", "callback"}) /\ Pcs(AtExchange, {"exchange"})
      /\ Pcs(AtRedeem(m), {"redeem"}) /\ Pcs(AtCreate(m), {"create"})
      /\ Pcs(AtReference(m), {"reference"}) /\ Pcs(AtBearer(m), {"bearer"})
      /\ Pcs(AtLook(m), {"look", "waiting", "revoke"}) /\ Pcs(AtIdentity(m), {"identity"})
  BY DEF AtRest, AtExchange, AtRedeem, AtCreate, AtReference, AtBearer, AtLook, AtIdentity
<1>2. Pcs(AtFamily(m), {"claim", "upstream", "reread", "commit", "swap", "cleanup"})
  BY DEF AtFamily
<1> QED BY <1>1, <1>2 DEF RequestRecords, Versioned

LEMMA StoreGrows ==
  ASSUME NEW s, NEW m \in Nat, NEW n \in Nat, m <= n, StoreTypes(s, m)
  PROVE  StoreTypes(s, n)
BY TokensGrow, RecordsGrow DEF StoreTypes

\* Writing an entry of the right kind keeps the store of the right kind.
LEMMA PutFamilyTypes ==
  ASSUME NEW s, NEW m \in Nat, StoreTypes(s, m), NEW g \in 1..m, NEW f \in Families(m), NEW until
  PROVE  StoreTypes(Put(s, Family(g), f, until), m)
<1> DEFINE p == Put(s, Family(g), f, until)
<1>1. /\ DOMAIN p = DOMAIN s \union {Family(g)} /\ p[Family(g)].value = f
      /\ p[Family(g)].version = LastVersion(s, Family(g)) + 1
      /\ \A k \in DOMAIN s : k # Family(g) => p[k] = s[k]
  BY DEF Put
<1>2. LastVersion(s, Family(g)) \in Nat
  BY DEF LastVersion, StoreTypes
<1> HIDE DEF p
<1>3. \A h : Family(h) \in DOMAIN p =>
        h \in 1..m /\ p[Family(h)].value \in Families(m) /\ p[Family(h)].version \in Nat \ {0}
  <2> SUFFICES ASSUME NEW h, Family(h) \in DOMAIN p
               PROVE  h \in 1..m /\ p[Family(h)].value \in Families(m)
                      /\ p[Family(h)].version \in Nat \ {0}
    OBVIOUS
  <2>1. CASE h = g
    BY <1>1, <1>2, <2>1
  <2>2. CASE h # g
    <3>1. Family(h) # Family(g) /\ Family(h) \in DOMAIN s /\ p[Family(h)] = s[Family(h)]
      BY <1>1, <2>2, KeysDiffer
    <3> QED BY <3>1 DEF StoreTypes
  <2> QED BY <2>1, <2>2
<1>4. /\ \A t : Access(t) \in DOMAIN p => Access(t) \in DOMAIN s /\ p[Access(t)] = s[Access(t)]
      /\ \A t : Refresh(t) \in DOMAIN p => Refresh(t) \in DOMAIN s /\ p[Refresh(t)] = s[Refresh(t)]
      /\ \A c : Code(c) \in DOMAIN p => Code(c) \in DOMAIN s /\ p[Code(c)] = s[Code(c)]
      /\ Transaction \in DOMAIN p => Transaction \in DOMAIN s /\ p[Transaction] = s[Transaction]
  BY <1>1, KeysDiffer
<1>5. StoreTypes(p, m)
  BY <1>3, <1>4 DEF StoreTypes
<1> QED BY <1>5 DEF p

\* The same of the other kinds: a put leaves the entries of other kinds alone.
LEMMA PutAccessTypes ==
  ASSUME NEW s, NEW m \in Nat, StoreTypes(s, m), NEW t \in Pairs(m) \union Plains(m),
         NEW a \in Accesses(m), NEW until
  PROVE  StoreTypes(Put(s, Access(t), a, until), m)
<1> DEFINE p == Put(s, Access(t), a, until)
<1>1. /\ DOMAIN p = DOMAIN s \union {Access(t)} /\ p[Access(t)].value = a
      /\ \A k \in DOMAIN s : k # Access(t) => p[k] = s[k]
  BY DEF Put
<1> HIDE DEF p
<1>2. /\ \A g : Family(g) \in DOMAIN p => Family(g) \in DOMAIN s /\ p[Family(g)] = s[Family(g)]
      /\ \A u : Refresh(u) \in DOMAIN p => Refresh(u) \in DOMAIN s /\ p[Refresh(u)] = s[Refresh(u)]
      /\ \A c : Code(c) \in DOMAIN p => Code(c) \in DOMAIN s /\ p[Code(c)] = s[Code(c)]
      /\ Transaction \in DOMAIN p => Transaction \in DOMAIN s /\ p[Transaction] = s[Transaction]
      /\ \A u : Access(u) \in DOMAIN p =>
           u = t \/ (u # t /\ Access(u) \in DOMAIN s /\ p[Access(u)] = s[Access(u)])
  BY <1>1, KeysDiffer
<1>3. StoreTypes(p, m)
  BY <1>1, <1>2 DEF StoreTypes
<1> QED BY <1>3 DEF p

LEMMA PutRefreshTypes ==
  ASSUME NEW s, NEW m \in Nat, StoreTypes(s, m), NEW t, NEW a \in References(m), NEW until
  PROVE  StoreTypes(Put(s, Refresh(t), a, until), m)
<1> DEFINE p == Put(s, Refresh(t), a, until)
<1>1. /\ DOMAIN p = DOMAIN s \union {Refresh(t)} /\ p[Refresh(t)].value = a
      /\ \A k \in DOMAIN s : k # Refresh(t) => p[k] = s[k]
  BY DEF Put
<1> HIDE DEF p
<1>2. /\ \A g : Family(g) \in DOMAIN p => Family(g) \in DOMAIN s /\ p[Family(g)] = s[Family(g)]
      /\ \A u : Access(u) \in DOMAIN p => Access(u) \in DOMAIN s /\ p[Access(u)] = s[Access(u)]
      /\ \A c : Code(c) \in DOMAIN p => Code(c) \in DOMAIN s /\ p[Code(c)] = s[Code(c)]
      /\ Transaction \in DOMAIN p => Transaction \in DOMAIN s /\ p[Transaction] = s[Transaction]
      /\ \A u : Refresh(u) \in DOMAIN p =>
           u = t \/ (u # t /\ Refresh(u) \in DOMAIN s /\ p[Refresh(u)] = s[Refresh(u)])
  BY <1>1, KeysDiffer
<1>3. StoreTypes(p, m)
  BY <1>1, <1>2 DEF StoreTypes
<1> QED BY <1>3 DEF p

LEMMA PutCodeTypes ==
  ASSUME NEW s, NEW m \in Nat, StoreTypes(s, m), NEW c \in Codes(m), NEW a \in CodeRecords(m),
         NEW until
  PROVE  StoreTypes(Put(s, Code(c), a, until), m)
<1> DEFINE p == Put(s, Code(c), a, until)
<1>1. /\ DOMAIN p = DOMAIN s \union {Code(c)} /\ p[Code(c)].value = a
      /\ \A k \in DOMAIN s : k # Code(c) => p[k] = s[k]
  BY DEF Put
<1> HIDE DEF p
<1>2. /\ \A g : Family(g) \in DOMAIN p => Family(g) \in DOMAIN s /\ p[Family(g)] = s[Family(g)]
      /\ \A u : Access(u) \in DOMAIN p => Access(u) \in DOMAIN s /\ p[Access(u)] = s[Access(u)]
      /\ \A u : Refresh(u) \in DOMAIN p => Refresh(u) \in DOMAIN s /\ p[Refresh(u)] = s[Refresh(u)]
      /\ Transaction \in DOMAIN p => Transaction \in DOMAIN s /\ p[Transaction] = s[Transaction]
      /\ \A u : Code(u) \in DOMAIN p =>
           u = c \/ (u # c /\ Code(u) \in DOMAIN s /\ p[Code(u)] = s[Code(u)])
  BY <1>1, KeysDiffer
<1>3. StoreTypes(p, m)
  BY <1>1, <1>2 DEF StoreTypes
<1> QED BY <1>3 DEF p

LEMMA PutTransactionTypes ==
  ASSUME NEW s, NEW m \in Nat, StoreTypes(s, m), NEW a \in [refresh : BOOLEAN], NEW until
  PROVE  StoreTypes(Put(s, Transaction, a, until), m)
<1> DEFINE p == Put(s, Transaction, a, until)
<1>1. /\ DOMAIN p = DOMAIN s \union {Transaction} /\ p[Transaction].value = a
      /\ \A k \in DOMAIN s : k # Transaction => p[k] = s[k]
  BY DEF Put
<1> HIDE DEF p
<1>2. /\ \A g : Family(g) \in DOMAIN p => Family(g) \in DOMAIN s /\ p[Family(g)] = s[Family(g)]
      /\ \A u : Access(u) \in DOMAIN p => Access(u) \in DOMAIN s /\ p[Access(u)] = s[Access(u)]
      /\ \A u : Refresh(u) \in DOMAIN p => Refresh(u) \in DOMAIN s /\ p[Refresh(u)] = s[Refresh(u)]
      /\ \A c : Code(c) \in DOMAIN p => Code(c) \in DOMAIN s /\ p[Code(c)] = s[Code(c)]
  BY <1>1, KeysDiffer
<1>3. StoreTypes(p, m)
  BY <1>1, <1>2 DEF StoreTypes
<1> QED BY <1>3 DEF p

LEMMA WithoutTypes ==
  ASSUME NEW s, NEW m, StoreTypes(s, m), NEW key
  PROVE  StoreTypes(Without(s, key), m)
<1> DEFINE p == Without(s, key)
<1>1. \A k \in DOMAIN p : k \in DOMAIN s /\ p[k] = s[k]
  BY WithoutIs
<1> HIDE DEF p
<1>2. StoreTypes(p, m)
  BY <1>1 DEF StoreTypes
<1> QED BY <1>2 DEF p

------------------------------------------------------------------------------
(* Every step keeps the types. *)

LEMMA GoTypes ==
  ASSUME Types, minted' \in Nat, minted <= minted',
         NEW r \in Requests, NEW q \in RequestRecords(minted'), Go(r, q)
  PROVE  req' \in [Requests -> RequestRecords(minted')]
<1>1. RequestRecords(minted) \subseteq RequestRecords(minted')
  BY RequestsGrow DEF Types
<1> QED BY <1>1 DEF Types, Go

\* What changes is of the right kind, and the rest grows with what was minted.
LEMMA TypesGrow ==
  ASSUME Types, minted' \in Nat, minted <= minted', now' \in Nat,
         req' \in [Requests -> RequestRecords(minted')],
         StoreTypes(store', minted'),
         inbox' \subseteq inbox \union Tokens(minted'),
         presented' \subseteq 1..minted',
         answers' \subseteq answers \union (Tokens(minted') \X Tokens(minted'))
  PROVE  Types'
<1>1. Tokens(minted) \subseteq Tokens(minted')
  BY TokensGrow DEF Types
<1>2. inbox' \subseteq Tokens(minted')
  BY <1>1 DEF Types
<1>3. answers \subseteq Tokens(minted') \X Tokens(minted')
  BY <1>1 DEF Types
<1> QED BY <1>2, <1>3 DEF Types

\* Nothing is minted, answered or sent upstream.
LEMMA TypesKept ==
  ASSUME Types, UNCHANGED <<minted, now, presented>>,
         req' \in [Requests -> RequestRecords(minted)],
         StoreTypes(store', minted),
         inbox' \subseteq inbox \union Tokens(minted),
         answers' \subseteq answers \union (Tokens(minted) \X Tokens(minted))
  PROVE  Types'
BY TypesGrow DEF Types

LEMMA RestIsRecord ==
  ASSUME NEW m, NEW pc \in {"idle", "callback"}
  PROVE  [pc |-> pc] \in RequestRecords(m)
BY DEF RequestRecords, AtRest

LEMMA DoneTypes ==
  ASSUME Types, NEW r \in Requests, Done(r), UNCHANGED minted
  PROVE  req' \in [Requests -> RequestRecords(minted)]
<1>1. Idle \in RequestRecords(minted)
  BY RestIsRecord DEF Idle
<1>2. Go(r, Idle) /\ minted' \in Nat /\ minted <= minted'
  BY DEF Done, Types
<1> QED BY <1>1, <1>2, GoTypes

\* One request moves on.
LEMMA GoesTypes ==
  ASSUME Types, UNCHANGED <<minted, now, presented, inbox, answers>>,
         StoreTypes(store', minted),
         NEW r \in Requests, NEW q \in RequestRecords(minted), Go(r, q)
  PROVE  Types'
<1>1. req' \in [Requests -> RequestRecords(minted)]
  BY GoTypes DEF Types
<1> QED BY <1>1, TypesKept

LEMMA EndsTypes ==
  ASSUME Types, UNCHANGED <<minted, now, presented, inbox, answers>>,
         StoreTypes(store', minted), NEW r \in Requests, Done(r)
  PROVE  Types'
BY DoneTypes, TypesKept

LEMMA OthersTypes ==
  ASSUME Types, Register \/ Authorize
  PROVE  Types'
<1>1. CASE Register
  BY <1>1 DEF Register, Types
<1>2. CASE Authorize
  <2>1. StoreTypes(store', minted)
    BY <1>2, PutTransactionTypes DEF Authorize, Types
  <2>2. inbox' \subseteq inbox \union Tokens(minted)
    BY <1>2 DEF Authorize, Tokens
  <2>3. req' \in [Requests -> RequestRecords(minted)] /\ UNCHANGED <<minted, now, presented, answers>>
    BY <1>2 DEF Authorize, Types
  <2> QED BY <2>1, <2>2, <2>3, TypesKept
<1> QED BY <1>1, <1>2

LEMMA SendTypes ==
  ASSUME Types, Send
  PROVE  Types'
<1>1. PICK r \in Requests, token \in inbox :
        /\ At(r, "idle")
        /\ \/ token[1] = "state" /\ Go(r, [pc |-> "callback"]) /\ UNCHANGED excused
           \/ token[1] = "code" /\ Go(r, [pc |-> "redeem", token |-> token]) /\ UNCHANGED excused
           \/ /\ token[1] = "pair" /\ Go(r, [pc |-> "reference", token |-> token])
              /\ excused' = (excused \/ Stale(token) \/ Overtakes(token))
           \/ /\ token[1] \in {"pair", "plain"}
              /\ LET access == Found(Access(token))
                 IN  Go(r, [pc |-> "bearer", token |-> token,
                            late |-> access # None /\ RevokedIn(store, access.value.grant)])
              /\ UNCHANGED excused
  BY DEF Send
<1>2. UNCHANGED <<minted, now, presented, inbox, answers, store>> /\ StoreTypes(store', minted)
  BY DEF Send, Types
<1>3. token \in Tokens(minted)
  BY DEF Types
<1>4. CASE token[1] = "state" /\ Go(r, [pc |-> "callback"])
  BY <1>2, <1>4, RestIsRecord, GoesTypes
<1>5. CASE token[1] = "code" /\ Go(r, [pc |-> "redeem", token |-> token])
  <2>1. token \in Codes(minted)
    BY <1>3, <1>5, TokensDiffer DEF Tokens
  <2>2. [pc |-> "redeem", token |-> token] \in RequestRecords(minted)
    BY <2>1 DEF RequestRecords, AtRedeem
  <2> QED BY <1>2, <1>5, <2>2, GoesTypes
<1>6. CASE token[1] = "pair" /\ Go(r, [pc |-> "reference", token |-> token])
  <2>1. token \in Pairs(minted)
    BY <1>3, <1>6, TokensDiffer DEF Tokens
  <2>2. [pc |-> "reference", token |-> token] \in RequestRecords(minted)
    BY <2>1 DEF RequestRecords, AtReference
  <2> QED BY <1>2, <1>6, <2>2, GoesTypes
<1>7. ASSUME token[1] \in {"pair", "plain"}, NEW late \in BOOLEAN,
             Go(r, [pc |-> "bearer", token |-> token, late |-> late])
      PROVE  Types'
  <2>1. token \in Pairs(minted) \union Plains(minted)
    BY <1>3, <1>7, TokensDiffer DEF Tokens
  <2>2. [pc |-> "bearer", token |-> token, late |-> late] \in RequestRecords(minted)
    BY <2>1 DEF RequestRecords, AtBearer
  <2> QED BY <1>2, <1>7, <2>2, GoesTypes
<1>8. CASE /\ token[1] \in {"pair", "plain"}
           /\ LET access == Found(Access(token))
              IN  Go(r, [pc |-> "bearer", token |-> token,
                         late |-> access # None /\ RevokedIn(store, access.value.grant)])
  <2> DEFINE late == Found(Access(token)) # None /\ RevokedIn(store, Found(Access(token)).value.grant)
  <2>1. late \in BOOLEAN
    OBVIOUS
  <2>2. Go(r, [pc |-> "bearer", token |-> token, late |-> late])
    BY <1>8
  <2> HIDE DEF late
  <2> QED BY <1>7, <1>8, <2>1, <2>2
<1> QED BY <1>1, <1>4, <1>5, <1>6, <1>8

\* Tick and Crash move requests to where they may be.
LEMMA TickTypes ==
  ASSUME Types, Tick
  PROVE  Types'
<1>1. UNCHANGED <<minted, presented, inbox, answers, store>> /\ now' \in Nat
  BY DEF Tick, Types
<1>2. ASSUME NEW r \in Requests PROVE req'[r] \in RequestRecords(minted)
  <2>1. req'[r] = IF req[r].pc = "waiting" THEN To(r, "look") ELSE req[r]
    BY DEF Tick
  <2>2. req[r] \in RequestRecords(minted)
    BY DEF Types
  <2>3. ASSUME req[r].pc = "waiting" PROVE To(r, "look") \in RequestRecords(minted)
    <3>1. req[r] \in AtLook(minted)
      BY <2>2, <2>3, RequestKnows
    <3>2. To(r, "look") \in AtLook(minted)
      BY <3>1 DEF To, AtLook
    <3> QED BY <3>2 DEF RequestRecords
  <2> QED BY <2>1, <2>2, <2>3
<1>3. req' \in [Requests -> RequestRecords(minted)]
  BY <1>2 DEF Tick
<1> QED BY <1>1, <1>3, TypesGrow DEF Types

LEMMA CrashTypes ==
  ASSUME Types, NEW r \in Requests, Crash(r) \/ Cleanup(r) \/ Identity(r)
  PROVE  Types'
<1>1. UNCHANGED <<minted, now, presented, inbox, answers, store>> /\ Done(r)
  BY DEF Crash, Cleanup, Identity
<1> QED BY <1>1, EndsTypes DEF Types

LEMMA FlowTypes ==
  ASSUME Types, NEW r \in Requests, Callback(r) \/ Redeem(r) \/ ReadReference(r) \/ ReadAccess(r)
  PROVE  Types'
<1>1. UNCHANGED <<minted, now, presented, inbox, answers>> /\ StoreTypes(store, minted)
      /\ now \in Nat
  BY DEF Callback, Redeem, ReadReference, ReadAccess, Types
<1>2. CASE Done(r) /\ StoreTypes(store', minted)
  BY <1>1, <1>2, EndsTypes
<1>3. CASE Callback(r)
  <2>1. StoreTypes(store', minted)
    BY <1>1, <1>3, WithoutTypes DEF Callback
  <2>2. CASE Found(Transaction) = None
    BY <1>2, <1>3, <2>1, <2>2 DEF Callback
  <2>3. CASE Found(Transaction) # None
    <3>1. Found(Transaction).value \in [refresh : BOOLEAN]
      BY <1>1, <2>3, FoundIs DEF StoreTypes
    <3>2. [pc |-> "exchange", refresh |-> Found(Transaction).value.refresh] \in RequestRecords(minted)
      BY <3>1 DEF RequestRecords, AtExchange
    <3>3. Go(r, [pc |-> "exchange", refresh |-> Found(Transaction).value.refresh])
      BY <1>3, <2>3 DEF Callback
    <3> QED BY <1>1, <2>1, <3>2, <3>3, GoesTypes
  <2> QED BY <2>2, <2>3
<1>4. CASE Redeem(r)
  <2> DEFINE code == Found(Code(req[r].token))
  <2>1. StoreTypes(store', minted)
    BY <1>1, <1>4, WithoutTypes DEF Redeem
  <2>2. CASE Done(r)
    BY <1>2, <2>1, <2>2
  <2>3. CASE code # None /\ Go(r, [pc |-> "create", token |-> req[r].token, code |-> code.value])
    <3>1. code.value \in CodeRecords(minted)
      BY <1>1, <2>3, FoundIs DEF StoreTypes
    <3>2. req[r] \in AtRedeem(minted)
      BY <1>4, RequestKnows DEF Redeem, At, Types
    <3> HIDE DEF code
    <3>3. [pc |-> "create", token |-> req[r].token, code |-> code.value] \in RequestRecords(minted)
      BY <3>1, <3>2 DEF RequestRecords, AtRedeem, AtCreate
    <3> QED BY <1>1, <2>1, <2>3, <3>3, GoesTypes
  <2> QED BY <1>4, <2>2, <2>3 DEF Redeem
<1>5. CASE ReadReference(r)
  <2> DEFINE reference == Found(Refresh(req[r].token))
  <2>1. StoreTypes(store', minted)
    BY <1>1, <1>5 DEF ReadReference
  <2>2. CASE Done(r)
    BY <1>2, <2>1, <2>2
  <2>3. CASE reference # None
             /\ Go(r, [pc |-> "look", token |-> req[r].token, grant |-> reference.value.grant,
                       generation |-> reference.value.generation, until |-> now + Inflight])
    <3>1. reference.value \in References(minted)
      BY <1>1, <2>3, FoundIs DEF StoreTypes
    <3>2. req[r] \in AtReference(minted)
      BY <1>5, RequestKnows DEF ReadReference, At, Types
    <3>3. now + Inflight \in Nat
      BY <1>1, TimesAssumption
    <3> HIDE DEF reference
    <3>4. [pc |-> "look", token |-> req[r].token, grant |-> reference.value.grant,
           generation |-> reference.value.generation, until |-> now + Inflight] \in AtLook(minted)
      BY <3>1, <3>2, <3>3 DEF AtReference, AtLook, References
    <3> QED BY <1>1, <2>1, <2>3, <3>4, GoesTypes DEF RequestRecords
  <2> QED BY <1>5, <2>2, <2>3 DEF ReadReference
<1>6. CASE ReadAccess(r)
  <2> DEFINE access == Found(Access(req[r].token))
  <2>1. StoreTypes(store', minted)
    BY <1>1, <1>6 DEF ReadAccess
  <2>2. CASE Done(r)
    BY <1>2, <2>1, <2>2
  <2>3. CASE access # None
             /\ Go(r, [pc |-> "identity", access |-> access.value, late |-> req[r].late])
    <3>1. access.value \in Accesses(minted)
      BY <1>1, <2>3, FoundIs DEF StoreTypes
    <3>2. req[r] \in AtBearer(minted)
      BY <1>6, RequestKnows DEF ReadAccess, At, Types
    <3> HIDE DEF access
    <3>3. [pc |-> "identity", access |-> access.value, late |-> req[r].late] \in AtIdentity(minted)
      BY <3>1, <3>2 DEF AtBearer, AtIdentity
    <3> QED BY <1>1, <2>1, <2>3, <3>3, GoesTypes DEF RequestRecords
  <2> QED BY <1>6, <2>2, <2>3 DEF ReadAccess
<1> QED BY <1>3, <1>4, <1>5, <1>6

\* An answer is a token that was made.
LEMMA AnswerTypes ==
  ASSUME Types, minted' \in Nat, minted <= minted', now' = now, presented' = presented,
         StoreTypes(store', minted'), NEW r \in Requests,
         NEW t \in Tokens(minted'), NEW u \in Tokens(minted'), Answer(r, t, u)
  PROVE  Types'
<1>1. req' \in [Requests -> RequestRecords(minted')]
  BY GoTypes, RestIsRecord DEF Answer, Done, Idle
<1>2. inbox' \subseteq inbox \union Tokens(minted')
  BY DEF Answer
<1>3. answers' \subseteq answers \union (Tokens(minted') \X Tokens(minted'))
  BY DEF Answer
<1>4. presented' \subseteq 1..minted'
  BY TokensGrow DEF Types
<1> QED BY <1>1, <1>2, <1>3, <1>4, TypesGrow DEF Types

LEMMA ExchangeTypes ==
  ASSUME Types, NEW r \in Requests, Exchange(r)
  PROVE  Types'
<1>1. CASE Done(r) /\ UNCHANGED <<store, inbox, minted, answers>>
  BY <1>1, EndsTypes DEF Exchange, Types
<1>2. CASE /\ minted' = minted + 1
           /\ store' = Put(store, Code(<<"code", minted + 1>>),
                           [upstream |-> IF req[r].refresh THEN minted + 1 ELSE 0,
                            expires |-> now + GrantTtl, assertion |-> now + AssertionTtl],
                           now + Min(CodeTtl, AssertionTtl))
           /\ Answer(r, State, <<"code", minted + 1>>)
  <2> DEFINE a == [upstream |-> IF req[r].refresh THEN minted + 1 ELSE 0,
                   expires |-> now + GrantTtl, assertion |-> now + AssertionTtl]
  <2>1. minted \in Nat /\ minted' \in Nat /\ minted <= minted' /\ minted + 1 \in 1..minted'
        /\ 0 \in 0..minted' /\ minted + 1 \in 0..minted'
    BY <1>2 DEF Types
  <2>2. now + GrantTtl \in Nat /\ now + AssertionTtl \in Nat
    BY TimesAssumption DEF Types
  <2>3. a \in CodeRecords(minted')
    BY <2>1, <2>2 DEF CodeRecords
  <2>4. <<"code", minted + 1>> \in Codes(minted')
    BY <2>1, MadeTokens
  <2>5. StoreTypes(store, minted')
    BY <2>1, StoreGrows DEF Types
  <2> HIDE DEF a
  <2>6. StoreTypes(store', minted')
    BY <1>2, <2>1, <2>3, <2>4, <2>5, PutCodeTypes DEF a
  <2>7. State \in Tokens(minted') /\ <<"code", minted + 1>> \in Tokens(minted')
    BY <2>4 DEF Tokens
  <2> QED BY <1>2, <2>1, <2>6, <2>7, AnswerTypes DEF Exchange
<1> QED BY <1>1, <1>2 DEF Exchange

\* The two records of a new pair are of their kinds.
LEMMA PairTypes ==
  ASSUME NEW m \in Nat, StoreTypes(store, m), NEW pair \in Pairs(m), NEW g \in 1..m,
         NEW n \in Nat, NEW access \in Nat, NEW expires
  PROVE  StoreTypes(WithPair(pair, g, n, access, expires), m)
<1>1. [grant |-> g, generation |-> n, expires |-> access] \in Accesses(m)
      /\ [grant |-> g, generation |-> n] \in References(m)
  BY DEF Accesses, References
<1>2. StoreTypes(Put(store, Access(pair), [grant |-> g, generation |-> n, expires |-> access], access), m)
  BY <1>1, PutAccessTypes
<1> QED BY <1>1, <1>2, PutRefreshTypes DEF WithPair

LEMMA MinIs ==
  ASSUME NEW a \in Nat, NEW b \in Nat
  PROVE  Min(a, b) \in Nat /\ Min(a, b) <= a /\ Min(a, b) <= b
BY DEF Min

\* The family a code becomes.
NewFamily(code, pair) ==
  [expires |-> code.expires, generation |-> 0, status |-> "active",
   assertion |-> code.assertion, upstream |-> code.upstream, digest |-> pair,
   since |-> 0, receipt |-> NoReceipt]

\* The three ways a code ends.
LEMMA CreateIs ==
  ASSUME NEW r \in Requests, Create(r)
  PROVE  LET code == req[r].code
             access == Min(code.assertion, code.expires)
             pair == <<"pair", minted + 1>>
         IN  /\ At(r, "create") /\ UNCHANGED <<now, client, presented, retired, excused, wrongs, sent>>
             /\ \/ Done(r) /\ UNCHANGED <<store, inbox, answers, minted>>
                \/ /\ minted' = minted + 1 /\ Answer(r, req[r].token, <<"plain", minted + 1>>)
                   /\ store' = Put(store, Access(<<"plain", minted + 1>>),
                                   [grant |-> 0, generation |-> 0, expires |-> code.assertion],
                                   code.assertion)
                \/ /\ minted' = minted + 1 /\ Answer(r, req[r].token, pair)
                   /\ code.upstream # 0
                   /\ store' = Put(WithPair(pair, minted + 1, 0, access, code.expires),
                                   Family(minted + 1), NewFamily(code, pair), code.expires)
BY DEF Create, NewFamily

LEMMA CreateTypes ==
  ASSUME Types, NEW r \in Requests, Create(r)
  PROVE  Types'
<1> DEFINE code == req[r].code
           access == Min(code.assertion, code.expires)
           pair == <<"pair", minted + 1>>
<1>1. /\ At(r, "create") /\ UNCHANGED <<now, presented>>
      /\ \/ Done(r) /\ UNCHANGED <<store, inbox, answers, minted>>
         \/ /\ minted' = minted + 1 /\ Answer(r, req[r].token, <<"plain", minted + 1>>)
            /\ store' = Put(store, Access(<<"plain", minted + 1>>),
                            [grant |-> 0, generation |-> 0, expires |-> code.assertion],
                            code.assertion)
         \/ /\ minted' = minted + 1 /\ Answer(r, req[r].token, pair)
            /\ store' = Put(WithPair(pair, minted + 1, 0, access, code.expires),
                            Family(minted + 1), NewFamily(code, pair), code.expires)
  BY CreateIs
<1>2. req[r] \in AtCreate(minted)
  BY <1>1, RequestKnows DEF At, Types
<1>3. code \in CodeRecords(minted) /\ req[r].token \in Codes(minted)
  BY <1>2 DEF AtCreate
<1> DEFINE n == minted + 1
<1>4. minted \in Nat /\ n \in Nat /\ minted <= n /\ n \in 1..n /\ 0 \in 0..n
  BY DEF Types
<1>5. <<"pair", n>> \in Pairs(n) /\ <<"plain", n>> \in Plains(n) /\ req[r].token \in Codes(n)
      /\ code \in CodeRecords(n)
  <2> HIDE DEF code, n
  <2>1. <<"pair", n>> \in Pairs(n) /\ <<"plain", n>> \in Plains(n)
    BY <1>4, MadeTokens
  <2>2. Codes(minted) \subseteq Codes(n)
    BY <1>4, TokensGrow
  <2>3. CodeRecords(minted) \subseteq CodeRecords(n)
    BY <1>4, RecordsGrow
  <2> QED BY <1>3, <2>1, <2>2, <2>3
<1>6. StoreTypes(store, n)
  BY <1>4, StoreGrows DEF Types
<1>7. req[r].token \in Tokens(n) /\ <<"pair", n>> \in Tokens(n) /\ <<"plain", n>> \in Tokens(n)
  BY <1>5 DEF Tokens
<1>8. code.assertion \in Nat /\ code.expires \in Nat /\ code.upstream \in 0..n /\ access \in Nat
  BY <1>5, MinIs DEF CodeRecords
<1>9. CASE Done(r) /\ UNCHANGED <<store, inbox, answers, minted>>
  BY <1>1, <1>9, EndsTypes DEF Types
<1>10. CASE /\ minted' = n /\ Answer(r, req[r].token, <<"plain", n>>)
            /\ store' = Put(store, Access(<<"plain", n>>),
                            [grant |-> 0, generation |-> 0, expires |-> code.assertion],
                            code.assertion)
  <2>1. [grant |-> 0, generation |-> 0, expires |-> code.assertion] \in Accesses(n)
    BY <1>4, <1>8 DEF Accesses
  <2>2. StoreTypes(store', n)
    BY <1>4, <1>5, <1>6, <1>10, <2>1, PutAccessTypes
  <2> QED BY <1>1, <1>4, <1>7, <1>10, <2>2, AnswerTypes
<1>11. CASE /\ minted' = n /\ Answer(r, req[r].token, pair)
            /\ store' = Put(WithPair(pair, n, 0, access, code.expires),
                            Family(n), NewFamily(code, pair), code.expires)
  <2>1. NoReceipt \in Receipts(n)
    BY DEF Receipts
  <2>2. NewFamily(code, pair) \in Families(n)
    BY <1>4, <1>5, <1>8, <2>1 DEF NewFamily, Families
  <2>3. StoreTypes(WithPair(pair, n, 0, access, code.expires), n)
    BY <1>4, <1>5, <1>6, <1>8, PairTypes
  <2>4. StoreTypes(store', n)
    BY <1>4, <1>11, <2>2, <2>3, PutFamilyTypes
  <2> QED BY <1>1, <1>4, <1>7, <1>11, <2>4, AnswerTypes
<1> QED BY <1>1, <1>9, <1>10, <1>11

\* Requests on a family, moved without a change of what they know.
LEMMA ToTypes ==
  ASSUME NEW m, NEW q \in AtLook(m), NEW pc \in {"look", "waiting", "revoke"}
  PROVE  [q EXCEPT !.pc = pc] \in RequestRecords(m)
BY DEF AtLook, RequestRecords

LEMMA ToRevokeTypes ==
  ASSUME Types, NEW r \in Requests, req[r] \in AtFamily(minted)
  PROVE  ToRevoke(r) \in RequestRecords(minted)
BY DEF ToRevoke, AtFamily, AtLook, RequestRecords

\* What Look does, alternative by alternative.
LEMMA LookIs ==
  ASSUME NEW r \in Requests, Look(r)
  PROVE  LET entry  == Found(Family(req[r].grant))
             family == entry.value
         IN  /\ At(r, "look") /\ UNCHANGED <<now, store, minted, presented, wrongs>>
             /\ \/ Done(r) /\ UNCHANGED <<answers, inbox>>
                \/ /\ entry # None /\ family.status # "revoked" /\ HasReceipt(family, req[r].token)
                   /\ Answer(r, req[r].token, family.receipt.pair)
                \/ /\ UNCHANGED <<answers, inbox>>
                   /\ Go(r, To(r, "revoke")) \/ Go(r, To(r, "waiting"))
                \/ /\ UNCHANGED <<answers, inbox>>
                   /\ entry # None /\ ~IsReplay(family, req[r])
                   /\ family.status # "revoked" /\ family.status # "refreshing"
                   /\ Go(r, [pc |-> "claim", token |-> req[r].token, grant |-> req[r].grant,
                             generation |-> req[r].generation, until |-> req[r].until,
                             version |-> entry.version,
                             family |-> [family EXCEPT !.status = "refreshing", !.since = now]])
<1> DEFINE entry == Found(Family(req[r].grant))
           family == entry.value
<1>1. At(r, "look") /\ UNCHANGED <<now, store, minted, presented, wrongs>>
  BY DEF Look
<1>2. CASE entry = None
  <2>1. Done(r) /\ UNCHANGED <<answers, inbox>>
    BY <1>2 DEF Look
  <2> QED BY <1>1, <2>1
<1>3. CASE entry # None /\ family.status = "revoked"
  <2>1. Done(r) /\ UNCHANGED <<answers, inbox>>
    BY <1>3 DEF Look
  <2> QED BY <1>1, <2>1
<1>4. CASE entry # None /\ family.status # "revoked"
  <2> DEFINE claim == [pc |-> "claim", token |-> req[r].token, grant |-> req[r].grant,
                       generation |-> req[r].generation, until |-> req[r].until,
                       version |-> entry.version,
                       family |-> [family EXCEPT !.status = "refreshing", !.since = now]]
  <2>1. IF HasReceipt(family, req[r].token)
        THEN Answer(r, req[r].token, family.receipt.pair)
        ELSE /\ UNCHANGED <<answers, inbox>>
             /\ IF IsReplay(family, req[r]) \/ (family.status = "refreshing" /\ Lapsed(family))
                THEN Go(r, To(r, "revoke"))
                ELSE IF family.status = "refreshing"
                THEN IF now >= req[r].until THEN Done(r) ELSE Go(r, To(r, "waiting"))
                ELSE Go(r, claim)
    BY <1>4 DEF Look
  <2> HIDE DEF claim, entry
  <2> QED BY <1>1, <1>4, <2>1 DEF claim, entry
<1> QED BY <1>2, <1>3, <1>4

LEMMA LookTypes ==
  ASSUME Types, NEW r \in Requests, Look(r)
  PROVE  Types'
<1> DEFINE entry == Found(Family(req[r].grant))
           family == entry.value
           claim == [pc |-> "claim", token |-> req[r].token, grant |-> req[r].grant,
                     generation |-> req[r].generation, until |-> req[r].until,
                     version |-> entry.version,
                     family |-> [family EXCEPT !.status = "refreshing", !.since = now]]
<1>1. /\ At(r, "look") /\ UNCHANGED <<now, store, minted, presented, wrongs>>
      /\ \/ Done(r) /\ UNCHANGED <<answers, inbox>>
         \/ entry # None /\ Answer(r, req[r].token, family.receipt.pair)
            /\ HasReceipt(family, req[r].token)
         \/ UNCHANGED <<answers, inbox>> /\ (Go(r, To(r, "revoke")) \/ Go(r, To(r, "waiting")))
         \/ UNCHANGED <<answers, inbox>> /\ entry # None /\ Go(r, claim)
  BY LookIs
<1>2. req[r] \in AtLook(minted) /\ StoreTypes(store, minted) /\ now \in Nat /\ minted \in Nat
  BY <1>1, RequestKnows DEF At, Types
<1>3. entry # None => family \in Families(minted) /\ entry.version \in Nat
  BY <1>2, FoundIs DEF StoreTypes
<1>4. CASE Done(r) /\ UNCHANGED <<answers, inbox>>
  BY <1>1, <1>2, <1>4, EndsTypes
<1>5. CASE UNCHANGED <<answers, inbox>> /\ (Go(r, To(r, "revoke")) \/ Go(r, To(r, "waiting")))
  <2>1. To(r, "revoke") \in RequestRecords(minted) /\ To(r, "waiting") \in RequestRecords(minted)
    BY <1>2, ToTypes DEF To
  <2> QED BY <1>1, <1>2, <1>5, <2>1, GoesTypes
<1> HIDE DEF entry
<1>6. CASE UNCHANGED <<answers, inbox>> /\ entry # None /\ Go(r, claim)
  <2>1. [family EXCEPT !.status = "refreshing", !.since = now] \in Families(minted)
    BY <1>2, <1>3, <1>6 DEF Families
  <2>2. claim \in AtFamily(minted)
    BY <1>2, <1>3, <1>6, <2>1 DEF AtLook, AtFamily
  <2>3. claim \in RequestRecords(minted)
    BY <2>2 DEF RequestRecords
  <2> QED BY <1>1, <1>2, <1>6, <2>3, GoesTypes
<1>7. CASE entry # None /\ Answer(r, req[r].token, family.receipt.pair)
           /\ HasReceipt(family, req[r].token)
  <2>1. req[r].token \in Pairs(minted)
    BY <1>2 DEF AtLook
  <2>2. family.receipt \in Receipts(minted)
    BY <1>3, <1>7 DEF Families
  <2>3. family.receipt # NoReceipt
    BY <1>7, <2>1, TokensDiffer DEF HasReceipt, NoReceipt
  <2>4. family.receipt.pair \in Pairs(minted)
    BY <2>2, <2>3 DEF Receipts
  <2>5. family.receipt.pair \in Tokens(minted) /\ req[r].token \in Tokens(minted)
    BY <2>1, <2>4 DEF Tokens
  <2> QED BY <1>1, <1>2, <1>7, <2>5, AnswerTypes
<1> QED BY <1>1, <1>4, <1>5, <1>6, <1>7

\* A claim, a commit and a revocation write the family, or are refused.
LEMMA ClaimIs ==
  ASSUME NEW r \in Requests, Claim(r)
  PROVE  /\ At(r, "claim") /\ UNCHANGED <<now, inbox, minted, answers>>
         /\ \/ /\ Unchanged(store, Family(req[r].grant), req[r].version, now)
               /\ store' = Put(store, Family(req[r].grant), req[r].family, req[r].family.expires)
               /\ Go(r, To(r, "upstream"))
               /\ Wrong("spent", req[r].family.upstream \in presented)
               /\ presented' = presented \union {req[r].family.upstream}
            \/ /\ Go(r, [pc |-> "look", token |-> req[r].token, grant |-> req[r].grant,
                         generation |-> req[r].generation, until |-> req[r].until])
               /\ UNCHANGED <<store, presented, wrongs>>
BY DEF Claim

LEMMA CommitIs ==
  ASSUME NEW r \in Requests, Commit(r)
  PROVE  /\ At(r, "commit") /\ UNCHANGED <<now, minted, presented, wrongs>>
         /\ \/ /\ Unchanged(store, Family(req[r].grant), req[r].version, now)
               /\ store' = Put(store, Family(req[r].grant), req[r].family, req[r].family.expires)
               /\ Answer(r, req[r].token, req[r].family.receipt.pair)
            \/ Go(r, ToRevoke(r)) /\ UNCHANGED <<store, answers, inbox>>
BY DEF Commit

Revoked(family) == [family EXCEPT !.status = "revoked", !.upstream = 0, !.assertion = 0,
                                  !.receipt = NoReceipt]

LEMMA SwapDoes ==
  ASSUME NEW r \in Requests, Swap(r)
  PROVE  /\ At(r, "swap") /\ UNCHANGED <<now, inbox, minted, presented, answers>>
         /\ \/ /\ Unchanged(store, Family(req[r].grant), req[r].version, now)
               /\ store' = Put(store, Family(req[r].grant), Revoked(req[r].family),
                               req[r].family.expires)
               /\ Go(r, To(r, "cleanup"))
               /\ wrongs' \in {wrongs, wrongs \union {"unjust"}}
            \/ Go(r, ToRevoke(r)) /\ UNCHANGED <<store, wrongs>>
BY DEF Swap, Revoked, Wrong

LEMMA FamilyKnows ==
  ASSUME Types, NEW r \in Requests, Versioned(req[r])
  PROVE  /\ req[r] \in AtFamily(minted) /\ req[r].grant \in 1..minted
         /\ req[r].token \in Pairs(minted) /\ req[r].family \in Families(minted)
         /\ req[r].version \in Nat
BY RequestKnows DEF Types, AtFamily

LEMMA ClaimTypes ==
  ASSUME Types, ReadsFit, NEW r \in Requests, Claim(r)
  PROVE  Types'
<1>1. At(r, "claim") /\ UNCHANGED <<now, inbox, minted, answers>>
  BY ClaimIs
<1>2. /\ req[r] \in AtFamily(minted) /\ req[r].grant \in 1..minted
      /\ req[r].family \in Families(minted) /\ minted \in Nat /\ StoreTypes(store, minted)
  BY <1>1, FamilyKnows DEF At, Versioned, Types
<1>3. CASE /\ store' = Put(store, Family(req[r].grant), req[r].family, req[r].family.expires)
           /\ Go(r, To(r, "upstream"))
           /\ presented' = presented \union {req[r].family.upstream}
  <2>1. To(r, "upstream") \in RequestRecords(minted)
    BY <1>2 DEF To, AtFamily, RequestRecords
  <2>2. StoreTypes(store', minted)
    BY <1>2, <1>3, PutFamilyTypes
  <2>3. req[r].family.upstream \in 1..minted
    <3>1. req[r].family.upstream \in 0..minted
      BY <1>2 DEF Families
    <3>2. req[r].family.upstream # 0
      BY <1>1 DEF ReadsFit, Reads, At
    <3> QED BY <1>2, <3>1, <3>2
  <2>4. presented' \subseteq 1..minted'
    BY <1>1, <1>3, <2>3 DEF Types
  <2>5. req' \in [Requests -> RequestRecords(minted)]
    BY <1>1, <1>2, <1>3, <2>1, GoTypes
  <2> QED BY <1>1, <1>2, <2>2, <2>4, <2>5, TypesGrow DEF Types
<1>4. CASE /\ Go(r, [pc |-> "look", token |-> req[r].token, grant |-> req[r].grant,
                     generation |-> req[r].generation, until |-> req[r].until])
           /\ UNCHANGED <<store, presented>>
  <2>1. [pc |-> "look", token |-> req[r].token, grant |-> req[r].grant,
         generation |-> req[r].generation, until |-> req[r].until] \in RequestRecords(minted)
    BY <1>2 DEF AtFamily, AtLook, RequestRecords
  <2> QED BY <1>1, <1>2, <1>4, <2>1, GoesTypes
<1> QED BY <1>3, <1>4, ClaimIs

LEMMA CommitTypes ==
  ASSUME Types, ReadsFit, NEW r \in Requests, Commit(r)
  PROVE  Types'
<1>1. At(r, "commit") /\ UNCHANGED <<now, minted, presented>>
  BY CommitIs
<1>2. /\ req[r] \in AtFamily(minted) /\ req[r].grant \in 1..minted /\ req[r].token \in Pairs(minted)
      /\ req[r].family \in Families(minted) /\ minted \in Nat /\ StoreTypes(store, minted)
  BY <1>1, FamilyKnows DEF At, Versioned, Types
<1>3. CASE /\ store' = Put(store, Family(req[r].grant), req[r].family, req[r].family.expires)
           /\ Answer(r, req[r].token, req[r].family.receipt.pair)
  <2>1. StoreTypes(store', minted)
    BY <1>2, <1>3, PutFamilyTypes
  <2>2. req[r].family.receipt \in Receipts(minted)
    BY <1>2 DEF Families
  <2>3. req[r].family.receipt.digest = req[r].token
    BY <1>1 DEF ReadsFit, Reads, Renewed, At
  <2>4. req[r].family.receipt # NoReceipt
    BY <1>2, <2>3, TokensDiffer DEF NoReceipt
  <2>5. req[r].family.receipt.pair \in Pairs(minted)
    BY <2>2, <2>4 DEF Receipts
  <2>6. req[r].family.receipt.pair \in Tokens(minted) /\ req[r].token \in Tokens(minted)
    BY <1>2, <2>5 DEF Tokens
  <2> QED BY <1>1, <1>2, <1>3, <2>1, <2>6, AnswerTypes
<1>4. CASE Go(r, ToRevoke(r)) /\ UNCHANGED <<store, answers, inbox>>
  BY <1>1, <1>2, <1>4, ToRevokeTypes, GoesTypes
<1> QED BY <1>3, <1>4, CommitIs

LEMMA SwapTypes ==
  ASSUME Types, NEW r \in Requests, Swap(r)
  PROVE  Types'
<1>1. At(r, "swap") /\ UNCHANGED <<now, inbox, minted, presented, answers>>
  BY SwapDoes
<1>2. /\ req[r] \in AtFamily(minted) /\ req[r].grant \in 1..minted
      /\ req[r].family \in Families(minted) /\ minted \in Nat /\ StoreTypes(store, minted)
  BY <1>1, FamilyKnows DEF At, Versioned, Types
<1>3. CASE /\ store' = Put(store, Family(req[r].grant), Revoked(req[r].family),
                           req[r].family.expires)
           /\ Go(r, To(r, "cleanup"))
  <2>1. Revoked(req[r].family) \in Families(minted)
    <3>1. NoReceipt \in Receipts(minted) /\ 0 \in 0..minted
      BY <1>2 DEF Receipts
    <3> QED BY <1>2, <3>1 DEF Revoked, Families
  <2>2. To(r, "cleanup") \in RequestRecords(minted)
    BY <1>2 DEF To, AtFamily, RequestRecords
  <2>3. StoreTypes(store', minted)
    BY <1>2, <1>3, <2>1, PutFamilyTypes
  <2> QED BY <1>1, <1>3, <2>2, <2>3, GoesTypes
<1>4. CASE Go(r, ToRevoke(r)) /\ UNCHANGED store
  BY <1>1, <1>2, <1>4, ToRevokeTypes, GoesTypes
<1> QED BY <1>3, <1>4, SwapDoes

LEMMA WakeTypes ==
  ASSUME Types, NEW r \in Requests, Wake(r)
  PROVE  Types'
<1>1. At(r, "waiting") /\ Go(r, To(r, "look"))
      /\ UNCHANGED <<now, store, inbox, minted, presented, answers>>
  BY DEF Wake
<1>2. req[r] \in AtLook(minted)
  BY <1>1, RequestKnows DEF At, Types
<1>3. To(r, "look") \in RequestRecords(minted)
  BY <1>2, ToTypes DEF To
<1> QED BY <1>1, <1>3, GoesTypes DEF Types

LEMMA ReadToRevokeIs ==
  ASSUME NEW r \in Requests, ReadToRevoke(r)
  PROVE  LET entry == Found(Family(req[r].grant))
         IN  /\ At(r, "revoke")
             /\ UNCHANGED <<now, store, inbox, minted, presented, answers, wrongs>>
             /\ \/ Done(r)
                \/ /\ entry # None
                   /\ \E pc \in {"cleanup", "swap"} :
                        Go(r, [pc |-> pc, token |-> req[r].token, grant |-> req[r].grant,
                               generation |-> req[r].generation, until |-> req[r].until,
                               version |-> entry.version, family |-> entry.value])
<1> DEFINE entry == Found(Family(req[r].grant))
           pc == IF entry.value.status = "revoked" THEN "cleanup" ELSE "swap"
<1>1. IF entry = None THEN Done(r)
      ELSE Go(r, [pc |-> pc, token |-> req[r].token, grant |-> req[r].grant,
                  generation |-> req[r].generation, until |-> req[r].until,
                  version |-> entry.version, family |-> entry.value])
  BY DEF ReadToRevoke
<1>2. pc \in {"cleanup", "swap"}
  OBVIOUS
<1>3. At(r, "revoke") /\ UNCHANGED <<now, store, inbox, minted, presented, answers, wrongs>>
  BY DEF ReadToRevoke
<1> HIDE DEF pc, entry
<1>4. entry # None => \E c \in {"cleanup", "swap"} :
        Go(r, [pc |-> c, token |-> req[r].token, grant |-> req[r].grant,
               generation |-> req[r].generation, until |-> req[r].until,
               version |-> entry.version, family |-> entry.value])
  BY <1>1, <1>2
<1> QED BY <1>1, <1>3, <1>4 DEF entry

LEMMA ReadToRevokeTypes ==
  ASSUME Types, NEW r \in Requests, ReadToRevoke(r)
  PROVE  Types'
<1> DEFINE entry == Found(Family(req[r].grant))
<1>1. /\ At(r, "revoke")
      /\ UNCHANGED <<now, store, inbox, minted, presented, answers>>
      /\ \/ Done(r)
         \/ /\ entry # None
            /\ \E pc \in {"cleanup", "swap"} :
                 Go(r, [pc |-> pc, token |-> req[r].token, grant |-> req[r].grant,
                        generation |-> req[r].generation, until |-> req[r].until,
                        version |-> entry.version, family |-> entry.value])
  BY ReadToRevokeIs
<1>2. req[r] \in AtLook(minted) /\ StoreTypes(store, minted) /\ minted \in Nat
  BY <1>1, RequestKnows DEF At, Types
<1>3. entry # None => entry.value \in Families(minted) /\ entry.version \in Nat
  BY <1>2, FoundIs DEF StoreTypes
<1> HIDE DEF entry
<1>4. CASE Done(r)
  BY <1>1, <1>2, <1>4, EndsTypes
<1>5. ASSUME entry # None, NEW pc \in {"cleanup", "swap"},
             Go(r, [pc |-> pc, token |-> req[r].token, grant |-> req[r].grant,
                    generation |-> req[r].generation, until |-> req[r].until,
                    version |-> entry.version, family |-> entry.value])
      PROVE  Types'
  <2>1. [pc |-> pc, token |-> req[r].token, grant |-> req[r].grant,
         generation |-> req[r].generation, until |-> req[r].until,
         version |-> entry.version, family |-> entry.value] \in AtFamily(minted)
    BY <1>2, <1>3, <1>5 DEF AtLook, AtFamily
  <2> QED BY <1>1, <1>2, <1>5, <2>1, GoesTypes DEF RequestRecords
<1> QED BY <1>1, <1>4, <1>5

\* A request that was answered upstream has a receipt of the token it presented.
LEMMA RenewedHasReceipt ==
  ASSUME Types, ReadsFit, NEW r \in Requests, Renewed(req[r])
  PROVE  req[r].family.receipt
           \in [digest : Pairs(minted), until : Nat, pair : Pairs(minted), access : Nat]
<1>1. req[r].token \in Pairs(minted) /\ req[r].family \in Families(minted)
  BY FamilyKnows DEF Renewed, Versioned
<1>2. req[r].family.receipt.digest = req[r].token
  BY DEF ReadsFit, Reads
<1>3. req[r].family.receipt \in Receipts(minted)
  BY <1>1 DEF Families
<1>4. req[r].family.receipt # NoReceipt
  BY <1>1, <1>2, TokensDiffer DEF NoReceipt
<1> QED BY <1>3, <1>4 DEF Receipts

LEMMA RereadTypes ==
  ASSUME Types, ReadsFit, NEW r \in Requests, Reread(r)
  PROVE  Types'
<1> DEFINE entry == Found(Family(req[r].grant))
           until == Min(now + Receipt, req[r].family.receipt.access)
           receipt == [req[r].family.receipt EXCEPT !.until = until]
           family == [req[r].family EXCEPT !.receipt = receipt]
           commit == [req[r] EXCEPT !.pc = "commit", !.version = entry.version, !.family = family]
<1>1. At(r, "reread") /\ UNCHANGED <<minted, now, presented, inbox, answers, store>>
  BY DEF Reread
<1>2. /\ req[r] \in AtFamily(minted) /\ req[r].family \in Families(minted) /\ minted \in Nat
      /\ StoreTypes(store, minted) /\ now \in Nat
  BY <1>1, FamilyKnows DEF At, Versioned, Types
<1>3. StoreTypes(store', minted)
  BY <1>1, <1>2
<1>4. \/ Go(r, ToRevoke(r))
      \/ /\ entry # None
         /\ Go(r, [req[r] EXCEPT !.pc = "commit", !.version = entry.version,
                                 !.family.receipt.until = until])
  BY DEF Reread
<1>5. [req[r] EXCEPT !.pc = "commit", !.version = entry.version,
                     !.family.receipt.until = until] = commit
  OBVIOUS
<1>6. CASE Go(r, ToRevoke(r))
  BY <1>1, <1>2, <1>3, <1>6, ToRevokeTypes, GoesTypes
<1>7. CASE entry # None /\ Go(r, commit)
  <2>1. entry.version \in Nat
    BY <1>2, <1>7, FoundIs DEF StoreTypes
  <2> HIDE DEF entry
  <2>2. req[r].family.receipt
          \in [digest : Pairs(minted), until : Nat, pair : Pairs(minted), access : Nat]
    BY <1>1, RenewedHasReceipt DEF At, Renewed
  <2>3. now + Receipt \in Nat
    BY <1>2, TimesAssumption
  <2>4. until \in Nat
    BY <2>2, <2>3, MinIs
  <2> HIDE DEF until
  <2>5. receipt \in Receipts(minted)
    BY <2>2, <2>4 DEF Receipts
  <2> HIDE DEF receipt
  <2>6. family \in Families(minted)
    BY <1>2, <2>5 DEF Families
  <2> HIDE DEF family
  <2>7. commit \in AtFamily(minted)
    BY <1>2, <2>1, <2>6 DEF AtFamily
  <2> HIDE DEF commit
  <2> QED BY <1>1, <1>3, <1>7, <2>7, GoesTypes DEF RequestRecords
<1> HIDE DEF entry, commit, until
<1> QED BY <1>4, <1>5, <1>6, <1>7

\* The family an upstream answer makes of the claimed one.
Rotated(family, token, pair, access, upstream) ==
  [family EXCEPT !.generation = @ + 1, !.status = "active", !.since = 0,
                 !.assertion = now + AssertionTtl, !.digest = pair, !.upstream = upstream,
                 !.receipt = [digest |-> token, until |-> 0, pair |-> pair, access |-> access]]

LEMMA UpstreamIs ==
  ASSUME NEW r \in Requests, Upstream(r)
  PROVE  LET claimed == req[r].family
             pair    == <<"pair", minted + 1>>
             access  == Min(now + AssertionTtl, claimed.expires)
         IN  /\ At(r, "upstream") /\ UNCHANGED <<now, inbox, answers, wrongs>>
             /\ \/ Go(r, ToRevoke(r)) /\ UNCHANGED <<store, minted, presented>>
                \/ /\ minted' = minted + 1
                   /\ store' = WithPair(pair, req[r].grant, claimed.generation + 1, access,
                                        claimed.expires)
                   /\ \E rotates \in BOOLEAN :
                        /\ presented' = IF rotates THEN presented ELSE presented \ {claimed.upstream}
                        /\ Go(r, [req[r] EXCEPT !.pc = "reread",
                                    !.family = Rotated(claimed, req[r].token, pair, access,
                                                 IF rotates THEN minted + 1 ELSE claimed.upstream)])
<1>1. At(r, "upstream") /\ UNCHANGED <<now, inbox, answers, wrongs>>
  BY DEF Upstream
<1>2. ASSUME NEW rotates \in BOOLEAN
      PROVE  [req[r] EXCEPT !.pc = "reread",
                !.family = [req[r].family EXCEPT
                   !.generation = @ + 1, !.status = "active", !.since = 0,
                   !.assertion = now + AssertionTtl, !.digest = <<"pair", minted + 1>>,
                   !.upstream = IF rotates THEN minted + 1 ELSE @,
                   !.receipt = [digest |-> req[r].token, until |-> 0,
                                pair |-> <<"pair", minted + 1>>,
                                access |-> Min(now + AssertionTtl, req[r].family.expires)]]]
             = [req[r] EXCEPT !.pc = "reread",
                  !.family = Rotated(req[r].family, req[r].token, <<"pair", minted + 1>>,
                               Min(now + AssertionTtl, req[r].family.expires),
                               IF rotates THEN minted + 1 ELSE req[r].family.upstream)]
  BY DEF Rotated
<1> QED BY <1>1, <1>2 DEF Upstream

LEMMA UpstreamTypes ==
  ASSUME Types, NEW r \in Requests, Upstream(r)
  PROVE  Types'
<1> DEFINE claimed == req[r].family
           n       == minted + 1
           pair    == <<"pair", n>>
           access  == Min(now + AssertionTtl, claimed.expires)
           family(rotates) == Rotated(claimed, req[r].token, pair, access,
                                      IF rotates THEN n ELSE claimed.upstream)
           next(rotates) == [req[r] EXCEPT !.pc = "reread", !.family = family(rotates)]
<1>1. /\ At(r, "upstream") /\ UNCHANGED <<now, inbox, answers>>
      /\ \/ Go(r, ToRevoke(r)) /\ UNCHANGED <<store, minted, presented>>
         \/ /\ minted' = n
            /\ store' = WithPair(pair, req[r].grant, claimed.generation + 1, access, claimed.expires)
            /\ \E rotates \in BOOLEAN :
                 /\ presented' = IF rotates THEN presented ELSE presented \ {claimed.upstream}
                 /\ Go(r, next(rotates))
  BY UpstreamIs
<1>2. /\ req[r] \in AtFamily(minted) /\ minted \in Nat /\ StoreTypes(store, minted) /\ now \in Nat
      /\ presented \subseteq 1..minted
  BY <1>1, FamilyKnows DEF At, Versioned, Types
<1>3. CASE Go(r, ToRevoke(r)) /\ UNCHANGED <<store, minted, presented>>
  BY <1>1, <1>2, <1>3, ToRevokeTypes, GoesTypes
<1>4. n \in Nat /\ minted <= n /\ n \in 1..n /\ n \in 0..n /\ 1..minted \subseteq 1..n
  BY <1>2
<1>5. StoreTypes(store, n)
  BY <1>2, <1>4, StoreGrows
<1>6. AtFamily(minted) \subseteq AtFamily(n)
  BY <1>2, <1>4, TokensGrow, RecordsGrow DEF AtFamily
<1>7. req[r] \in AtFamily(n) /\ pair \in Pairs(n)
  BY <1>2, <1>4, <1>6, MadeTokens
<1> HIDE DEF n, next, pair
<1>8. /\ claimed \in Families(n) /\ req[r].grant \in 1..n /\ req[r].token \in Pairs(n)
  BY <1>7 DEF AtFamily
<1>9. claimed.expires \in Nat /\ claimed.generation \in Nat /\ claimed.upstream \in 0..n
  BY <1>8 DEF Families
<1>10. now + AssertionTtl \in Nat
  BY <1>2, TimesAssumption
<1>11. access \in Nat
  BY <1>9, <1>10, MinIs
<1> HIDE DEF access
<1>12. StoreTypes(WithPair(pair, req[r].grant, claimed.generation + 1, access, claimed.expires), n)
  BY <1>4, <1>5, <1>7, <1>8, <1>9, <1>11, PairTypes
<1>13. ASSUME NEW rotates \in BOOLEAN PROVE next(rotates) \in RequestRecords(n)
  <2> DEFINE receipt == [digest |-> req[r].token, until |-> 0, pair |-> pair, access |-> access]
             u == IF rotates THEN n ELSE claimed.upstream
  <2>1. receipt \in Receipts(n)
    BY <1>7, <1>8, <1>11 DEF Receipts
  <2>2. u \in 0..n /\ claimed.generation + 1 \in Nat
    BY <1>4, <1>9
  <2> HIDE DEF receipt, u, claimed
  <2>3. [claimed EXCEPT !.generation = @ + 1, !.status = "active", !.since = 0,
                 !.assertion = now + AssertionTtl, !.digest = pair, !.upstream = u,
                 !.receipt = receipt] \in Families(n)
    BY <1>7, <1>8, <1>10, <2>1, <2>2 DEF Families
  <2>4. family(rotates) \in Families(n)
    BY <2>3 DEF Rotated, receipt, u
  <2> HIDE DEF family
  <2>5. next(rotates) \in AtFamily(n)
    BY <1>7, <2>4 DEF AtFamily, next
  <2> QED BY <2>5 DEF RequestRecords
<1>14. CASE /\ minted' = n
            /\ store' = WithPair(pair, req[r].grant, claimed.generation + 1, access, claimed.expires)
            /\ \E rotates \in BOOLEAN :
                 /\ presented' = IF rotates THEN presented ELSE presented \ {claimed.upstream}
                 /\ Go(r, next(rotates))
  <2>1. PICK rotates \in BOOLEAN :
          /\ presented' = IF rotates THEN presented ELSE presented \ {claimed.upstream}
          /\ Go(r, next(rotates))
    BY <1>14
  <2>2. StoreTypes(store', minted')
    BY <1>12, <1>14
  <2>3. presented' \subseteq 1..minted'
    BY <1>2, <1>4, <1>14, <2>1
  <2>4. minted' \in Nat /\ minted <= minted' /\ next(rotates) \in RequestRecords(minted')
    BY <1>4, <1>13, <1>14
  <2>5. req' \in [Requests -> RequestRecords(minted')]
    BY <2>1, <2>4, GoTypes
  <2> QED BY <1>1, <1>2, <2>2, <2>3, <2>4, <2>5, TypesGrow
<1> QED BY <1>1, <1>3, <1>14 DEF n, pair

\* Every step keeps the types.
LEMMA NextTypes ==
  ASSUME Types, ReadsFit, [Next]_vars
  PROVE  Types'
<1>1. CASE UNCHANGED vars
  BY <1>1 DEF vars, Types
<1>2. CASE Register \/ Authorize \/ Send \/ Tick
  BY <1>2, OthersTypes, SendTypes, TickTypes
<1>3. ASSUME NEW r \in Requests,
             \/ Callback(r) \/ Exchange(r) \/ Redeem(r) \/ Create(r)
             \/ ReadReference(r) \/ ReadAccess(r) \/ Identity(r) \/ Crash(r)
      PROVE  Types'
  BY <1>3, FlowTypes, ExchangeTypes, CreateTypes, CrashTypes
<1>4. ASSUME NEW r \in Requests,
             \/ Look(r) \/ Wake(r) \/ Claim(r) \/ Upstream(r) \/ Reread(r) \/ Commit(r)
             \/ ReadToRevoke(r) \/ Swap(r) \/ Cleanup(r)
      PROVE  Types'
  BY <1>4, LookTypes, WakeTypes, ClaimTypes, UpstreamTypes, RereadTypes, CommitTypes,
     ReadToRevokeTypes, SwapTypes, CrashTypes
<1> QED BY <1>1, <1>2, <1>3, <1>4 DEF Next

\* The first state has nothing in it.
LEMMA InitHolds ==
  ASSUME Init
  PROVE  IInv
<1>1. /\ now = 0 /\ store = Empty /\ req = [r \in Requests |-> Idle] /\ inbox = {} /\ minted = 0
      /\ presented = {} /\ answers = {} /\ wrongs = {}
  BY DEF Init
<1>2. \A key : ~In(key)
  BY <1>1 DEF In, Empty
<1>3. \A r \in Requests : req[r] = Idle /\ req[r].pc = "idle"
  BY <1>1 DEF Idle
<1>4. StoreTypes(store, minted)
  BY <1>2 DEF StoreTypes, In
<1>5. Types
  BY <1>1, <1>4, RestIsRecord DEF Types, Idle
<1>6. ReadsFit /\ Alone
  BY <1>3 DEF ReadsFit, Reads, Alone, Versioned, Carries, Renewed
<1>7. /\ \A g, u : ~UpstreamOf(g, u)
      /\ \A g, t : ~DigestOf(g, t)
  BY <1>2, <1>3 DEF UpstreamOf, DigestOf, Carries, Renewed
<1>8. Owned /\ Unspent
  BY <1>2, <1>3, <1>7 DEF Owned, Unspent, Renewed
<1>9. Answered /\ AnswersAgree
  BY <1>1, <1>3 DEF Answered, Renewed, AnswersAgree
<1>10. Taken /\ Unanswered /\ CodesOwn /\ LateIsLate
  BY <1>1, <1>2, <1>3 DEF Taken, Unanswered, CodesOwn, LateIsLate, Creating
<1> QED BY <1>1, <1>5, <1>6, <1>8, <1>9, <1>10 DEF IInv

------------------------------------------------------------------------------
(* What a step leaves alone. *)

\* Families are as they were.
SameFamilies ==
  \A g : /\ In(Family(g))' <=> In(Family(g))
         /\ In(Family(g)) => store'[Family(g)] = store[Family(g)]

\* Families are there as they were, and there may be more.
FamiliesStay ==
  \A g : In(Family(g)) => In(Family(g))' /\ store'[Family(g)] = store[Family(g)]

\* Access records are never removed.
AccessStays ==
  \A t : In(Access(t)) => In(Access(t))' /\ store'[Access(t)] = store[Access(t)]

\* Codes only go away.
CodesStay ==
  \A c : In(Code(c))' => In(Code(c)) /\ store'[Code(c)] = store[Code(c)]

RevokedStays == \A g : RevokedIn(store, g) => RevokedIn(store', g)

\* A request that carries a family carried it before.
Follows(p, q) ==
  Carries(q) =>
    /\ Carries(p) /\ q.grant = p.grant /\ q.family.upstream = p.family.upstream
    /\ Renewed(q) => Renewed(p) /\ q.family.digest = p.family.digest

\* What is written under a key leaves the other keys alone.
LEMMA PutElsewhere ==
  ASSUME NEW key, NEW value, NEW until, store' = Put(store, key, value, until)
  PROVE  /\ \A k : k # key => (k \in DOMAIN store' <=> k \in DOMAIN store)
         /\ \A k \in DOMAIN store : k # key => store'[k] = store[k]
BY DEF Put

LEMMA WithoutElsewhere ==
  ASSUME NEW key, store' = Without(store, key)
  PROVE  /\ \A k : k # key => (k \in DOMAIN store' <=> k \in DOMAIN store)
         /\ key \notin DOMAIN store'
         /\ \A k \in DOMAIN store : k # key => store'[k] = store[k]
BY DEF Without

\* A step that leaves a kind of keys alone.
LEMMA FamiliesElsewhere ==
  ASSUME NEW key, \A g : Family(g) # key,
         \A k : k # key => (k \in DOMAIN store' <=> k \in DOMAIN store),
         \A k \in DOMAIN store : k # key => store'[k] = store[k]
  PROVE  SameFamilies
BY DEF SameFamilies, In

LEMMA AccessElsewhere ==
  ASSUME NEW key, key \notin DOMAIN store \/ \A t : Access(t) # key,
         \A k \in DOMAIN store : k # key => k \in DOMAIN store' /\ store'[k] = store[k]
  PROVE  AccessStays
BY DEF AccessStays, In

LEMMA NothingElsewhere ==
  ASSUME UNCHANGED store
  PROVE  SameFamilies /\ AccessStays /\ CodesStay /\ RevokedStays
BY DEF SameFamilies, AccessStays, CodesStay, RevokedStays, In, RevokedIn

LEMMA SameStay ==
  ASSUME SameFamilies
  PROVE  FamiliesStay
BY DEF SameFamilies, FamiliesStay

LEMMA RevokedStay ==
  ASSUME FamiliesStay
  PROVE  RevokedStays
BY DEF FamiliesStay, RevokedStays, RevokedIn, In

LEMMA SameRevoked ==
  ASSUME SameFamilies
  PROVE  RevokedStays
BY SameStay, RevokedStay

\* What was read still fits, when families are as they were.
LEMMA ReadsStay ==
  ASSUME FamiliesStay, ReadsFit,
         \A s \in Requests : req'[s] = req[s] \/ Reads(req[s])'
  PROVE  ReadsFit'
<1> SUFFICES ASSUME NEW s \in Requests, req'[s] = req[s]
             PROVE  Reads(req[s])'
  BY DEF ReadsFit
<1>1. Reads(req[s])
  BY DEF ReadsFit
<1>2. /\ In(Family(req[s].grant)) =>
           /\ In(Family(req[s].grant))' /\ Fam(req[s].grant)' = Fam(req[s].grant)
           /\ Ver(req[s].grant)' = Ver(req[s].grant)
  BY DEF FamiliesStay, Fam, Ver
<1>3. Versioned(req[s]) => In(Family(req[s].grant))
  BY <1>1 DEF Reads
<1>4. CASE ~Versioned(req[s])
  BY <1>4 DEF Reads, Versioned, Carries, Renewed
<1>5. CASE Versioned(req[s])
  BY <1>1, <1>2, <1>3, <1>5 DEF Reads, Versioned, Carries, Renewed
<1> QED BY <1>4, <1>5

LEMMA ReadsKept ==
  ASSUME SameFamilies, ReadsFit,
         \A s \in Requests : req'[s] = req[s] \/ Reads(req[s])'
  PROVE  ReadsFit'
BY SameStay, ReadsStay

\* A request that works on no family has read none.
LEMMA NoReads ==
  ASSUME NEW s \in Requests, ~Versioned(req[s])'
  PROVE  Reads(req[s])' /\ \A p : Follows(p, req'[s])
BY DEF Reads, Follows, Versioned, Carries, Renewed

\* Tokens stay with their grants, and one request at a time carries a family, when
\* families are as they were and requests carry what they carried.
LEMMA OwnersKept ==
  ASSUME SameFamilies, \A s \in Requests : Follows(req[s], req'[s])
  PROVE  /\ \A g, u : UpstreamOf(g, u)' => UpstreamOf(g, u)
         /\ \A g, t : DigestOf(g, t)' => DigestOf(g, t)
         /\ Alone => Alone'
<1>1. \A g, u : UpstreamOf(g, u)' => UpstreamOf(g, u)
  BY DEF UpstreamOf, SameFamilies, Follows, Fam
<1>2. \A g, t : DigestOf(g, t)' => DigestOf(g, t)
  <2> SUFFICES ASSUME NEW g, NEW t, DigestOf(g, t)' PROVE DigestOf(g, t)
    OBVIOUS
  <2>1. CASE In(Family(g))' /\ t \in {Fam(g)'.digest, Fam(g)'.receipt.digest}
    BY <2>1 DEF DigestOf, SameFamilies, Fam
  <2>2. ASSUME NEW s \in Requests, Renewed(req[s])', req'[s].grant = g, req'[s].family.digest = t
        PROVE  DigestOf(g, t)
    BY <2>2 DEF DigestOf, Follows, Renewed, Carries
  <2> QED BY <2>1, <2>2 DEF DigestOf, Fam
<1>3. Alone => Alone'
  BY DEF Alone, Follows
<1> QED BY <1>1, <1>2, <1>3

\* New owners: one grant gets one new upstream token and one new digest.
LEMMA OwnedGrows ==
  ASSUME Owned, NEW g0, NEW u0, NEW t0,
         \A g, u : UpstreamOf(g, u)' => UpstreamOf(g, u) \/ u = 0 \/ (g = g0 /\ u = u0),
         \A g : UpstreamOf(g, u0) /\ u0 # 0 => g = g0,
         \A g, t : DigestOf(g, t)' => DigestOf(g, t) \/ t = NoToken \/ (g = g0 /\ t = t0),
         \A g : DigestOf(g, t0) /\ t0 # NoToken => g = g0,
         \A g : In(Family(g))' => Fam(g)'.digest # Fam(g)'.receipt.digest
  PROVE  Owned'
<1>1. \A g, h, u : UpstreamOf(g, u)' /\ UpstreamOf(h, u)' /\ u # 0 => g = h
  BY DEF Owned
<1>2. \A g, h, t : DigestOf(g, t)' /\ DigestOf(h, t)' /\ t # NoToken => g = h
  BY DEF Owned
<1> QED BY <1>1, <1>2 DEF Owned

\* Nothing happens to the families and to what is known of their tokens.
LEMMA FamiliesKept ==
  ASSUME SameFamilies, ReadsFit, Alone, Owned, Unspent, Answered,
         UNCHANGED answers, presented' \subseteq presented,
         \A s \in Requests : req'[s] = req[s] \/ (Reads(req[s])' /\ Follows(req[s], req'[s]))
  PROVE  /\ ReadsFit' /\ Alone' /\ Owned' /\ Unspent' /\ Answered' /\ RevokedStays
         /\ \A g, u : UpstreamOf(g, u)' => UpstreamOf(g, u)
<1>1. ReadsFit' /\ RevokedStays
  BY ReadsKept, SameRevoked
<1>2. \A s \in Requests : Follows(req[s], req'[s])
  BY DEF Follows
<1>3. /\ \A g, u : UpstreamOf(g, u)' => UpstreamOf(g, u)
      /\ \A g, t : DigestOf(g, t)' => DigestOf(g, t)
      /\ Alone'
  BY <1>2, OwnersKept
<1>4. \A g : In(Family(g))' => In(Family(g)) /\ Fam(g)' = Fam(g)
  BY DEF SameFamilies, Fam
<1>5. Owned'
  BY <1>3, <1>4 DEF Owned
<1>6. \A s \in Requests : Renewed(req[s])' =>
        /\ Renewed(req[s]) /\ req'[s].family.upstream = req[s].family.upstream
        /\ req'[s].family.digest = req[s].family.digest
  BY <1>2 DEF Follows, Renewed, Carries
<1>7. Unspent'
  BY <1>4, <1>6 DEF Unspent
<1>8. Answered'
  BY <1>4, <1>6 DEF Answered, AnswersAgree
<1> QED BY <1>1, <1>3, <1>5, <1>7, <1>8

\* Nothing happens to the login and to its code.
LEMMA LoginKept ==
  ASSUME Types, Taken, Unanswered, CodesOwn, CodesStay,
         In(Transaction)' => In(Transaction),
         \A s \in Requests : req'[s].pc \in {"exchange", "create"} => req'[s] = req[s],
         State \in inbox => State \in inbox',
         \A a \in answers' : a \in answers \/ a[1] \in Pairs(minted),
         \A u \in 1..minted : u \in presented' => u \in presented \/ \E g : UpstreamOf(g, u),
         \A g, u : u \in 1..minted /\ UpstreamOf(g, u)' => UpstreamOf(g, u)
  PROVE  Taken' /\ Unanswered' /\ CodesOwn'
<1>1. \A a \in answers' : a \in answers \/ (a[1] # State /\ a[1] \notin Codes(minted))
  BY TokensDiffer
<1>2. \A s \in Requests : req'[s].pc = "exchange" => req[s].pc = "exchange"
  OBVIOUS
<1>3. \A s \in Requests : Creating(s)' => Creating(s) /\ req'[s] = req[s]
  BY DEF Creating
<1>4. \A s \in Requests : Creating(s) => req[s].token \in Codes(minted)
                                         /\ req[s].code \in CodeRecords(minted)
  BY RequestKnows DEF Creating, AtCreate, Types
<1>5. \A c : In(Code(c)) => c \in Codes(minted) /\ store[Code(c)].value \in CodeRecords(minted)
  BY DEF In, Types, StoreTypes
<1>6. Taken'
  <2>1. /\ \A s \in Requests : req'[s].pc = "exchange" => ~In(Transaction)'
        /\ \A r, s \in Requests : req'[r].pc = "exchange" /\ req'[s].pc = "exchange" => r = s
    BY <1>2 DEF Taken
  <2>2. State \notin inbox' => ~In(Transaction)' /\ (\A r \in Requests : req'[r].pc # "exchange")
                               /\ \A a \in answers' : a[1] # State
    BY <1>1, <1>2 DEF Taken
  <2>3. \A s \in Requests : \A c : Creating(s)' /\ req'[s].token = c => ~In(Code(c))'
    BY <1>3 DEF Taken, CodesStay
  <2>4. \A r, s \in Requests : Creating(r)' /\ Creating(s)' /\ req'[r].token = req'[s].token => r = s
    BY <1>3 DEF Taken
  <2> QED BY <2>1, <2>2, <2>3, <2>4 DEF Taken
<1>7. Unanswered'
  <2>1. \A a \in answers' :
          In(Transaction)' \/ (\E r \in Requests : req'[r].pc = "exchange") => a[1] # State
    BY <1>1, <1>2 DEF Unanswered
  <2>2. \A a \in answers' : \A c : In(Code(c))' => a[1] # c
    BY <1>1, <1>5 DEF Unanswered, CodesStay
  <2>3. \A a \in answers', r \in Requests : Creating(r)' => a[1] # req'[r].token
    BY <1>1, <1>3, <1>4 DEF Unanswered
  <2> QED BY <2>1, <2>2, <2>3 DEF Unanswered, In
<1>8. CodesOwn'
  <2>1. ASSUME NEW u \in 0..minted, u # 0, u \notin presented, \A g : ~UpstreamOf(g, u)
        PROVE  u \notin presented' /\ \A g : ~UpstreamOf(g, u)'
    BY <2>1 DEF Types
  <2>2. ASSUME NEW c, NEW u, In(Code(c))', store'[Code(c)].value.upstream = u, u # 0
        PROVE  u = c[2] /\ u \notin presented' /\ \A g : ~UpstreamOf(g, u)'
    <3>1. In(Code(c)) /\ store[Code(c)].value.upstream = u
      BY <2>2 DEF CodesStay
    <3>2. u \in 0..minted
      BY <1>5, <3>1 DEF CodeRecords
    <3>3. u = c[2] /\ u \notin presented /\ \A g : ~UpstreamOf(g, u)
      BY <2>2, <3>1 DEF CodesOwn
    <3> QED BY <2>1, <2>2, <3>2, <3>3
  <2>3. ASSUME NEW r \in Requests, NEW u, Creating(r)', req'[r].code.upstream = u, u # 0
        PROVE  u = req'[r].token[2] /\ u \notin presented' /\ \A g : ~UpstreamOf(g, u)'
    <3>1. Creating(r) /\ req'[r] = req[r]
      BY <1>3, <2>3
    <3>2. u \in 0..minted
      BY <1>4, <2>3, <3>1 DEF CodeRecords
    <3>3. u = req[r].token[2] /\ u \notin presented /\ \A g : ~UpstreamOf(g, u)
      BY <2>3, <3>1 DEF CodesOwn
    <3> QED BY <2>1, <2>3, <3>1, <3>2, <3>3
  <2> QED BY <2>2, <2>3 DEF CodesOwn
<1> QED BY <1>6, <1>7, <1>8

\* Who is late stays late.
LEMMA LateKept ==
  ASSUME LateIsLate, AccessStays, RevokedStays,
         \A s \in Requests : req'[s].pc \in {"bearer", "identity"} => req'[s] = req[s]
  PROVE  LateIsLate'
<1>1. ASSUME NEW s \in Requests, NEW t, req'[s].pc = "bearer", req'[s].late, req'[s].token = t
      PROVE  In(Access(t))' /\ RevokedIn(store', store'[Access(t)].value.grant)
  BY <1>1 DEF LateIsLate, AccessStays, RevokedStays
<1>2. ASSUME NEW s \in Requests, req'[s].pc = "identity", req'[s].late
      PROVE  RevokedIn(store', req'[s].access.grant)
  BY <1>2 DEF LateIsLate, RevokedStays
<1> QED BY <1>1, <1>2 DEF LateIsLate

------------------------------------------------------------------------------
(* Steps that touch neither the store nor an answer. *)

LEMMA GoIs ==
  ASSUME Types, NEW r \in Requests, NEW q, Go(r, q)
  PROVE  req'[r] = q /\ \A s \in Requests : s # r => req'[s] = req[s]
BY DEF Types, Go

LEMMA QuietStep ==
  ASSUME IInv, Types', UNCHANGED <<store, answers, minted, inbox, presented>>,
         wrongs' \intersect {"spent", "after"} = {},
         \A s \in Requests :
           \/ req'[s] = req[s]
           \/ /\ req'[s].pc \notin {"exchange", "create", "bearer", "identity"}
              /\ Reads(req[s])' /\ Follows(req[s], req'[s])
  PROVE  IInv' /\ RevokedStays
<1>1. /\ Types /\ ReadsFit /\ Alone /\ Owned /\ Unspent /\ Answered /\ Taken /\ Unanswered
      /\ CodesOwn /\ LateIsLate
  BY DEF IInv
<1>2. SameFamilies /\ AccessStays /\ CodesStay /\ RevokedStays
  BY NothingElsewhere
<1>3. /\ ReadsFit' /\ Alone' /\ Owned' /\ Unspent' /\ Answered'
      /\ \A g, u : UpstreamOf(g, u)' => UpstreamOf(g, u)
  BY <1>1, <1>2, FamiliesKept
<1>4. Taken' /\ Unanswered' /\ CodesOwn'
  <2>1. In(Transaction)' => In(Transaction)
    BY DEF In
  <2> QED BY <1>1, <1>2, <1>3, <2>1, LoginKept
<1>5. LateIsLate'
  BY <1>1, <1>2, LateKept
<1> QED BY <1>2, <1>3, <1>4, <1>5 DEF IInv

\* A request moves on without a family in hand.
LEMMA RestStep ==
  ASSUME IInv, Types', UNCHANGED <<store, answers, minted, inbox, presented>>,
         wrongs' \intersect {"spent", "after"} = {},
         NEW r \in Requests, NEW q, Go(r, q),
         q.pc \in {"idle", "callback", "redeem", "reference", "look", "waiting", "revoke", "cleanup"}
  PROVE  IInv' /\ RevokedStays
<1>1. req'[r] = q /\ \A s \in Requests : s # r => req'[s] = req[s]
  BY GoIs DEF IInv
<1>2. ~Versioned(req[r])' /\ req'[r].pc \notin {"exchange", "create", "bearer", "identity"}
  BY <1>1 DEF Versioned
<1>3. Reads(req[r])' /\ Follows(req[r], req'[r])
  BY <1>2, NoReads
<1> QED BY <1>1, <1>2, <1>3, QuietStep

\* A request goes on with the family it has read.
LEMMA FamilyStep ==
  ASSUME IInv, Types', UNCHANGED <<store, answers, minted, inbox, presented, wrongs>>,
         NEW r \in Requests, NEW q, Go(r, q),
         q.pc \in {"claim", "commit", "swap"}, Reads(req[r])', Follows(req[r], q)
  PROVE  IInv' /\ RevokedStays
<1>1. req'[r] = q /\ \A s \in Requests : s # r => req'[s] = req[s]
  BY GoIs DEF IInv
<1>2. wrongs' \intersect {"spent", "after"} = {}
  BY DEF IInv
<1> QED BY <1>1, <1>2, QuietStep

LEMMA TickKeeps ==
  ASSUME IInv, Types', Register \/ Tick
  PROVE  IInv' /\ RevokedStays
<1>1. UNCHANGED <<store, answers, minted, inbox, presented>>
      /\ wrongs' \intersect {"spent", "after"} = {}
  BY DEF Register, Tick, IInv
<1>2. \A s \in Requests : req'[s] = req[s] \/ req'[s].pc = "look"
  <2>1. CASE Register
    BY <2>1 DEF Register
  <2>2. ASSUME Tick, NEW s \in Requests PROVE req'[s] = req[s] \/ req'[s].pc = "look"
    <3>1. req'[s] = IF req[s].pc = "waiting" THEN To(s, "look") ELSE req[s]
      BY <2>2 DEF Tick
    <3>2. req[s].pc = "waiting" => To(s, "look").pc = "look"
      <4>1. req[s].pc = "waiting" => req[s] \in AtLook(minted)
        BY RequestKnows DEF IInv, Types
      <4> QED BY <4>1 DEF To, AtLook
    <3> QED BY <3>1, <3>2
  <2> QED BY <2>1, <2>2
<1>3. \A s \in Requests : req'[s].pc = "look" => ~Versioned(req[s])'
  BY DEF Versioned
<1> QED BY <1>1, <1>2, <1>3, NoReads, QuietStep

\* A late bearer is not accepted: its grant is revoked.
LEMMA EndsKeep ==
  ASSUME IInv, Types', NEW r \in Requests, Crash(r) \/ Cleanup(r) \/ Identity(r)
  PROVE  IInv' /\ RevokedStays
<1>1. UNCHANGED <<store, answers, minted, inbox, presented>> /\ Go(r, Idle) /\ Idle.pc = "idle"
  BY DEF Crash, Cleanup, Identity, Done, Idle
<1>2. CASE UNCHANGED wrongs
  BY <1>1, <1>2, RestStep DEF IInv
<1>3. CASE Identity(r)
  <2> DEFINE entry == Found(Family(req[r].access.grant))
             accepted == IF entry = None THEN FALSE ELSE Accepted(entry.value, req[r].access)
  <2>1. wrongs' = IF accepted /\ req[r].late THEN wrongs \union {"after"} ELSE wrongs
    BY <1>3 DEF Identity, Wrong
  <2>2. accepted => ~req[r].late
    <3> SUFFICES ASSUME entry # None, Accepted(entry.value, req[r].access), req[r].late PROVE FALSE
      OBVIOUS
    <3>1. entry = store[Family(req[r].access.grant)]
      BY FoundIs
    <3>2. req[r].pc = "identity"
      BY <1>3 DEF Identity, At
    <3>3. RevokedIn(store, req[r].access.grant)
      BY <3>2 DEF IInv, LateIsLate
    <3> QED BY <3>1, <3>3 DEF RevokedIn, Accepted
  <2> HIDE DEF accepted
  <2>3. wrongs' \intersect {"spent", "after"} = {}
    BY <2>1, <2>2 DEF IInv
  <2> QED BY <1>1, <2>3, RestStep
<1> QED BY <1>2, <1>3 DEF Crash, Cleanup

LEMMA ReferenceKeeps ==
  ASSUME IInv, Types', NEW r \in Requests, ReadReference(r) \/ Wake(r)
  PROVE  IInv' /\ RevokedStays
<1>1. UNCHANGED <<store, answers, minted, inbox, presented>>
      /\ wrongs' \intersect {"spent", "after"} = {}
  BY DEF ReadReference, Wake, IInv
<1>2. ASSUME Go(r, Idle) PROVE IInv' /\ RevokedStays
  <2>1. Idle.pc = "idle"
    BY DEF Idle
  <2> QED BY <1>1, <1>2, <2>1, RestStep
<1>3. CASE ReadReference(r)
  <2> DEFINE reference == Found(Refresh(req[r].token))
             look == [pc |-> "look", token |-> req[r].token, grant |-> reference.value.grant,
                      generation |-> reference.value.generation, until |-> now + Inflight]
  <2>1. Go(r, Idle) \/ Go(r, look)
    BY <1>3 DEF ReadReference, Done
  <2>2. look.pc = "look"
    OBVIOUS
  <2> HIDE DEF look
  <2> QED BY <1>1, <1>2, <2>1, <2>2, RestStep
<1>4. CASE Wake(r)
  <2>1. Go(r, To(r, "look")) /\ req[r].pc = "waiting"
    BY <1>4 DEF Wake, At
  <2>2. To(r, "look").pc = "look"
    <3>1. req[r] \in AtLook(minted)
      BY <2>1, RequestKnows DEF IInv, Types
    <3> QED BY <3>1 DEF To, AtLook
  <2> QED BY <1>1, <2>1, <2>2, RestStep
<1> QED BY <1>3, <1>4

\* A bearer token is sent, and its record is read.
LEMMA BearerStep ==
  ASSUME IInv, Types', UNCHANGED <<store, answers, minted, inbox, presented, wrongs>>,
         NEW r \in Requests, NEW q, Go(r, q), q.pc \in {"bearer", "identity"},
         \A t : q.pc = "bearer" /\ q.late /\ q.token = t =>
           In(Access(t)) /\ RevokedIn(store, store[Access(t)].value.grant),
         q.pc = "identity" /\ q.late => RevokedIn(store, q.access.grant)
  PROVE  IInv' /\ RevokedStays
<1>1. req'[r] = q /\ \A s \in Requests : s # r => req'[s] = req[s]
  BY GoIs DEF IInv
<1>2. /\ Types /\ ReadsFit /\ Alone /\ Owned /\ Unspent /\ Answered /\ Taken /\ Unanswered
      /\ CodesOwn /\ LateIsLate
  BY DEF IInv
<1>3. SameFamilies /\ AccessStays /\ CodesStay /\ RevokedStays
  BY NothingElsewhere
<1>4. ~Versioned(req[r])'
  BY <1>1 DEF Versioned
<1>5. \A s \in Requests : req'[s] = req[s] \/ (Reads(req[s])' /\ Follows(req[s], req'[s]))
  BY <1>1, <1>4, NoReads
<1>6. /\ ReadsFit' /\ Alone' /\ Owned' /\ Unspent' /\ Answered'
      /\ \A g, u : UpstreamOf(g, u)' => UpstreamOf(g, u)
  BY <1>2, <1>3, <1>5, FamiliesKept
<1>7. Taken' /\ Unanswered' /\ CodesOwn'
  <2>1. In(Transaction)' => In(Transaction)
    BY DEF In
  <2>2. \A s \in Requests : req'[s].pc \in {"exchange", "create"} => req'[s] = req[s]
    BY <1>1
  <2> QED BY <1>2, <1>3, <1>6, <2>1, <2>2, LoginKept
<1>8. LateIsLate'
  <2>1. ASSUME NEW s \in Requests, NEW t, req'[s].pc = "bearer", req'[s].late, req'[s].token = t
        PROVE  In(Access(t))' /\ RevokedIn(store', store'[Access(t)].value.grant)
    BY <1>1, <1>2, <2>1 DEF LateIsLate, In
  <2>2. ASSUME NEW s \in Requests, req'[s].pc = "identity", req'[s].late
        PROVE  RevokedIn(store', req'[s].access.grant)
    BY <1>1, <1>2, <2>2 DEF LateIsLate
  <2> QED BY <2>1, <2>2 DEF LateIsLate
<1>9. wrongs' \intersect {"spent", "after"} = {}
  BY DEF IInv
<1> QED BY <1>3, <1>6, <1>7, <1>8, <1>9 DEF IInv

LEMMA SendKeeps ==
  ASSUME IInv, Types', Send
  PROVE  IInv' /\ RevokedStays
<1>1. PICK r \in Requests, token \in inbox :
        \/ Go(r, [pc |-> "callback"])
        \/ Go(r, [pc |-> "redeem", token |-> token])
        \/ Go(r, [pc |-> "reference", token |-> token])
        \/ LET access == Found(Access(token))
           IN  Go(r, [pc |-> "bearer", token |-> token,
                      late |-> access # None /\ RevokedIn(store, access.value.grant)])
  BY DEF Send
<1>2. UNCHANGED <<store, answers, minted, inbox, presented, wrongs>>
      /\ wrongs' \intersect {"spent", "after"} = {}
  BY DEF Send, IInv
<1>3. CASE Go(r, [pc |-> "callback"]) \/ Go(r, [pc |-> "redeem", token |-> token])
           \/ Go(r, [pc |-> "reference", token |-> token])
  <2>1. PICK q \in {[pc |-> "callback"], [pc |-> "redeem", token |-> token],
                    [pc |-> "reference", token |-> token]} : Go(r, q)
    BY <1>3
  <2>2. q.pc \in {"callback", "redeem", "reference"}
    OBVIOUS
  <2> QED BY <1>2, <2>1, <2>2, RestStep
<1>4. CASE LET access == Found(Access(token))
           IN  Go(r, [pc |-> "bearer", token |-> token,
                      late |-> access # None /\ RevokedIn(store, access.value.grant)])
  <2> DEFINE access == Found(Access(token))
             late == access # None /\ RevokedIn(store, access.value.grant)
             q == [pc |-> "bearer", token |-> token, late |-> late]
  <2>1. late => In(Access(token)) /\ RevokedIn(store, store[Access(token)].value.grant)
    BY FoundIs DEF In
  <2>2. Go(r, q)
    BY <1>4
  <2> HIDE DEF late
  <2>3. q.pc = "bearer" /\ q.late = late /\ q.token = token
    OBVIOUS
  <2> HIDE DEF q
  <2> QED BY <1>2, <2>1, <2>2, <2>3, BearerStep
<1> QED BY <1>1, <1>3, <1>4

LEMMA AccessKeeps ==
  ASSUME IInv, Types', NEW r \in Requests, ReadAccess(r)
  PROVE  IInv' /\ RevokedStays
<1> DEFINE access == Found(Access(req[r].token))
           q == [pc |-> "identity", access |-> access.value, late |-> req[r].late]
<1>1. UNCHANGED <<store, answers, minted, inbox, presented, wrongs>>
      /\ wrongs' \intersect {"spent", "after"} = {} /\ req[r].pc = "bearer"
  BY DEF ReadAccess, IInv, At
<1>2. Go(r, Idle) \/ (access # None /\ Go(r, q))
  BY DEF ReadAccess, Done
<1>3. CASE Go(r, Idle)
  <2>1. Idle.pc = "idle"
    BY DEF Idle
  <2> QED BY <1>1, <1>3, <2>1, RestStep
<1>4. CASE access # None /\ Go(r, q)
  <2>1. access = store[Access(req[r].token)]
    BY <1>4, FoundIs
  <2>2. req[r].late => RevokedIn(store, access.value.grant)
    BY <1>1, <2>1 DEF IInv, LateIsLate
  <2> HIDE DEF access
  <2>3. q.pc = "identity" /\ q.late = req[r].late /\ q.access = access.value
    OBVIOUS
  <2> HIDE DEF q
  <2> QED BY <1>1, <1>4, <2>2, <2>3, BearerStep
<1> QED BY <1>2, <1>3, <1>4

------------------------------------------------------------------------------
(* The login. *)

\* A step that writes or takes neither families nor access records, and that answers nothing.
LEMMA LoginStep ==
  ASSUME IInv, Types', SameFamilies, AccessStays, UNCHANGED <<answers, minted, presented, wrongs>>,
         \A s \in Requests : req'[s] = req[s] \/ req'[s].pc \in {"idle", "exchange", "create"},
         Taken', Unanswered',
         (\A g, u : UpstreamOf(g, u)' => UpstreamOf(g, u)) => CodesOwn'
  PROVE  IInv' /\ RevokedStays
<1>1. ReadsFit /\ Alone /\ Owned /\ Unspent /\ Answered /\ LateIsLate
  BY DEF IInv
<1>2. ASSUME NEW s \in Requests, req'[s] # req[s]
      PROVE  Reads(req[s])' /\ Follows(req[s], req'[s]) /\ req'[s].pc \notin {"bearer", "identity"}
  <2>1. ~Versioned(req[s])' /\ req'[s].pc \notin {"bearer", "identity"}
    BY <1>2 DEF Versioned
  <2> QED BY <2>1, NoReads
<1>3. /\ ReadsFit' /\ Alone' /\ Owned' /\ Unspent' /\ Answered' /\ RevokedStays
      /\ \A g, u : UpstreamOf(g, u)' => UpstreamOf(g, u)
  BY <1>1, <1>2, FamiliesKept
<1>4. LateIsLate'
  BY <1>1, <1>2, <1>3, LateKept
<1>5. wrongs' \intersect {"spent", "after"} = {}
  BY DEF IInv
<1> QED BY <1>3, <1>4, <1>5 DEF IInv

LEMMA AuthorizeKeeps ==
  ASSUME IInv, Types', Authorize
  PROVE  IInv' /\ RevokedStays
<1>1. /\ State \notin inbox /\ inbox' = inbox \union {State}
      /\ UNCHANGED <<answers, minted, presented, wrongs, req>>
      /\ \E value, until : store' = Put(store, Transaction, value, until)
  BY DEF Authorize
<1>2. /\ \A k : k # Transaction => (k \in DOMAIN store' <=> k \in DOMAIN store)
      /\ \A k \in DOMAIN store : k # Transaction => store'[k] = store[k]
  BY <1>1, PutElsewhere
<1>3. SameFamilies /\ AccessStays /\ CodesStay
  BY <1>2, KeysDiffer DEF SameFamilies, AccessStays, CodesStay, In
<1>4. Taken /\ Unanswered /\ CodesOwn
  BY DEF IInv
<1>5. (\A r \in Requests : req[r].pc # "exchange") /\ (\A a \in answers : a[1] # State)
      /\ State \in inbox'
  BY <1>1, <1>4 DEF Taken
<1>6. Taken'
  BY <1>1, <1>3, <1>4, <1>5 DEF Taken, CodesStay, Creating
<1>7. Unanswered'
  BY <1>1, <1>3, <1>4, <1>5 DEF Unanswered, CodesStay, Creating
<1>8. (\A g, u : UpstreamOf(g, u)' => UpstreamOf(g, u)) => CodesOwn'
  BY <1>1, <1>3, <1>4 DEF CodesOwn, CodesStay, Creating
<1> QED BY <1>1, <1>3, <1>6, <1>7, <1>8, LoginStep

\* The transaction is taken by one callback.
LEMMA CallbackKeeps ==
  ASSUME IInv, Types', NEW r \in Requests, Callback(r)
  PROVE  IInv' /\ RevokedStays
<1>1. UNCHANGED <<answers, minted, presented, wrongs, inbox>> /\ store' = Without(store, Transaction)
  BY DEF Callback
<1>2. /\ \A k : k # Transaction => (k \in DOMAIN store' <=> k \in DOMAIN store)
      /\ Transaction \notin DOMAIN store'
      /\ \A k \in DOMAIN store : k # Transaction => store'[k] = store[k]
  BY <1>1, WithoutElsewhere
<1>3. SameFamilies /\ AccessStays /\ CodesStay /\ ~In(Transaction)'
  BY <1>2, KeysDiffer DEF SameFamilies, AccessStays, CodesStay, In
<1>4. Types /\ Taken /\ Unanswered /\ CodesOwn
  BY DEF IInv
<1>5. PICK q : Go(r, q) /\ (q.pc = "idle" \/ (q.pc = "exchange" /\ In(Transaction)))
  <2>1. CASE Found(Transaction) = None
    BY <2>1 DEF Callback, Done, Idle
  <2>2. CASE Found(Transaction) # None
    BY <2>2, FoundIs DEF Callback, In
  <2> QED BY <2>1, <2>2
<1>6. req'[r] = q /\ \A s \in Requests : s # r => req'[s] = req[s]
  BY <1>4, <1>5, GoIs
<1>7. \A s \in Requests : Creating(s)' => Creating(s) /\ req'[s] = req[s]
  BY <1>5, <1>6 DEF Creating
<1>8. \A s \in Requests : req'[s].pc = "exchange" =>
        (req'[s] = req[s] /\ s # r) \/ (s = r /\ In(Transaction))
  BY <1>5, <1>6
<1>9. Taken'
  <2>1. \A s \in Requests : req'[s].pc = "exchange" => ~In(Transaction)'
    BY <1>3
  <2>2. \A s, t \in Requests : req'[s].pc = "exchange" /\ req'[t].pc = "exchange" => s = t
    BY <1>4, <1>8 DEF Taken
  <2>3. State \notin inbox' => ~In(Transaction)' /\ (\A s \in Requests : req'[s].pc # "exchange")
                               /\ \A a \in answers' : a[1] # State
    BY <1>1, <1>3, <1>4, <1>8 DEF Taken
  <2>4. \A s \in Requests : \A c : Creating(s)' /\ req'[s].token = c => ~In(Code(c))'
    BY <1>3, <1>4, <1>7 DEF Taken, CodesStay
  <2>5. \A s, t \in Requests : Creating(s)' /\ Creating(t)' /\ req'[s].token = req'[t].token => s = t
    BY <1>4, <1>7 DEF Taken
  <2> QED BY <2>1, <2>2, <2>3, <2>4, <2>5 DEF Taken
<1>10. Unanswered'
  <2>1. \A a \in answers' :
          In(Transaction)' \/ (\E s \in Requests : req'[s].pc = "exchange") => a[1] # State
    BY <1>1, <1>3, <1>4, <1>8 DEF Unanswered
  <2>2. \A a \in answers' : \A c : In(Code(c))' => a[1] # c
    BY <1>1, <1>3, <1>4 DEF Unanswered, CodesStay
  <2>3. \A a \in answers', s \in Requests : Creating(s)' => a[1] # req'[s].token
    BY <1>1, <1>4, <1>7 DEF Unanswered
  <2> QED BY <2>1, <2>2, <2>3 DEF Unanswered
<1>11. ASSUME \A g, u : UpstreamOf(g, u)' => UpstreamOf(g, u)
       PROVE  CodesOwn'
  <2>1. ASSUME NEW c, NEW u, In(Code(c))', store'[Code(c)].value.upstream = u, u # 0
        PROVE  u = c[2] /\ u \notin presented' /\ \A g : ~UpstreamOf(g, u)'
    BY <1>1, <1>3, <1>4, <1>11, <2>1 DEF CodesOwn, CodesStay
  <2>2. ASSUME NEW s \in Requests, NEW u, Creating(s)', req'[s].code.upstream = u, u # 0
        PROVE  u = req'[s].token[2] /\ u \notin presented' /\ \A g : ~UpstreamOf(g, u)'
    <3>1. Creating(s) /\ req'[s] = req[s]
      BY <1>7, <2>2
    <3>2. u = req[s].token[2] /\ u \notin presented /\ \A g : ~UpstreamOf(g, u)
      BY <1>4, <2>2, <3>1 DEF CodesOwn
    <3> QED BY <1>1, <1>11, <3>1, <3>2
  <2> QED BY <2>1, <2>2 DEF CodesOwn
<1>12. \A s \in Requests : req'[s] = req[s] \/ req'[s].pc \in {"idle", "exchange", "create"}
  BY <1>5, <1>6
<1> QED BY <1>1, <1>3, <1>9, <1>10, <1>11, <1>12, LoginStep

\* A code is taken by one request.
LEMMA RedeemKeeps ==
  ASSUME IInv, Types', NEW r \in Requests, Redeem(r)
  PROVE  IInv' /\ RevokedStays
<1> DEFINE c0 == req[r].token
<1>1. UNCHANGED <<answers, minted, presented, wrongs, inbox>> /\ store' = Without(store, Code(c0))
  BY DEF Redeem
<1>2. /\ \A k : k # Code(c0) => (k \in DOMAIN store' <=> k \in DOMAIN store)
      /\ Code(c0) \notin DOMAIN store'
      /\ \A k \in DOMAIN store : k # Code(c0) => store'[k] = store[k]
  BY <1>1, WithoutElsewhere
<1> HIDE DEF c0
<1>3. SameFamilies /\ AccessStays /\ CodesStay /\ (In(Transaction)' => In(Transaction))
      /\ \A c : In(Code(c))' => c # c0
  BY <1>2, KeysDiffer DEF SameFamilies, AccessStays, CodesStay, In
<1>4. Types /\ Taken /\ Unanswered /\ CodesOwn
  BY DEF IInv
<1>5. PICK q : /\ Go(r, q)
               /\ \/ q.pc = "idle"
                  \/ /\ q.pc = "create" /\ q.token = c0
                     /\ In(Code(c0)) /\ q.code = store[Code(c0)].value
  <2>1. CASE Found(Code(c0)) = None \/ Done(r)
    BY <2>1 DEF Redeem, Done, Idle, c0
  <2>2. CASE Found(Code(c0)) # None /\ ~Done(r)
    <3>1. Go(r, [pc |-> "create", token |-> c0, code |-> Found(Code(c0)).value])
      BY <2>2 DEF Redeem, c0
    <3>2. In(Code(c0)) /\ Found(Code(c0)) = store[Code(c0)]
      BY <2>2, FoundIs DEF In
    <3> QED BY <3>1, <3>2
  <2> QED BY <2>1, <2>2
<1>6. req'[r] = q /\ \A s \in Requests : s # r => req'[s] = req[s]
  BY <1>4, <1>5, GoIs
<1>7. \A s \in Requests : Creating(s)' =>
        \/ s # r /\ Creating(s) /\ req'[s] = req[s]
        \/ s = r /\ req'[s].token = c0 /\ In(Code(c0)) /\ req'[s].code = store[Code(c0)].value
  BY <1>5, <1>6 DEF Creating
<1>8. \A s \in Requests : req'[s].pc = "exchange" => req[s].pc = "exchange"
  BY <1>5, <1>6
<1>9. Taken'
  <2>1. \A s \in Requests : req'[s].pc = "exchange" => ~In(Transaction)'
    BY <1>3, <1>4, <1>8 DEF Taken
  <2>2. \A s, t \in Requests : req'[s].pc = "exchange" /\ req'[t].pc = "exchange" => s = t
    BY <1>4, <1>8 DEF Taken
  <2>3. State \notin inbox' => ~In(Transaction)' /\ (\A s \in Requests : req'[s].pc # "exchange")
                               /\ \A a \in answers' : a[1] # State
    BY <1>1, <1>3, <1>4, <1>8 DEF Taken
  <2>4. \A s \in Requests : \A c : Creating(s)' /\ req'[s].token = c => ~In(Code(c))'
    BY <1>3, <1>4, <1>7 DEF Taken, CodesStay
  <2>5. \A s, t \in Requests : Creating(s)' /\ Creating(t)' /\ req'[s].token = req'[t].token => s = t
    BY <1>4, <1>7 DEF Taken
  <2> QED BY <2>1, <2>2, <2>3, <2>4, <2>5 DEF Taken
<1>10. Unanswered'
  <2>1. \A a \in answers' :
          In(Transaction)' \/ (\E s \in Requests : req'[s].pc = "exchange") => a[1] # State
    BY <1>1, <1>3, <1>4, <1>8 DEF Unanswered
  <2>2. \A a \in answers' : \A c : In(Code(c))' => a[1] # c
    BY <1>1, <1>3, <1>4 DEF Unanswered, CodesStay
  <2>3. \A a \in answers', s \in Requests : Creating(s)' => a[1] # req'[s].token
    BY <1>1, <1>4, <1>7 DEF Unanswered
  <2> QED BY <2>1, <2>2, <2>3 DEF Unanswered
<1>11. ASSUME \A g, u : UpstreamOf(g, u)' => UpstreamOf(g, u)
       PROVE  CodesOwn'
  <2>1. ASSUME NEW c, NEW u, In(Code(c))', store'[Code(c)].value.upstream = u, u # 0
        PROVE  u = c[2] /\ u \notin presented' /\ \A g : ~UpstreamOf(g, u)'
    BY <1>1, <1>3, <1>4, <1>11, <2>1 DEF CodesOwn, CodesStay
  <2>2. ASSUME NEW s \in Requests, NEW u, Creating(s)', req'[s].code.upstream = u, u # 0
        PROVE  u = req'[s].token[2] /\ u \notin presented' /\ \A g : ~UpstreamOf(g, u)'
    BY <1>1, <1>4, <1>7, <1>11, <2>2 DEF CodesOwn
  <2> QED BY <2>1, <2>2 DEF CodesOwn
<1>12. \A s \in Requests : req'[s] = req[s] \/ req'[s].pc \in {"idle", "exchange", "create"}
  BY <1>5, <1>6
<1> QED BY <1>1, <1>3, <1>9, <1>10, <1>11, <1>12, LoginStep

\* The tokens of families and of requests that carry them were minted.
LEMMA KnownTokens ==
  ASSUME Types
  PROVE  /\ \A g : In(Family(g)) =>
              /\ g \in 1..minted /\ Fam(g).digest \in Pairs(minted) /\ Fam(g).upstream \in 0..minted
              /\ Fam(g).receipt.digest \in Pairs(minted) \union {NoToken}
         /\ \A s \in Requests : Versioned(req[s]) =>
              /\ req[s].family.upstream \in 0..minted /\ req[s].family.digest \in Pairs(minted)
              /\ req[s].token \in Pairs(minted)
         /\ \A g, u : UpstreamOf(g, u) => u \in 0..minted
         /\ \A g, t : DigestOf(g, t) => t \in Pairs(minted) \union {NoToken}
<1>1. ASSUME NEW g, In(Family(g))
      PROVE  /\ g \in 1..minted /\ Fam(g).digest \in Pairs(minted) /\ Fam(g).upstream \in 0..minted
             /\ Fam(g).receipt.digest \in Pairs(minted) \union {NoToken}
  <2>1. Fam(g) \in Families(minted) /\ g \in 1..minted
    BY <1>1 DEF Types, StoreTypes, In, Fam
  <2>2. Fam(g).digest \in Pairs(minted) /\ Fam(g).receipt \in Receipts(minted)
        /\ Fam(g).upstream \in 0..minted
    BY <2>1 DEF Families
  <2>3. Fam(g).receipt.digest \in Pairs(minted) \union {NoToken}
    BY <2>2 DEF Receipts, NoReceipt
  <2> QED BY <2>1, <2>2, <2>3
<1>2. ASSUME NEW s \in Requests, Versioned(req[s])
      PROVE  /\ req[s].family.upstream \in 0..minted /\ req[s].family.digest \in Pairs(minted)
             /\ req[s].token \in Pairs(minted)
  BY <1>2, FamilyKnows DEF Families
<1>3. \A s \in Requests : Carries(req[s]) => Versioned(req[s])
  BY DEF Carries, Versioned
<1>4. \A s \in Requests : Renewed(req[s]) => Versioned(req[s])
  BY DEF Renewed, Versioned
<1>5. \A g, u : UpstreamOf(g, u) => u \in 0..minted
  BY <1>1, <1>2, <1>3 DEF UpstreamOf
<1>6. \A g, t : DigestOf(g, t) => t \in Pairs(minted) \union {NoToken}
  BY <1>1, <1>2, <1>4 DEF DigestOf
<1> QED BY <1>1, <1>2, <1>5, <1>6

\* An exchange that succeeds answers the state with a new code.
LEMMA ExchangeKeeps ==
  ASSUME IInv, Types', NEW r \in Requests, Exchange(r)
  PROVE  IInv' /\ RevokedStays
<1> DEFINE n == minted + 1
           c0 == <<"code", n>>
<1>1. Types /\ Taken /\ Unanswered /\ CodesOwn /\ minted \in Nat /\ req[r].pc = "exchange"
  BY DEF IInv, Types, Exchange, At
<1>2. CASE Done(r) /\ UNCHANGED <<store, inbox, minted, answers>>
  <2>1. Go(r, Idle) /\ Idle.pc = "idle" /\ wrongs' \intersect {"spent", "after"} = {}
        /\ UNCHANGED presented
    BY <1>2 DEF Done, Idle, Exchange, IInv
  <2> QED BY <1>2, <2>1, RestStep
<1>3. CASE /\ minted' = n /\ Answer(r, State, c0)
           /\ \E value, until : /\ store' = Put(store, Code(c0), value, until)
                                /\ value.upstream \in {0, n}
  <2>1. PICK value, until : store' = Put(store, Code(c0), value, until) /\ value.upstream \in {0, n}
    BY <1>3
  <2>2. /\ \A k : k # Code(c0) => (k \in DOMAIN store' <=> k \in DOMAIN store)
        /\ \A k \in DOMAIN store : k # Code(c0) => store'[k] = store[k]
        /\ store'[Code(c0)].value = value
    BY <2>1 DEF Put
  <2>3. /\ UNCHANGED <<presented, wrongs>> /\ answers' = answers \union {<<State, c0>>}
        /\ State \in inbox => State \in inbox'
    BY <1>3 DEF Exchange, Answer
  <2>4. req'[r].pc = "idle" /\ \A s \in Requests : s # r => req'[s] = req[s]
    BY <1>1, <1>3, GoIs DEF Answer, Done, Idle
  <2>5. n \notin 0..minted /\ c0 \notin Tokens(minted) /\ c0 \notin Codes(minted)
        /\ c0[2] = n /\ c0 # State
    <3>1. n \notin 0..minted
      BY <1>1
    <3> QED BY <1>1, <3>1, NewTokens DEF State
  <2> HIDE DEF n, c0
  <2>6. SameFamilies /\ AccessStays /\ (In(Transaction)' => In(Transaction))
    BY <2>2, KeysDiffer DEF SameFamilies, AccessStays, In
  <2>7. \A c : In(Code(c))' =>
          \/ c = c0 /\ store'[Code(c)].value = value
          \/ c \in Codes(minted) /\ In(Code(c)) /\ store'[Code(c)] = store[Code(c)]
    <3> SUFFICES ASSUME NEW c, In(Code(c))', c # c0
                 PROVE  c \in Codes(minted) /\ In(Code(c)) /\ store'[Code(c)] = store[Code(c)]
      BY <2>2
    <3>1. In(Code(c)) /\ store'[Code(c)] = store[Code(c)]
      BY <2>2, KeysDiffer DEF In
    <3> QED BY <1>1, <3>1 DEF In, Types, StoreTypes
  <2>8. ASSUME NEW s \in Requests
        PROVE  req'[s] = req[s] \/ (Reads(req[s])' /\ Follows(req[s], req'[s]))
    <3>1. CASE s # r
      BY <2>4, <3>1
    <3>2. CASE s = r
      <4>1. ~Versioned(req[r])'
        BY <2>4 DEF Versioned
      <4> QED BY <3>2, <4>1, NoReads
    <3> QED BY <3>1, <3>2
  <2>9. \A s \in Requests : Creating(s)' =>
          Creating(s) /\ req'[s] = req[s] /\ req[s].token \in Codes(minted)
          /\ req[s].code \in CodeRecords(minted)
    <3> SUFFICES ASSUME NEW s \in Requests, Creating(s)'
                 PROVE  Creating(s) /\ req'[s] = req[s] /\ req[s].token \in Codes(minted)
                        /\ req[s].code \in CodeRecords(minted)
      OBVIOUS
    <3>1. Creating(s) /\ req'[s] = req[s]
      BY <2>4 DEF Creating
    <3>2. req[s] \in AtCreate(minted)
      BY <1>1, <3>1, RequestKnows DEF Types, Creating
    <3> QED BY <3>1, <3>2 DEF AtCreate
  <2>10. \A s \in Requests : req'[s].pc # "exchange"
    BY <1>1, <2>4 DEF Taken
  <2>11. ~In(Transaction)' /\ State \in inbox'
    BY <1>1, <2>3, <2>6 DEF Taken
  <2>12. \A a \in answers : a[1] \in Tokens(minted) /\ a[1] # State
    <3>1. \A a \in answers : a[1] # State
      BY <1>1 DEF Unanswered
    <3> QED BY <1>1, <3>1 DEF Types
  <2>13. /\ ReadsFit /\ Alone /\ Owned /\ Unspent /\ Answered /\ LateIsLate
    BY DEF IInv
  <2>14. \A s \in Requests : Follows(req[s], req'[s])
    BY <2>8 DEF Follows
  <2>15. /\ \A g, u : UpstreamOf(g, u)' => UpstreamOf(g, u)
         /\ \A g, t : DigestOf(g, t)' => DigestOf(g, t)
         /\ Alone'
    BY <2>6, <2>13, <2>14, OwnersKept
  <2>16. ReadsFit' /\ RevokedStays
    BY <2>6, <2>8, <2>13, ReadsKept, SameRevoked
  <2>17. \A g : In(Family(g))' => In(Family(g)) /\ Fam(g)' = Fam(g)
    BY <2>6 DEF SameFamilies, Fam
  <2>18. Owned'
    BY <2>13, <2>15, <2>17 DEF Owned
  <2>19. \A s \in Requests : Renewed(req[s])' =>
           /\ Renewed(req[s]) /\ req'[s].family.upstream = req[s].family.upstream
           /\ req'[s].family.digest = req[s].family.digest
    BY <2>14 DEF Follows, Renewed, Carries
  <2>20. Unspent'
    BY <2>3, <2>13, <2>17, <2>19 DEF Unspent
  <2>21. Answered'
    <3>1. \A g : In(Family(g)) => Fam(g).digest \in Pairs(minted) /\ Fam(g).receipt.digest # State
      BY <1>1, KnownTokens, TokensDiffer DEF State, NoToken
    <3>2. \A s \in Requests : Renewed(req[s]) => req[s].family.digest \in Pairs(minted)
      BY <1>1, KnownTokens DEF Renewed, Versioned
    <3>3. \A a \in answers' : a \in answers \/ a[1] = State
      BY <2>3
    <3>4. State \notin Pairs(minted)
      BY TokensDiffer
    <3>5. \A a \in answers' : \A g : In(Family(g))' =>
            /\ a[1] # Fam(g)'.digest
            /\ a[1] = Fam(g)'.receipt.digest => a[2] = Fam(g)'.receipt.pair
      BY <2>13, <2>17, <3>1, <3>3, <3>4 DEF Answered
    <3>6. \A a \in answers', s \in Requests : Renewed(req[s])' => a[1] # req'[s].family.digest
      BY <2>13, <2>19, <3>2, <3>3, <3>4 DEF Answered
    <3>7. AnswersAgree'
      BY <2>3, <2>12, <2>13 DEF Answered, AnswersAgree
    <3> QED BY <3>5, <3>6, <3>7 DEF Answered
  <2>22. Taken'
    <3>1. \A s \in Requests : \A c : Creating(s)' /\ req'[s].token = c => ~In(Code(c))'
      BY <1>1, <2>5, <2>7, <2>9 DEF Taken
    <3>2. \A s, t \in Requests : Creating(s)' /\ Creating(t)' /\ req'[s].token = req'[t].token => s = t
      BY <1>1, <2>9 DEF Taken
    <3> QED BY <2>10, <2>11, <3>1, <3>2 DEF Taken
  <2>23. Unanswered'
    <3>1. \A a \in answers' : a = <<State, c0>> \/ (a \in answers /\ a[1] # c0)
      BY <2>3, <2>5, <2>12
    <3>2. State \notin Codes(minted)
      BY TokensDiffer
    <3>3. \A a \in answers' : \A c : In(Code(c))' => a[1] # c
      BY <1>1, <2>5, <2>7, <3>1, <3>2 DEF Unanswered
    <3>4. \A a \in answers', s \in Requests : Creating(s)' => a[1] # req'[s].token
      BY <1>1, <2>9, <3>1, <3>2 DEF Unanswered
    <3> QED BY <2>10, <2>11, <3>3, <3>4 DEF Unanswered
  <2>24. CodesOwn'
    <3>1. n \notin presented /\ \A g : ~UpstreamOf(g, n)
      <4>1. n \notin presented
        <5>1. presented \subseteq 1..minted /\ 1..minted \subseteq 0..minted
          BY <1>1 DEF Types
        <5> QED BY <2>5, <5>1
      <4> QED BY <1>1, <2>5, <4>1, KnownTokens
    <3>2. ASSUME NEW c, NEW u, In(Code(c))', store'[Code(c)].value.upstream = u, u # 0
          PROVE  u = c[2] /\ u \notin presented' /\ \A g : ~UpstreamOf(g, u)'
      <4>1. CASE c = c0 /\ store'[Code(c)].value = value
        BY <2>1, <2>3, <2>5, <2>15, <3>1, <3>2, <4>1
      <4>2. CASE In(Code(c)) /\ store'[Code(c)] = store[Code(c)]
        BY <1>1, <2>3, <2>15, <3>2, <4>2 DEF CodesOwn
      <4> QED BY <2>7, <3>2, <4>1, <4>2
    <3>3. ASSUME NEW s \in Requests, NEW u, Creating(s)', req'[s].code.upstream = u, u # 0
          PROVE  u = req'[s].token[2] /\ u \notin presented' /\ \A g : ~UpstreamOf(g, u)'
      <4>1. Creating(s) /\ req'[s] = req[s]
        BY <2>9, <3>3
      <4>2. u = req[s].token[2] /\ u \notin presented /\ \A g : ~UpstreamOf(g, u)
        BY <1>1, <3>3, <4>1 DEF CodesOwn
      <4> QED BY <2>3, <2>15, <4>1, <4>2
    <3> QED BY <3>2, <3>3 DEF CodesOwn
  <2>25. LateIsLate'
    BY <2>4, <2>6, <2>13, <2>16, LateKept
  <2>26. wrongs' \intersect {"spent", "after"} = {}
    BY <2>3 DEF IInv
  <2> QED BY <2>15, <2>16, <2>18, <2>20, <2>21, <2>22, <2>23, <2>24, <2>25, <2>26 DEF IInv
<1>4. ASSUME ~(Done(r) /\ UNCHANGED <<store, inbox, minted, answers>>)
      PROVE  /\ minted' = n /\ Answer(r, State, c0)
             /\ \E value, until : /\ store' = Put(store, Code(c0), value, until)
                                  /\ value.upstream \in {0, n}
  <2> DEFINE value == [upstream |-> IF req[r].refresh THEN minted + 1 ELSE 0,
                       expires |-> now + GrantTtl, assertion |-> now + AssertionTtl]
  <2>1. /\ minted' = n /\ Answer(r, State, c0)
        /\ store' = Put(store, Code(c0), value, now + Min(CodeTtl, AssertionTtl))
    BY <1>4 DEF Exchange
  <2>2. value.upstream \in {0, n}
    OBVIOUS
  <2> HIDE DEF value
  <2> QED BY <2>1, <2>2
<1> QED BY <1>2, <1>3, <1>4

\* A code that becomes a token is answered with it.  A new family has the code's upstream
\* token and a digest of its own.
LEMMA CreateStep ==
  ASSUME IInv, Types', NEW r \in Requests, NEW c0, NEW tok, NEW code, NEW n, n = minted + 1,
         req[r].pc = "create", c0 = req[r].token, code = req[r].code,
         Go(r, Idle), minted' = n, answers' = answers \union {<<c0, tok>>},
         UNCHANGED <<presented, wrongs>>, State \in inbox => State \in inbox',
         FamiliesStay, AccessStays, CodesStay, In(Transaction)' => In(Transaction),
         \A g : In(Family(g))' => In(Family(g)) \/ g = n,
         In(Family(n))' => Fam(n)' = NewFamily(code, <<"pair", n>>) /\ code.upstream # 0
  PROVE  IInv' /\ RevokedStays
<1>1. /\ Types /\ ReadsFit /\ Alone /\ Owned /\ Unspent /\ Answered /\ Taken /\ Unanswered
      /\ CodesOwn /\ LateIsLate /\ minted \in Nat
  BY DEF IInv, Types
<1>2. req'[r].pc = "idle" /\ \A s \in Requests : s # r => req'[s] = req[s]
  BY <1>1, GoIs DEF Idle
<1>3. ~Versioned(req[r])'
  BY <1>2 DEF Versioned
<1>4. \A s \in Requests : req'[s] = req[s] \/ (Reads(req[s])' /\ Follows(req[s], req'[s]))
  BY <1>2, <1>3, NoReads
<1>5. ReadsFit' /\ RevokedStays
  BY <1>1, <1>4, ReadsStay, RevokedStay
<1>6. \A s \in Requests : Follows(req[s], req'[s])
  BY <1>4 DEF Follows
<1>7. Alone'
  BY <1>1, <1>6 DEF Alone, Follows
<1>8. /\ c0 \in Codes(minted) /\ code \in CodeRecords(minted) /\ Creating(r)
  <2>1. req[r] \in AtCreate(minted)
    BY <1>1, RequestKnows DEF Types
  <2> QED BY <2>1 DEF AtCreate, Creating
<1> DEFINE pair == <<"pair", n>>
           u0   == code.upstream
<1>9. pair \notin Pairs(minted) /\ pair # NoToken /\ n \notin 1..minted
      /\ pair \notin Tokens(minted)
  <2>1. n \notin 1..minted
    BY <1>1
  <2> QED BY <1>1, <2>1, NewTokens DEF NoToken
<1> HIDE DEF pair
<1>10. ASSUME NEW g, In(Family(g))'
       PROVE  \/ In(Family(g)) /\ Fam(g)' = Fam(g)
              \/ /\ g = n /\ ~In(Family(g)) /\ Fam(g)' = NewFamily(code, pair) /\ u0 # 0
  <2>1. CASE In(Family(g))
    BY <2>1 DEF FamiliesStay, Fam
  <2>2. CASE ~In(Family(g))
    BY <1>10, <2>2 DEF pair
  <2> QED BY <2>1, <2>2
<1>11. /\ NewFamily(code, pair).upstream = u0 /\ NewFamily(code, pair).digest = pair
       /\ NewFamily(code, pair).receipt.digest = NoToken /\ NewFamily(code, pair).status = "active"
  BY DEF NewFamily, NoReceipt
<1>12. u0 # 0 => /\ u0 = c0[2] /\ u0 \notin presented /\ \A g : ~UpstreamOf(g, u0)
  BY <1>1, <1>8 DEF CodesOwn
<1>13. \A s \in Requests : Carries(req[s])' => req'[s] = req[s]
  BY <1>2 DEF Carries
<1>14. \A s \in Requests : Renewed(req[s])' => req'[s] = req[s]
  BY <1>2 DEF Renewed
<1>15. \A g, u : UpstreamOf(g, u)' => UpstreamOf(g, u) \/ (g = n /\ u = u0)
  <2> SUFFICES ASSUME NEW g, NEW u, UpstreamOf(g, u)', ~(g = n /\ u = u0) PROVE UpstreamOf(g, u)
    OBVIOUS
  <2>1. CASE In(Family(g))' /\ Fam(g)'.upstream = u
    BY <1>10, <1>11, <2>1 DEF UpstreamOf
  <2>2. ASSUME NEW s \in Requests, Carries(req[s])', req'[s].grant = g, req'[s].family.upstream = u
        PROVE  UpstreamOf(g, u)
    BY <1>13, <2>2 DEF UpstreamOf
  <2> QED BY <2>1, <2>2 DEF UpstreamOf
<1>16. \A g, t : DigestOf(g, t)' => DigestOf(g, t) \/ t = NoToken \/ (g = n /\ t = pair)
  <2> SUFFICES ASSUME NEW g, NEW t, DigestOf(g, t)', t # NoToken, ~(g = n /\ t = pair)
               PROVE DigestOf(g, t)
    OBVIOUS
  <2>1. CASE In(Family(g))' /\ t \in {Fam(g)'.digest, Fam(g)'.receipt.digest}
    BY <1>10, <1>11, <2>1 DEF DigestOf
  <2>2. ASSUME NEW s \in Requests, Renewed(req[s])', req'[s].grant = g, req'[s].family.digest = t
        PROVE  DigestOf(g, t)
    BY <1>14, <2>2 DEF DigestOf
  <2> QED BY <2>1, <2>2 DEF DigestOf
<1>17. Owned'
  <2>1. \A g : ~DigestOf(g, pair)
    BY <1>1, <1>9, KnownTokens
  <2>2. \A g : In(Family(g))' => Fam(g)'.digest # Fam(g)'.receipt.digest
    BY <1>1, <1>9, <1>10, <1>11 DEF Owned
  <2>3. \A g : UpstreamOf(g, u0) /\ u0 # 0 => g = n
    BY <1>12
  <2> QED BY <1>1, <1>15, <1>16, <2>1, <2>2, <2>3, OwnedGrows
<1>18. Unspent'
  <2>1. ASSUME NEW g, In(Family(g))', Fam(g)'.status = "active"
        PROVE  Fam(g)'.upstream # 0 /\ Fam(g)'.upstream \notin presented'
    BY <1>1, <1>10, <1>11, <1>12, <2>1 DEF Unspent
  <2>2. \A s \in Requests : Renewed(req[s])' => req'[s].family.upstream \notin presented'
    BY <1>1, <1>14 DEF Unspent, Renewed
  <2> QED BY <2>1, <2>2 DEF Unspent
<1>19. \A a \in answers' : a = <<c0, tok>> \/ a \in answers
  OBVIOUS
<1>20. c0 \notin Pairs(minted) /\ c0 # NoToken /\ c0 # State /\ pair # c0
  BY <1>8, <1>9, TokensDiffer DEF NoToken, Codes, Tokens
<1>21. Answered'
  <2>1. ASSUME NEW a \in answers', NEW g, In(Family(g))'
        PROVE  /\ a[1] # Fam(g)'.digest
               /\ a[1] = Fam(g)'.receipt.digest => a[2] = Fam(g)'.receipt.pair
    <3>1. CASE In(Family(g)) /\ Fam(g)' = Fam(g)
      <4>1. /\ Fam(g).digest \in Pairs(minted)
            /\ Fam(g).receipt.digest \in Pairs(minted) \union {NoToken}
        BY <1>1, <3>1, KnownTokens
      <4>2. CASE a = <<c0, tok>>
        BY <1>20, <3>1, <4>1, <4>2
      <4>3. CASE a \in answers
        BY <1>1, <3>1, <4>3 DEF Answered
      <4> QED BY <1>19, <4>2, <4>3
    <3>2. CASE Fam(g)' = NewFamily(code, pair)
      <4>1. a[1] # pair
        BY <1>1, <1>9, <1>19, <1>20 DEF Types
      <4>2. a[1] # NoToken
        <5>1. NoToken \notin Tokens(minted)
          BY DEF NoToken, Tokens, State, Codes, Pairs, Plains
        <5> QED BY <1>1, <1>19, <1>20, <5>1 DEF Types
      <4> QED BY <1>11, <3>2, <4>1, <4>2
    <3> QED BY <1>10, <2>1, <3>1, <3>2
  <2>2. ASSUME NEW a \in answers', NEW s \in Requests, Renewed(req[s])'
        PROVE  a[1] # req'[s].family.digest
    <3>1. req'[s] = req[s] /\ Renewed(req[s])
      BY <1>14, <2>2
    <3>2. req[s].family.digest \in Pairs(minted)
      BY <1>1, <3>1, KnownTokens DEF Renewed, Versioned
    <3> QED BY <1>1, <1>19, <1>20, <3>1, <3>2 DEF Answered
  <2>3. AnswersAgree'
    <3>1. \A a \in answers : a[1] # c0
      BY <1>1, <1>8 DEF Unanswered
    <3> QED BY <1>1, <1>19, <3>1 DEF Answered, AnswersAgree
  <2> QED BY <2>1, <2>2, <2>3 DEF Answered
<1>22. \A s \in Requests : Creating(s)' => /\ s # r /\ Creating(s) /\ req'[s] = req[s]
                                           /\ req[s].token # c0
  BY <1>1, <1>2, <1>8 DEF Creating, Taken
<1>23. \A c : In(Code(c))' => In(Code(c)) /\ store'[Code(c)] = store[Code(c)] /\ c # c0
  BY <1>1, <1>8 DEF CodesStay, Taken
<1>24. \A s \in Requests : req'[s].pc = "exchange" => req[s].pc = "exchange"
  BY <1>2
<1>25. Taken'
  <2>1. /\ \A s \in Requests : req'[s].pc = "exchange" => ~In(Transaction)'
        /\ \A s, t \in Requests : req'[s].pc = "exchange" /\ req'[t].pc = "exchange" => s = t
    BY <1>1, <1>24 DEF Taken
  <2>2. State \notin inbox' => ~In(Transaction)' /\ (\A s \in Requests : req'[s].pc # "exchange")
                               /\ \A a \in answers' : a[1] # State
    BY <1>1, <1>19, <1>20, <1>24 DEF Taken
  <2>3. \A s \in Requests : \A c : Creating(s)' /\ req'[s].token = c => ~In(Code(c))'
    BY <1>1, <1>22, <1>23 DEF Taken
  <2>4. \A s, t \in Requests : Creating(s)' /\ Creating(t)' /\ req'[s].token = req'[t].token => s = t
    BY <1>1, <1>22 DEF Taken
  <2> QED BY <2>1, <2>2, <2>3, <2>4 DEF Taken
<1>26. Unanswered'
  <2>1. \A a \in answers' :
          In(Transaction)' \/ (\E s \in Requests : req'[s].pc = "exchange") => a[1] # State
    BY <1>1, <1>19, <1>20, <1>24 DEF Unanswered
  <2>2. \A a \in answers' : \A c : In(Code(c))' => a[1] # c
    BY <1>1, <1>19, <1>23 DEF Unanswered
  <2>3. \A a \in answers', s \in Requests : Creating(s)' => a[1] # req'[s].token
    BY <1>1, <1>19, <1>22 DEF Unanswered
  <2> QED BY <2>1, <2>2, <2>3 DEF Unanswered
<1>27. CodesOwn'
  <2>1. \A c \in Codes(minted) : c # c0 => c[2] # c0[2]
    BY <1>8 DEF Codes
  <2>2. ASSUME NEW c \in Codes(minted), c # c0, NEW u, u # 0, u = c[2], u \notin presented,
               \A g : ~UpstreamOf(g, u)
        PROVE  u = c[2] /\ u \notin presented' /\ \A g : ~UpstreamOf(g, u)'
    <3>1. u # u0
      BY <1>12, <2>1, <2>2
    <3> QED BY <1>15, <2>2, <3>1
  <2>3. ASSUME NEW c, NEW u, In(Code(c))', store'[Code(c)].value.upstream = u, u # 0
        PROVE  u = c[2] /\ u \notin presented' /\ \A g : ~UpstreamOf(g, u)'
    <3>1. In(Code(c)) /\ store[Code(c)].value.upstream = u /\ c # c0
      BY <1>23, <2>3
    <3>2. u = c[2] /\ u \notin presented /\ \A g : ~UpstreamOf(g, u)
      BY <1>1, <2>3, <3>1 DEF CodesOwn
    <3>3. c \in Codes(minted)
      BY <1>1, <3>1 DEF In, Types, StoreTypes
    <3> QED BY <2>2, <2>3, <3>1, <3>2, <3>3
  <2>4. ASSUME NEW s \in Requests, NEW u, Creating(s)', req'[s].code.upstream = u, u # 0
        PROVE  u = req'[s].token[2] /\ u \notin presented' /\ \A g : ~UpstreamOf(g, u)'
    <3>1. Creating(s) /\ req'[s] = req[s] /\ req[s].token # c0
      BY <1>22, <2>4
    <3>2. u = req[s].token[2] /\ u \notin presented /\ \A g : ~UpstreamOf(g, u)
      BY <1>1, <2>4, <3>1 DEF CodesOwn
    <3>3. req[s].token \in Codes(minted)
      <4>1. req[s] \in AtCreate(minted)
        BY <1>1, <3>1, RequestKnows DEF Types, Creating
      <4> QED BY <4>1 DEF AtCreate
    <3> QED BY <2>2, <2>4, <3>1, <3>2, <3>3
  <2> QED BY <2>3, <2>4 DEF CodesOwn
<1>28. LateIsLate'
  BY <1>1, <1>2, <1>5, LateKept
<1>29. wrongs' \intersect {"spent", "after"} = {}
  BY DEF IInv
<1> QED BY <1>5, <1>7, <1>17, <1>18, <1>21, <1>25, <1>26, <1>27, <1>28, <1>29 DEF IInv

LEMMA CreateKeeps ==
  ASSUME IInv, Types', NEW r \in Requests, Create(r)
  PROVE  IInv' /\ RevokedStays
<1>1. PICK n, code, c0 : n = minted + 1 /\ code = req[r].code /\ c0 = req[r].token
  OBVIOUS
<1> DEFINE access == Min(code.assertion, code.expires)
           pair   == <<"pair", n>>
           plain  == <<"plain", n>>
<1>2. /\ At(r, "create") /\ UNCHANGED <<now, client, presented, retired, excused, wrongs, sent>>
      /\ \/ Done(r) /\ UNCHANGED <<store, inbox, answers, minted>>
         \/ /\ minted' = n /\ Answer(r, c0, plain)
            /\ store' = Put(store, Access(plain),
                            [grant |-> 0, generation |-> 0, expires |-> code.assertion],
                            code.assertion)
         \/ /\ minted' = n /\ Answer(r, c0, pair)
            /\ code.upstream # 0
            /\ store' = Put(WithPair(pair, n, 0, access, code.expires),
                            Family(n), NewFamily(code, pair), code.expires)
  BY <1>1, CreateIs
<1>3. Types /\ minted \in Nat /\ wrongs' \intersect {"spent", "after"} = {}
  BY <1>2 DEF IInv, Types
<1>4. ASSUME NEW t, NEW u, Answer(r, t, u)
      PROVE  /\ Go(r, Idle) /\ answers' = answers \union {<<t, u>>}
             /\ State \in inbox => State \in inbox'
  BY <1>4 DEF Answer, Done
<1>5. CASE Done(r) /\ UNCHANGED <<store, inbox, answers, minted>>
  <2>1. Go(r, Idle) /\ Idle.pc = "idle"
    BY <1>5 DEF Done, Idle
  <2> QED BY <1>2, <1>3, <1>5, <2>1, RestStep
<1>6. ~In(Family(n)) /\ ~In(Access(pair)) /\ ~In(Access(plain))
  <2>1. n \notin 1..minted
    BY <1>1, <1>3
  <2>2. pair \notin Pairs(minted) \union Plains(minted) /\ plain \notin Pairs(minted) \union Plains(minted)
    BY <1>1, <1>3, NewTokens
  <2> QED BY <1>3, <2>1, <2>2 DEF Types, StoreTypes, In
<1>7. CASE /\ minted' = n /\ Answer(r, c0, plain)
           /\ \E value, until : store' = Put(store, Access(plain), value, until)
  <2>1. /\ \A k : k # Access(plain) => (k \in DOMAIN store' <=> k \in DOMAIN store)
        /\ \A k \in DOMAIN store : k # Access(plain) => store'[k] = store[k]
    BY <1>7, PutElsewhere
  <2> HIDE DEF plain, pair
  <2>2. /\ FamiliesStay /\ AccessStays /\ CodesStay /\ (In(Transaction)' => In(Transaction))
        /\ \A g : In(Family(g))' => In(Family(g))
    BY <1>6, <2>1, KeysDiffer DEF FamiliesStay, AccessStays, CodesStay, In
  <2>3. ~In(Family(n))'
    BY <1>6, <2>2
  <2> QED BY <1>1, <1>2, <1>4, <1>7, <2>2, <2>3, CreateStep DEF At
<1>8. CASE /\ minted' = n /\ Answer(r, c0, pair) /\ code.upstream # 0
           /\ store' = Put(WithPair(pair, n, 0, access, code.expires),
                           Family(n), NewFamily(code, pair), code.expires)
  <2>1. PICK s1 : s1 = Put(store, Access(pair), [grant |-> n, generation |-> 0, expires |-> access], access)
    OBVIOUS
  <2>2. PICK s2 : s2 = Put(s1, Refresh(pair), [grant |-> n, generation |-> 0], code.expires)
    OBVIOUS
  <2>3. store' = Put(s2, Family(n), NewFamily(code, pair), code.expires)
    BY <1>8, <2>1, <2>2 DEF WithPair
  <2> HIDE DEF pair, access
  <2>4. /\ DOMAIN s1 = DOMAIN store \union {Access(pair)}
        /\ \A k \in DOMAIN store : k # Access(pair) => s1[k] = store[k]
    BY <2>1 DEF Put
  <2>5. /\ DOMAIN s2 = DOMAIN s1 \union {Refresh(pair)}
        /\ \A k \in DOMAIN s1 : k # Refresh(pair) => s2[k] = s1[k]
    BY <2>2 DEF Put
  <2>6. /\ DOMAIN store' = DOMAIN s2 \union {Family(n)}
        /\ \A k \in DOMAIN s2 : k # Family(n) => store'[k] = s2[k]
        /\ store'[Family(n)].value = NewFamily(code, pair)
    BY <2>3 DEF Put
  <2>7. /\ \A k \in DOMAIN store : k \notin {Access(pair), Refresh(pair), Family(n)} =>
             k \in DOMAIN store' /\ store'[k] = store[k]
        /\ \A k \in DOMAIN store' : k \in DOMAIN store \union {Access(pair), Refresh(pair), Family(n)}
    BY <2>4, <2>5, <2>6
  <2>8. FamiliesStay /\ \A g : In(Family(g))' => In(Family(g)) \/ g = n
    BY <1>6, <2>7, KeysDiffer DEF FamiliesStay, In
  <2>9. AccessStays
    BY <1>6, <2>7, KeysDiffer DEF AccessStays, In
  <2>10. CodesStay /\ (In(Transaction)' => In(Transaction))
    BY <2>7, KeysDiffer DEF CodesStay, In
  <2>11. Fam(n)' = NewFamily(code, pair)
    BY <2>6 DEF Fam
  <2>12. In(Family(n))' => Fam(n)' = NewFamily(code, <<"pair", n>>) /\ code.upstream # 0
    BY <1>8, <2>11 DEF pair
  <2> QED BY <1>1, <1>2, <1>4, <1>8, <2>8, <2>9, <2>10, <2>12, CreateStep DEF At
<1> HIDE DEF pair, plain, access
<1> QED BY <1>2, <1>5, <1>7, <1>8

------------------------------------------------------------------------------
(* Refreshing. *)

\* A revocation that is about to be tried has no family in hand.
LEMMA ToRevokeKeeps ==
  ASSUME IInv, Types', UNCHANGED <<store, answers, minted, inbox, presented, wrongs>>,
         NEW r \in Requests, Go(r, ToRevoke(r))
  PROVE  IInv' /\ RevokedStays
<1>1. ToRevoke(r).pc = "revoke"
  BY DEF ToRevoke
<1>2. wrongs' \intersect {"spent", "after"} = {}
  BY DEF IInv
<1> QED BY <1>1, <1>2, RestStep

LEMMA ReadToRevokeKeeps ==
  ASSUME IInv, Types', NEW r \in Requests, ReadToRevoke(r)
  PROVE  IInv' /\ RevokedStays
<1> DEFINE entry == Found(Family(req[r].grant))
           next(pc) == [pc |-> pc, token |-> req[r].token, grant |-> req[r].grant,
                        generation |-> req[r].generation, until |-> req[r].until,
                        version |-> entry.version, family |-> entry.value]
<1>1. /\ UNCHANGED <<now, store, inbox, minted, presented, answers, wrongs>>
      /\ Done(r) \/ (entry # None /\ \E pc \in {"cleanup", "swap"} : Go(r, next(pc)))
  BY ReadToRevokeIs
<1>2. wrongs' \intersect {"spent", "after"} = {} /\ Types /\ UNCHANGED minted
  BY <1>1 DEF IInv
<1>3. CASE Done(r)
  <2>1. Go(r, Idle) /\ Idle.pc = "idle"
    BY <1>3 DEF Done, Idle
  <2> QED BY <1>1, <1>2, <2>1, RestStep
<1>4. CASE entry # None /\ \E pc \in {"cleanup", "swap"} : Go(r, next(pc))
  <2>1. PICK pc \in {"cleanup", "swap"} : Go(r, next(pc))
    BY <1>4
  <2>2. PICK q, g : q = next(pc) /\ g = req[r].grant
    OBVIOUS
  <2>3. /\ In(Family(g)) /\ entry.version = Ver(g) /\ entry.value = Fam(g)
    BY <1>4, <2>2, FoundIs DEF In, Ver, Fam
  <2>4. Ver(g) \in Nat \ {0}
    BY <1>2, <2>3 DEF Types, StoreTypes, In, Ver
  <2> HIDE DEF entry
  <2>5. q.pc = pc /\ q.grant = g /\ q.version = Ver(g) /\ q.family = Fam(g)
    BY <2>2, <2>3
  <2>6. req'[r] = q
    BY <1>2, <2>1, <2>2, GoIs
  <2>7. CASE pc = "cleanup"
    BY <1>1, <1>2, <2>1, <2>2, <2>5, <2>7, RestStep
  <2>8. CASE pc = "swap"
    <3>1. Follows(req[r], q)
      BY <2>5, <2>8 DEF Follows, Carries
    <3>2. /\ In(Family(g))' /\ Ver(g)' = Ver(g) /\ Fam(g)' = Fam(g)
      BY <1>1, <2>3 DEF In, Ver, Fam
    <3>3. req'[r].version \in 1..Ver(g)'
      BY <2>4, <2>5, <2>6, <3>2
    <3>4. Reads(req[r])'
      BY <2>5, <2>6, <2>8, <3>2, <3>3 DEF Reads, Versioned, Carries, Renewed
    <3> QED BY <1>1, <2>1, <2>2, <2>5, <2>8, <3>1, <3>4, FamilyStep
  <2> QED BY <2>1, <2>7, <2>8
<1> QED BY <1>1, <1>3, <1>4

LEMMA RereadKeeps ==
  ASSUME IInv, Types', NEW r \in Requests, Reread(r)
  PROVE  IInv' /\ RevokedStays
<1> DEFINE entry == Found(Family(req[r].grant))
           until == Min(now + Receipt, req[r].family.receipt.access)
           next == [req[r] EXCEPT !.pc = "commit", !.version = entry.version,
                                  !.family.receipt.until = until]
<1>1. /\ UNCHANGED <<store, inbox, minted, presented, answers, wrongs>> /\ req[r].pc = "reread"
      /\ Go(r, ToRevoke(r)) \/ (entry # None /\ StillClaimed(entry.value, req[r]) /\ Go(r, next))
  BY DEF Reread, At
<1>2. Types /\ ReadsFit
  BY DEF IInv
<1>3. CASE Go(r, ToRevoke(r))
  BY <1>1, <1>3, ToRevokeKeeps
<1>4. CASE entry # None /\ StillClaimed(entry.value, req[r]) /\ Go(r, next)
  <2>1. PICK q, g : q = next /\ g = req[r].grant
    OBVIOUS
  <2>2. /\ In(Family(g)) /\ entry.version = Ver(g) /\ entry.value = Fam(g)
    BY <1>4, <2>1, FoundIs DEF In, Ver, Fam
  <2>3. Ver(g) \in Nat \ {0}
    BY <1>2, <2>2 DEF Types, StoreTypes, In, Ver
  <2>4. Fam(g).status = "refreshing"
    BY <1>4, <2>2 DEF StillClaimed
  <2>5. req[r] \in AtFamily(minted) /\ req[r].family \in Families(minted)
    BY <1>1, <1>2, FamilyKnows DEF Versioned
  <2>6. req[r].family.receipt
          \in [digest : Pairs(minted), until : Nat, pair : Pairs(minted), access : Nat]
    BY <1>1, <1>2, RenewedHasReceipt DEF Renewed
  <2> HIDE DEF entry, until
  <2>7. /\ q.pc = "commit" /\ q.grant = g /\ q.version = Ver(g) /\ q.token = req[r].token
        /\ q.family = [req[r].family EXCEPT !.receipt = [req[r].family.receipt EXCEPT !.until = until]]
    BY <2>1, <2>2, <2>5 DEF AtFamily
  <2>8. /\ q.family.upstream = req[r].family.upstream /\ q.family.digest = req[r].family.digest
        /\ q.family.status = req[r].family.status
        /\ q.family.receipt.digest = req[r].family.receipt.digest
    BY <2>5, <2>6, <2>7 DEF Families
  <2>9. req'[r] = q
    BY <1>2, <1>4, <2>1, GoIs
  <2>10. Follows(req[r], q)
    BY <1>1, <2>1, <2>7, <2>8 DEF Follows, Carries, Renewed
  <2>11. In(Family(g))' /\ Ver(g)' = Ver(g) /\ Fam(g)' = Fam(g)
    BY <1>1, <2>2 DEF In, Ver, Fam
  <2>12. /\ Fam(g).digest = req[r].token /\ req[r].family.upstream # 0
         /\ req[r].family.status = "active" /\ req[r].family.receipt.digest = req[r].token
         /\ req[r].family.digest \notin {Fam(g).digest, Fam(g).receipt.digest}
    BY <1>1, <1>2, <2>1 DEF ReadsFit, Reads, Carries, Renewed
  <2>13. req'[r].version \in 1..Ver(g)'
    BY <2>3, <2>7, <2>9, <2>11
  <2>14. Reads(req[r])'
    BY <2>4, <2>7, <2>8, <2>9, <2>11, <2>12, <2>13 DEF Reads, Versioned, Carries, Renewed
  <2> QED BY <1>1, <1>4, <2>1, <2>7, <2>10, <2>14, FamilyStep
<1> QED BY <1>1, <1>3, <1>4

\* A look that claims read the family as it is.
LEMMA LookClaims ==
  ASSUME IInv, Types', NEW r \in Requests, NEW g, g = req[r].grant, NEW entry,
         entry = Found(Family(g)), entry # None, ~IsReplay(entry.value, req[r]),
         entry.value.status \notin {"revoked", "refreshing"},
         UNCHANGED <<store, answers, minted, inbox, presented, wrongs>>,
         Go(r, [pc |-> "claim", token |-> req[r].token, grant |-> req[r].grant,
                generation |-> req[r].generation, until |-> req[r].until,
                version |-> entry.version,
                family |-> [entry.value EXCEPT !.status = "refreshing", !.since = now]])
  PROVE  IInv' /\ RevokedStays
<1>1. /\ In(Family(g)) /\ entry.version = Ver(g) /\ entry.value = Fam(g)
  BY FoundIs DEF In, Ver, Fam
<1>2. Types /\ Unspent
  BY DEF IInv
<1>3. Ver(g) \in Nat \ {0} /\ Fam(g) \in Families(minted)
  BY <1>1, <1>2 DEF Types, StoreTypes, In, Ver, Fam
<1>4. Fam(g).status = "active"
  BY <1>1, <1>3 DEF Families
<1>5. Fam(g).upstream # 0 /\ Fam(g).digest = req[r].token
  BY <1>1, <1>2, <1>4 DEF Unspent, IsReplay
<1>6. PICK f : f = [entry.value EXCEPT !.status = "refreshing", !.since = now]
  OBVIOUS
<1>7. /\ f.status = "refreshing" /\ f.digest = Fam(g).digest /\ f.upstream = Fam(g).upstream
      /\ f.receipt = Fam(g).receipt
  BY <1>1, <1>3, <1>6 DEF Families
<1>8. PICK q : q = [pc |-> "claim", token |-> req[r].token, grant |-> g,
                    generation |-> req[r].generation, until |-> req[r].until,
                    version |-> entry.version, family |-> f]
  OBVIOUS
<1>9. Go(r, q)
  BY <1>6, <1>8
<1>10. q.pc = "claim" /\ q.grant = g /\ q.version = Ver(g) /\ q.family = f /\ q.token = req[r].token
  BY <1>1, <1>8
<1>11. req'[r] = q
  BY <1>2, <1>9, GoIs
<1>12. In(Family(g))' /\ Ver(g)' = Ver(g) /\ Fam(g)' = Fam(g)
  BY <1>1 DEF In, Ver, Fam
<1>13. req'[r].version \in 1..Ver(g)'
  BY <1>3, <1>10, <1>11, <1>12
<1>14. Reads(req[r])'
  BY <1>4, <1>5, <1>7, <1>10, <1>11, <1>12, <1>13 DEF Reads, Versioned, Carries, Renewed
<1>15. Follows(req[r], q)
  BY <1>10 DEF Follows, Carries
<1> QED BY <1>9, <1>10, <1>14, <1>15, FamilyStep

\* A look that finds a receipt answers what was answered before.
LEMMA LookAnswers ==
  ASSUME IInv, Types', NEW r \in Requests, NEW g, g = req[r].grant, req[r].pc = "look",
         NEW t, t = req[r].token, In(Family(g)), NEW p, p = Fam(g).receipt.pair,
         Fam(g).receipt.digest = t, Answer(r, t, p),
         UNCHANGED <<store, minted, presented, wrongs>>
  PROVE  IInv' /\ RevokedStays
<1>1. /\ Types /\ ReadsFit /\ Alone /\ Owned /\ Unspent /\ Answered /\ Taken /\ Unanswered
      /\ CodesOwn /\ LateIsLate
  BY DEF IInv
<1>2. Go(r, Idle) /\ answers' = answers \union {<<t, p>>} /\ (State \in inbox => State \in inbox')
  BY DEF Answer, Done
<1>3. req'[r].pc = "idle" /\ \A s \in Requests : s # r => req'[s] = req[s]
  BY <1>1, <1>2, GoIs DEF Idle
<1>4. ~Versioned(req[r])'
  BY <1>3 DEF Versioned
<1>5. \A s \in Requests : req'[s] = req[s] \/ (Reads(req[s])' /\ Follows(req[s], req'[s]))
  BY <1>3, <1>4, NoReads
<1>6. SameFamilies /\ AccessStays /\ CodesStay /\ RevokedStays
  BY NothingElsewhere
<1>7. \A s \in Requests : Follows(req[s], req'[s])
  BY <1>5 DEF Follows
<1>8. /\ \A h, u : UpstreamOf(h, u)' => UpstreamOf(h, u)
      /\ \A h, d : DigestOf(h, d)' => DigestOf(h, d)
      /\ Alone' /\ ReadsFit'
  BY <1>1, <1>5, <1>6, <1>7, OwnersKept, ReadsKept
<1>9. \A h : In(Family(h))' => In(Family(h)) /\ Fam(h)' = Fam(h)
  BY DEF In, Fam
<1>10. Owned'
  BY <1>1, <1>8, <1>9 DEF Owned
<1>11. \A s \in Requests : Renewed(req[s])' => req'[s] = req[s]
  BY <1>3 DEF Renewed
<1>12. Unspent'
  BY <1>1, <1>9, <1>11 DEF Unspent
<1>13. t \in Pairs(minted) /\ t # NoToken
  <2>1. req[r] \in AtLook(minted)
    BY <1>1, RequestKnows DEF Types
  <2>2. t \in Pairs(minted)
    BY <2>1 DEF AtLook
  <2> QED BY <2>2, TokensDiffer
<1>14. DigestOf(g, t)
  BY DEF DigestOf
<1>15. \A a \in answers' : a \in answers \/ a = <<t, p>>
  BY <1>2
<1>16. Answered'
  <2>1. ASSUME NEW a \in answers', NEW h, In(Family(h))'
        PROVE  /\ a[1] # Fam(h)'.digest
               /\ a[1] = Fam(h)'.receipt.digest => a[2] = Fam(h)'.receipt.pair
    <3>1. In(Family(h)) /\ Fam(h)' = Fam(h)
      BY <1>9, <2>1
    <3>2. CASE a \in answers
      BY <1>1, <3>1, <3>2 DEF Answered
    <3>3. CASE a = <<t, p>>
      <4>1. t \in {Fam(h).digest, Fam(h).receipt.digest} => h = g
        BY <1>1, <1>13, <1>14, <3>1 DEF Owned, DigestOf
      <4>2. Fam(g).digest # t
        BY <1>1 DEF Owned
      <4> QED BY <3>1, <3>3, <4>1, <4>2
    <3> QED BY <1>15, <3>2, <3>3
  <2>2. ASSUME NEW a \in answers', NEW s \in Requests, Renewed(req[s])'
        PROVE  a[1] # req'[s].family.digest
    <3>1. req'[s] = req[s] /\ Renewed(req[s])
      BY <1>11, <2>2
    <3>2. CASE a \in answers
      BY <1>1, <3>1, <3>2 DEF Answered
    <3>3. CASE a = <<t, p>>
      <4> SUFFICES ASSUME req[s].family.digest = t PROVE FALSE
        BY <3>1, <3>3
      <4>1. req[s].grant = g
        BY <1>1, <1>13, <1>14, <3>1 DEF Owned, DigestOf
      <4> QED BY <1>1, <3>1, <4>1 DEF ReadsFit, Reads
    <3> QED BY <1>15, <3>2, <3>3
  <2>3. AnswersAgree'
    <3>1. \A a \in answers : a[1] = t => a[2] = p
      BY <1>1 DEF Answered
    <3> QED BY <1>1, <1>15, <3>1 DEF Answered, AnswersAgree
  <2> QED BY <2>1, <2>2, <2>3 DEF Answered
<1>17. Taken' /\ Unanswered' /\ CodesOwn'
  <2>1. In(Transaction)' => In(Transaction)
    BY DEF In
  <2>2. \A s \in Requests : req'[s].pc \in {"exchange", "create"} => req'[s] = req[s]
    BY <1>3
  <2>3. \A a \in answers' : a \in answers \/ a[1] \in Pairs(minted)
    BY <1>13, <1>15
  <2> QED BY <1>1, <1>2, <1>6, <1>8, <2>1, <2>2, <2>3, LoginKept
<1>18. LateIsLate'
  BY <1>1, <1>3, <1>6, LateKept
<1>19. wrongs' \intersect {"spent", "after"} = {}
  BY DEF IInv
<1> QED BY <1>6, <1>8, <1>10, <1>12, <1>16, <1>17, <1>18, <1>19 DEF IInv

LEMMA LookKeeps ==
  ASSUME IInv, Types', NEW r \in Requests, Look(r)
  PROVE  IInv' /\ RevokedStays
<1>1. PICK g, entry, t : g = req[r].grant /\ entry = Found(Family(g)) /\ t = req[r].token
  OBVIOUS
<1> DEFINE claim == [pc |-> "claim", token |-> req[r].token, grant |-> req[r].grant,
                     generation |-> req[r].generation, until |-> req[r].until,
                     version |-> entry.version,
                     family |-> [entry.value EXCEPT !.status = "refreshing", !.since = now]]
<1>2. /\ At(r, "look") /\ UNCHANGED <<now, store, minted, presented, wrongs>>
      /\ \/ Done(r) /\ UNCHANGED <<answers, inbox>>
         \/ /\ entry # None /\ HasReceipt(entry.value, t)
            /\ Answer(r, t, entry.value.receipt.pair)
         \/ UNCHANGED <<answers, inbox>> /\ (Go(r, To(r, "revoke")) \/ Go(r, To(r, "waiting")))
         \/ /\ UNCHANGED <<answers, inbox>>
            /\ entry # None /\ ~IsReplay(entry.value, req[r])
            /\ entry.value.status # "revoked" /\ entry.value.status # "refreshing"
            /\ Go(r, claim)
  BY <1>1, LookIs
<1>3. wrongs' \intersect {"spent", "after"} = {} /\ Types /\ req[r].pc = "look"
  BY <1>2 DEF IInv, At
<1> HIDE DEF claim
<1>4. CASE Done(r) /\ UNCHANGED <<answers, inbox>>
  <2>1. Go(r, Idle) /\ Idle.pc = "idle"
    BY <1>4 DEF Done, Idle
  <2> QED BY <1>2, <1>3, <1>4, <2>1, RestStep
<1>5. CASE UNCHANGED <<answers, inbox>> /\ (Go(r, To(r, "revoke")) \/ Go(r, To(r, "waiting")))
  <2>1. req[r] \in AtLook(minted)
    BY <1>3, RequestKnows DEF Types
  <2>2. To(r, "revoke").pc = "revoke" /\ To(r, "waiting").pc = "waiting"
    BY <2>1 DEF To, AtLook
  <2> QED BY <1>2, <1>3, <1>5, <2>2, RestStep
<1>6. CASE entry # None /\ HasReceipt(entry.value, t) /\ Answer(r, t, entry.value.receipt.pair)
  <2>1. In(Family(g)) /\ entry.value = Fam(g)
    BY <1>1, <1>6, FoundIs DEF In, Fam
  <2>2. Fam(g).receipt.digest = t
    BY <1>6, <2>1 DEF HasReceipt
  <2>3. PICK p : p = Fam(g).receipt.pair
    OBVIOUS
  <2> QED BY <1>1, <1>2, <1>3, <1>6, <2>1, <2>2, <2>3, LookAnswers
<1>7. CASE /\ UNCHANGED <<answers, inbox>>
           /\ entry # None /\ ~IsReplay(entry.value, req[r])
           /\ entry.value.status # "revoked" /\ entry.value.status # "refreshing"
           /\ Go(r, claim)
  BY <1>1, <1>2, <1>7, LookClaims DEF claim
<1> QED BY <1>2, <1>4, <1>5, <1>6, <1>7

\* The upstream's answer makes a new pair of the grant.
LEMMA UpstreamAnswers ==
  ASSUME IInv, Types', NEW r \in Requests, NEW g, g = req[r].grant, req[r].pc = "upstream",
         NEW n, n = minted + 1, NEW u0, u0 \in {n, req[r].family.upstream},
         NEW q, Go(r, q), q.pc = "reread", q.grant = g, q.token = req[r].token,
         q.version = req[r].version,
         q.family.upstream = u0, q.family.digest = <<"pair", n>>, q.family.status = "active",
         q.family.receipt.digest = req[r].token,
         u0 \notin presented', presented' \subseteq presented,
         SameFamilies, AccessStays, CodesStay, In(Transaction)' => In(Transaction),
         minted' = n, UNCHANGED <<answers, inbox, wrongs>>
  PROVE  IInv' /\ RevokedStays
<1> DEFINE pair == <<"pair", n>>
<1>1. /\ Types /\ ReadsFit /\ Alone /\ Owned /\ Unspent /\ Answered /\ Taken /\ Unanswered
      /\ CodesOwn /\ LateIsLate /\ minted \in Nat
  BY DEF IInv, Types
<1>2. req'[r] = q /\ \A s \in Requests : s # r => req'[s] = req[s]
  BY <1>1, GoIs
<1>3. pair \notin Pairs(minted) /\ pair # NoToken /\ n \notin 0..minted /\ pair \notin Tokens(minted)
      /\ n # 0
  <2>1. n \notin 0..minted /\ n # 0
    BY <1>1
  <2> QED BY <1>1, <2>1, NewTokens DEF NoToken
<1> HIDE DEF pair
<1>4. q.family.digest = pair
  BY DEF pair
<1>5. /\ Versioned(req[r]) /\ Carries(req[r]) /\ Versioned(q) /\ Carries(q) /\ Renewed(q)
  BY DEF Versioned, Carries, Renewed
<1>6. /\ In(Family(g)) /\ req[r].version \in 1..Ver(g)
      /\ Fam(g).digest = req[r].token /\ Fam(g).status \in {"refreshing", "revoked"}
      /\ req[r].family.upstream # 0
  BY <1>1, <1>5 DEF ReadsFit, Reads
<1>7. In(Family(g))' /\ Ver(g)' = Ver(g) /\ Fam(g)' = Fam(g)
  BY <1>6 DEF SameFamilies, In, Ver, Fam
<1>8. pair \notin {Fam(g).digest, Fam(g).receipt.digest} /\ u0 # 0
  BY <1>1, <1>3, <1>6, KnownTokens
<1>9. Reads(req[r])'
  BY <1>2, <1>4, <1>6, <1>7, <1>8 DEF Reads, Versioned, Carries, Renewed
<1>10. \A s \in Requests : req'[s] = req[s] \/ Reads(req[s])'
  BY <1>2, <1>9
<1>11. ReadsFit' /\ RevokedStays
  BY <1>1, <1>10, ReadsKept, SameRevoked
<1>12. \A s \in Requests : Carries(req[s])' => Carries(req[s]) /\ req'[s].grant = req[s].grant
  BY <1>2, <1>5
<1>13. Alone'
  BY <1>1, <1>12 DEF Alone
<1>14. \A s \in Requests : Carries(req[s])' => (s = r /\ req'[s] = q) \/ req'[s] = req[s]
  BY <1>2
<1>15. \A h : In(Family(h))' => In(Family(h)) /\ Fam(h)' = Fam(h)
  BY DEF SameFamilies, Fam
<1>16. UpstreamOf(g, req[r].family.upstream)
  BY <1>5 DEF UpstreamOf
<1>17. \A h, u : UpstreamOf(h, u)' => UpstreamOf(h, u) \/ (h = g /\ u = n)
  <2> SUFFICES ASSUME NEW h, NEW u, UpstreamOf(h, u)', ~(h = g /\ u = n) PROVE UpstreamOf(h, u)
    OBVIOUS
  <2>1. CASE In(Family(h))' /\ Fam(h)'.upstream = u
    BY <1>15, <2>1 DEF UpstreamOf
  <2>2. ASSUME NEW s \in Requests, Carries(req[s])', req'[s].grant = h, req'[s].family.upstream = u
        PROVE  UpstreamOf(h, u)
    <3>1. CASE s = r
      BY <1>2, <1>16, <2>2, <3>1
    <3>2. CASE s # r
      BY <1>2, <2>2, <3>2 DEF UpstreamOf
    <3> QED BY <3>1, <3>2
  <2> QED BY <2>1, <2>2 DEF UpstreamOf
<1>18. \A h, t : DigestOf(h, t)' => DigestOf(h, t) \/ (h = g /\ t = pair)
  <2> SUFFICES ASSUME NEW h, NEW t, DigestOf(h, t)', ~(h = g /\ t = pair) PROVE DigestOf(h, t)
    OBVIOUS
  <2>1. CASE In(Family(h))' /\ t \in {Fam(h)'.digest, Fam(h)'.receipt.digest}
    BY <1>15, <2>1 DEF DigestOf
  <2>2. ASSUME NEW s \in Requests, Renewed(req[s])', req'[s].grant = h, req'[s].family.digest = t
        PROVE  DigestOf(h, t)
    <3>1. CASE s = r
      BY <1>2, <1>4, <2>2, <3>1
    <3>2. CASE s # r
      BY <1>2, <2>2, <3>2 DEF DigestOf
    <3> QED BY <3>1, <3>2
  <2> QED BY <2>1, <2>2 DEF DigestOf
<1>19. Owned'
  <2>1. \A h : ~DigestOf(h, pair) /\ ~UpstreamOf(h, n)
    BY <1>1, <1>3, KnownTokens
  <2>2. \A h : In(Family(h))' => Fam(h)'.digest # Fam(h)'.receipt.digest
    BY <1>1, <1>15 DEF Owned
  <2> QED BY <1>1, <1>17, <1>18, <2>1, <2>2, OwnedGrows
<1>20. \A s \in Requests : Renewed(req[s])' => (s = r /\ req'[s] = q) \/ (req'[s] = req[s] /\ Renewed(req[s]))
  BY <1>2
<1>21. Unspent'
  <2>1. ASSUME NEW h, In(Family(h))', Fam(h)'.status = "active"
        PROVE  Fam(h)'.upstream # 0 /\ Fam(h)'.upstream \notin presented'
    BY <1>1, <1>15, <2>1 DEF Unspent
  <2>2. \A s \in Requests : Renewed(req[s])' => req'[s].family.upstream \notin presented'
    BY <1>1, <1>20 DEF Unspent
  <2> QED BY <2>1, <2>2 DEF Unspent
<1>22. Answered'
  <2>1. \A a \in answers' : a \in answers /\ a[1] # pair
    BY <1>1, <1>3 DEF Types
  <2>2. \A a \in answers' : \A h : In(Family(h))' =>
          /\ a[1] # Fam(h)'.digest
          /\ a[1] = Fam(h)'.receipt.digest => a[2] = Fam(h)'.receipt.pair
    BY <1>1, <1>15, <2>1 DEF Answered
  <2>3. \A a \in answers', s \in Requests : Renewed(req[s])' => a[1] # req'[s].family.digest
    BY <1>1, <1>4, <1>20, <2>1 DEF Answered
  <2>4. AnswersAgree'
    BY <1>1 DEF Answered, AnswersAgree
  <2> QED BY <2>2, <2>3, <2>4 DEF Answered
<1>23. Taken' /\ Unanswered' /\ CodesOwn'
  <2>1. \A s \in Requests : req'[s].pc \in {"exchange", "create"} => req'[s] = req[s]
    BY <1>2
  <2>2. \A h, u : u \in 1..minted /\ UpstreamOf(h, u)' => UpstreamOf(h, u)
    <3>1. n \notin 1..minted
      BY <1>1
    <3> QED BY <1>17, <3>1
  <2> QED BY <1>1, <2>1, <2>2, LoginKept
<1>24. LateIsLate'
  <2>1. \A s \in Requests : req'[s].pc \in {"bearer", "identity"} => req'[s] = req[s]
    BY <1>2
  <2> QED BY <1>1, <1>11, <2>1, LateKept
<1>25. wrongs' \intersect {"spent", "after"} = {}
  BY DEF IInv
<1> QED BY <1>11, <1>13, <1>19, <1>21, <1>22, <1>23, <1>24, <1>25 DEF IInv

LEMMA UpstreamKeeps ==
  ASSUME IInv, Types', NEW r \in Requests, Upstream(r)
  PROVE  IInv' /\ RevokedStays
<1>1. PICK g, n, claimed, access :
        /\ g = req[r].grant /\ n = minted + 1 /\ claimed = req[r].family
        /\ access = Min(now + AssertionTtl, claimed.expires)
  OBVIOUS
<1> DEFINE pair == <<"pair", n>>
           family(u) == Rotated(claimed, req[r].token, pair, access, u)
<1>2. /\ At(r, "upstream") /\ UNCHANGED <<now, inbox, answers, wrongs>>
      /\ \/ Go(r, ToRevoke(r)) /\ UNCHANGED <<store, minted, presented>>
         \/ /\ minted' = n
            /\ store' = WithPair(pair, g, claimed.generation + 1, access, claimed.expires)
            /\ \E rotates \in BOOLEAN :
                 /\ presented' = IF rotates THEN presented ELSE presented \ {claimed.upstream}
                 /\ Go(r, [req[r] EXCEPT !.pc = "reread",
                             !.family = family(IF rotates THEN n ELSE claimed.upstream)])
  BY <1>1, UpstreamIs
<1>3. Types /\ minted \in Nat
  BY DEF IInv, Types
<1>4. CASE Go(r, ToRevoke(r)) /\ UNCHANGED <<store, minted, presented>>
  BY <1>2, <1>4, ToRevokeKeeps
<1>5. CASE /\ minted' = n
           /\ store' = WithPair(pair, g, claimed.generation + 1, access, claimed.expires)
           /\ \E rotates \in BOOLEAN :
                /\ presented' = IF rotates THEN presented ELSE presented \ {claimed.upstream}
                /\ Go(r, [req[r] EXCEPT !.pc = "reread",
                            !.family = family(IF rotates THEN n ELSE claimed.upstream)])
  <2>1. PICK rotates \in BOOLEAN :
          /\ presented' = IF rotates THEN presented ELSE presented \ {claimed.upstream}
          /\ Go(r, [req[r] EXCEPT !.pc = "reread",
                      !.family = family(IF rotates THEN n ELSE claimed.upstream)])
    BY <1>5
  <2>2. PICK u0, f, q : /\ u0 = IF rotates THEN n ELSE claimed.upstream
                        /\ f = family(u0) /\ q = [req[r] EXCEPT !.pc = "reread", !.family = f]
    OBVIOUS
  <2>3. /\ req[r] \in AtFamily(minted) /\ claimed \in Families(minted)
    BY <1>1, <1>2, <1>3, FamilyKnows DEF At, Versioned
  <2>4. /\ f.upstream = u0 /\ f.digest = pair /\ f.status = "active"
        /\ f.receipt.digest = req[r].token
    BY <2>2, <2>3 DEF Rotated, Families
  <2>5. /\ Go(r, q) /\ q.pc = "reread" /\ q.grant = g /\ q.token = req[r].token
        /\ q.version = req[r].version /\ q.family = f
    BY <1>1, <2>1, <2>2, <2>3 DEF AtFamily
  <2>6. presented' \subseteq presented /\ u0 \notin presented' /\ u0 \in {n, req[r].family.upstream}
    <3>1. n \notin presented
      <4>1. n \notin 1..minted
        BY <1>1, <1>3
      <4> QED BY <1>3, <4>1 DEF Types
    <3> QED BY <1>1, <2>1, <2>2, <3>1
  <2>7. PICK s1 : s1 = Put(store, Access(pair), [grant |-> g, generation |-> claimed.generation + 1,
                                                 expires |-> access], access)
    OBVIOUS
  <2>8. store' = Put(s1, Refresh(pair), [grant |-> g, generation |-> claimed.generation + 1],
                     claimed.expires)
    BY <1>5, <2>7 DEF WithPair
  <2>9. ~In(Access(pair))
    <3>1. pair \notin Pairs(minted) \union Plains(minted)
      BY <1>1, <1>3, NewTokens
    <3> QED BY <1>3, <3>1 DEF Types, StoreTypes, In
  <2> HIDE DEF pair, family
  <2>10. /\ DOMAIN s1 = DOMAIN store \union {Access(pair)}
         /\ \A k \in DOMAIN store : k # Access(pair) => s1[k] = store[k]
    BY <2>7 DEF Put
  <2>11. /\ DOMAIN store' = DOMAIN s1 \union {Refresh(pair)}
         /\ \A k \in DOMAIN s1 : k # Refresh(pair) => store'[k] = s1[k]
    BY <2>8 DEF Put
  <2>12. /\ DOMAIN store' = DOMAIN store \union {Access(pair), Refresh(pair)}
         /\ \A k \in DOMAIN store : k \notin {Access(pair), Refresh(pair)} => store'[k] = store[k]
    BY <2>10, <2>11
  <2>13. SameFamilies
    BY <2>12, KeysDiffer DEF SameFamilies, In
  <2>14. AccessStays
    BY <2>9, <2>12, KeysDiffer DEF AccessStays, In
  <2>15. CodesStay /\ (In(Transaction)' => In(Transaction))
    BY <2>12, KeysDiffer DEF CodesStay, In
  <2>16. q.family.digest = <<"pair", n>>
    BY <2>4, <2>5 DEF pair
  <2> QED BY <1>1, <1>2, <1>5, <2>4, <2>5, <2>6, <2>13, <2>14, <2>15, <2>16, UpstreamAnswers DEF At
<1> HIDE DEF pair, family
<1> QED BY <1>2, <1>4, <1>5

------------------------------------------------------------------------------
(* Writing a family. *)

\* A family is written, with the next version, and nothing else is.
Writes(g, f) ==
  /\ In(Family(g)) /\ In(Family(g))' /\ Fam(g)' = f /\ Ver(g)' = Ver(g) + 1
  /\ \A h : h # g => /\ In(Family(h))' <=> In(Family(h))
                     /\ In(Family(h)) => store'[Family(h)] = store[Family(h)]
  /\ AccessStays /\ CodesStay /\ (In(Transaction)' => In(Transaction))

LEMMA PutWrites ==
  ASSUME NEW g, NEW f, NEW until, In(Family(g)), store' = Put(store, Family(g), f, until)
  PROVE  Writes(g, f)
<1>1. /\ DOMAIN store' = DOMAIN store \union {Family(g)}
      /\ \A k \in DOMAIN store : k # Family(g) => store'[k] = store[k]
      /\ store'[Family(g)].value = f
      /\ store'[Family(g)].version = store[Family(g)].version + 1
  BY DEF Put, In, LastVersion
<1>2. In(Family(g))' /\ Fam(g)' = f /\ Ver(g)' = Ver(g) + 1
  BY <1>1 DEF In, Fam, Ver
<1>3. \A h : h # g => /\ In(Family(h))' <=> In(Family(h))
                      /\ In(Family(h)) => store'[Family(h)] = store[Family(h)]
  BY <1>1, KeysDiffer DEF In
<1>4. AccessStays /\ CodesStay /\ (In(Transaction)' => In(Transaction))
  BY <1>1, KeysDiffer DEF AccessStays, CodesStay, In
<1> QED BY <1>2, <1>3, <1>4 DEF Writes

\* What a write of a family keeps, but for what was spent and answered.
LEMMA WriteKeeps ==
  ASSUME IInv, Types', NEW r \in Requests, NEW g, NEW f, NEW q, Go(r, q),
         Writes(g, f), minted' = minted,
         RevokedIn(store, g) => f.status = "revoked",
         q.pc \notin {"exchange", "create", "bearer", "identity"}, Reads(req[r])', ~Renewed(q),
         Carries(q) => q.grant = g /\ UpstreamOf(g, q.family.upstream),
         \A s \in Requests : s # r /\ Carries(req[s]) /\ req[s].grant = g =>
           /\ ~Carries(q) /\ f.digest = Fam(g).digest /\ f.status \in {"refreshing", "revoked"}
           /\ Renewed(req[s]) => req[s].family.digest \notin {f.digest, f.receipt.digest},
         f.upstream = 0 \/ UpstreamOf(g, f.upstream), DigestOf(g, f.digest),
         f.receipt.digest = NoToken \/ DigestOf(g, f.receipt.digest),
         f.digest # f.receipt.digest,
         State \in inbox => State \in inbox',
         \A a \in answers' : a \in answers \/ a[1] \in Pairs(minted),
         \A u \in presented' : u \in presented \/ UpstreamOf(g, u)
  PROVE  /\ ReadsFit' /\ Alone' /\ Owned' /\ Taken' /\ Unanswered' /\ CodesOwn' /\ LateIsLate'
         /\ RevokedStays
         /\ \A h : In(Family(h))' =>
              In(Family(h)) /\ ((h # g /\ Fam(h)' = Fam(h)) \/ (h = g /\ Fam(h)' = f))
         /\ \A s \in Requests : Renewed(req[s])' => s # r /\ req'[s] = req[s] /\ Renewed(req[s])
<1>1. /\ Types /\ ReadsFit /\ Alone /\ Owned /\ Taken /\ Unanswered
      /\ CodesOwn /\ LateIsLate /\ minted \in Nat
  BY DEF IInv, Types
<1>2. req'[r] = q /\ \A s \in Requests : s # r => req'[s] = req[s]
  BY <1>1, GoIs
<1>3. /\ In(Family(g)) /\ In(Family(g))' /\ Fam(g)' = f /\ Ver(g)' = Ver(g) + 1
      /\ \A h : h # g => /\ In(Family(h))' <=> In(Family(h))
                         /\ In(Family(h)) => Fam(h)' = Fam(h) /\ Ver(h)' = Ver(h)
      /\ AccessStays /\ CodesStay /\ (In(Transaction)' => In(Transaction))
  BY DEF Writes, Fam, Ver
<1>4. Ver(g) \in Nat
  BY <1>1, <1>3 DEF Types, StoreTypes, In, Ver
<1>5. ReadsFit'
  <2> SUFFICES ASSUME NEW s \in Requests, s # r PROVE Reads(req[s])'
    BY DEF ReadsFit
  <2>1. req'[s] = req[s] /\ Reads(req[s])
    BY <1>1, <1>2 DEF ReadsFit
  <2>2. CASE ~Versioned(req[s])
    <3>1. ~Versioned(req[s])'
      BY <2>1, <2>2
    <3> QED BY <3>1, NoReads
  <2>3. CASE Versioned(req[s]) /\ req[s].grant # g
    <3>1. PICK h : h = req[s].grant
      OBVIOUS
    <3>2. In(Family(h)) /\ h # g
      BY <2>1, <2>3, <3>1 DEF Reads
    <3>3. In(Family(h))' /\ Fam(h)' = Fam(h) /\ Ver(h)' = Ver(h)
      BY <1>3, <3>2
    <3> QED BY <2>1, <3>1, <3>3 DEF Reads, Versioned, Carries, Renewed
  <2>4. CASE Versioned(req[s]) /\ req[s].grant = g
    <3>1. req[s].version \in 1..Ver(g)
      BY <2>1, <2>4 DEF Reads
    <3>2. req[s].version \in 1..Ver(g)' /\ req[s].version # Ver(g)'
      BY <1>3, <1>4, <3>1
    <3>3. Carries(req[s]) =>
            /\ f.digest = req[s].token /\ f.status \in {"refreshing", "revoked"}
            /\ req[s].family.upstream # 0
      BY <2>1, <2>4 DEF Reads
    <3>4. Renewed(req[s]) =>
            /\ req[s].family.status = "active" /\ req[s].family.receipt.digest = req[s].token
            /\ req[s].family.digest \notin {f.digest, f.receipt.digest}
      BY <2>1, <2>4 DEF Reads, Renewed, Carries
    <3>5. req[s].pc = "claim" => /\ req[s].family.status = "refreshing"
                                 /\ req[s].family.digest = req[s].token
                                 /\ req[s].family.upstream # 0
      BY <2>1 DEF Reads
    <3>6. /\ Versioned(req[s])' => In(Family(g))' /\ req'[s].version \in 1..Ver(g)'
          /\ Carries(req[s])' => /\ Fam(g)'.digest = req'[s].token
                                 /\ Fam(g)'.status \in {"refreshing", "revoked"}
                                 /\ req'[s].family.upstream # 0
          /\ Renewed(req[s])' =>
               /\ req'[s].family.status = "active"
               /\ req'[s].family.receipt.digest = req'[s].token
               /\ req'[s].family.digest \notin {Fam(g)'.digest, Fam(g)'.receipt.digest}
      BY <1>3, <2>1, <3>2, <3>3, <3>4
    <3>7. req'[s].grant = g /\ req'[s].version # Ver(g)'
      BY <2>1, <2>4, <3>2
    <3> QED BY <2>1, <3>5, <3>6, <3>7 DEF Reads
  <2> QED BY <2>2, <2>3, <2>4
<1>6. Alone'
  <2> SUFFICES ASSUME NEW s \in Requests, NEW t \in Requests, Carries(req[s])', Carries(req[t])',
                      req'[s].grant = req'[t].grant, s # t
               PROVE  FALSE
    BY DEF Alone
  <2>1. CASE s # r /\ t # r
    <3>1. req'[s] = req[s] /\ req'[t] = req[t]
      BY <1>2, <2>1
    <3> QED BY <1>1, <3>1 DEF Alone
  <2>2. CASE s = r
    <3>1. req'[s] = q /\ req'[t] = req[t] /\ t # r
      BY <1>2, <2>2
    <3> QED BY <3>1
  <2>3. CASE t = r
    <3>1. req'[t] = q /\ req'[s] = req[s] /\ s # r
      BY <1>2, <2>3
    <3> QED BY <3>1
  <2> QED BY <2>1, <2>2, <2>3
<1>7. \A h : In(Family(h))' =>
        In(Family(h)) /\ ((h # g /\ Fam(h)' = Fam(h)) \/ (h = g /\ Fam(h)' = f))
  BY <1>3
<1>8. \A s \in Requests : Renewed(req[s])' => s # r /\ req'[s] = req[s] /\ Renewed(req[s])
  BY <1>2
<1>9. \A h, u : UpstreamOf(h, u)' => UpstreamOf(h, u) \/ u = 0
  <2> SUFFICES ASSUME NEW h, NEW u, UpstreamOf(h, u)', u # 0 PROVE UpstreamOf(h, u)
    OBVIOUS
  <2>1. CASE In(Family(h))' /\ Fam(h)'.upstream = u
    BY <1>7, <2>1 DEF UpstreamOf
  <2>2. ASSUME NEW s \in Requests, Carries(req[s])', req'[s].grant = h, req'[s].family.upstream = u
        PROVE  UpstreamOf(h, u)
    <3>1. CASE s = r
      BY <1>2, <2>2, <3>1
    <3>2. CASE s # r
      BY <1>2, <2>2, <3>2 DEF UpstreamOf
    <3> QED BY <3>1, <3>2
  <2> QED BY <2>1, <2>2 DEF UpstreamOf
<1>10. \A h, t : DigestOf(h, t)' => DigestOf(h, t) \/ t = NoToken
  <2> SUFFICES ASSUME NEW h, NEW t, DigestOf(h, t)', t # NoToken PROVE DigestOf(h, t)
    OBVIOUS
  <2>1. CASE In(Family(h))' /\ t \in {Fam(h)'.digest, Fam(h)'.receipt.digest}
    <3>1. CASE h # g
      BY <1>7, <2>1, <3>1 DEF DigestOf
    <3>2. CASE h = g
      BY <1>7, <2>1, <3>2
    <3> QED BY <3>1, <3>2
  <2>2. ASSUME NEW s \in Requests, Renewed(req[s])', req'[s].grant = h, req'[s].family.digest = t
        PROVE  DigestOf(h, t)
    BY <1>8, <2>2 DEF DigestOf
  <2> QED BY <2>1, <2>2 DEF DigestOf
<1>11. Owned'
  <2>1. \A h, i, u : UpstreamOf(h, u)' /\ UpstreamOf(i, u)' /\ u # 0 => h = i
    BY <1>1, <1>9 DEF Owned
  <2>2. \A h, i, t : DigestOf(h, t)' /\ DigestOf(i, t)' /\ t # NoToken => h = i
    BY <1>1, <1>10 DEF Owned
  <2>3. \A h : In(Family(h))' => Fam(h)'.digest # Fam(h)'.receipt.digest
    BY <1>1, <1>7 DEF Owned
  <2> QED BY <2>1, <2>2, <2>3 DEF Owned
<1>12. Taken' /\ Unanswered' /\ CodesOwn'
  <2>1. \A s \in Requests : req'[s].pc \in {"exchange", "create"} => req'[s] = req[s]
    BY <1>2
  <2>2. \A h, u : u \in 1..minted /\ UpstreamOf(h, u)' => UpstreamOf(h, u)
    BY <1>1, <1>9
  <2>3. \A u \in 1..minted : u \in presented' => u \in presented \/ \E h : UpstreamOf(h, u)
    OBVIOUS
  <2> QED BY <1>1, <1>3, <2>1, <2>2, <2>3, LoginKept
<1>13. RevokedStays
  <2> SUFFICES ASSUME NEW h, RevokedIn(store, h) PROVE RevokedIn(store', h)
    BY DEF RevokedStays
  <2>1. CASE h = g
    BY <1>3, <2>1 DEF RevokedIn, In, Fam
  <2>2. CASE h # g
    BY <1>3, <2>2 DEF RevokedIn, In, Fam
  <2> QED BY <2>1, <2>2
<1>14. LateIsLate'
  <2>1. \A s \in Requests : req'[s].pc \in {"bearer", "identity"} => req'[s] = req[s]
    BY <1>2
  <2> QED BY <1>1, <1>3, <1>13, <2>1, LateKept
<1> QED BY <1>5, <1>6, <1>7, <1>8, <1>11, <1>12, <1>13, <1>14

\* A swap that is done replaces the version that was read.
LEMMA SwapReplaces ==
  ASSUME IInv, NEW r \in Requests, Versioned(req[r]), NEW g, g = req[r].grant,
         Unchanged(store, Family(g), req[r].version, now)
  PROVE  In(Family(g)) /\ req[r].version = Ver(g) /\ Ver(g) \in Nat \ {0}
<1>1. In(Family(g)) /\ req[r].version \in 1..Ver(g)
  BY DEF IInv, ReadsFit, Reads
<1>2. Ver(g) \in Nat \ {0}
  BY <1>1 DEF IInv, Types, StoreTypes, In, Ver
<1>3. req[r].version # 0
  BY <1>1, <1>2
<1> QED BY <1>1, <1>2, <1>3, SwapIs DEF Ver

\* A claim that is stored was made on an active family: nobody else carries it, and its
\* upstream token was not sent.
LEMMA ClaimStored ==
  ASSUME IInv, Types', NEW r \in Requests, NEW g, g = req[r].grant, NEW f, f = req[r].family,
         req[r].pc = "claim", Unchanged(store, Family(g), req[r].version, now),
         store' = Put(store, Family(g), f, f.expires), Go(r, To(r, "upstream")),
         presented' = presented \union {f.upstream},
         wrongs' = IF f.upstream \in presented THEN wrongs \union {"spent"} ELSE wrongs,
         UNCHANGED <<now, inbox, minted, answers>>
  PROVE  IInv' /\ RevokedStays
<1>1. /\ Types /\ ReadsFit /\ Alone /\ Owned /\ Unspent /\ Answered /\ Versioned(req[r])
  BY DEF IInv, Versioned
<1>2. In(Family(g)) /\ req[r].version = Ver(g) /\ Ver(g) \in Nat \ {0}
  BY <1>1, SwapReplaces
<1>3. /\ f.status = "refreshing" /\ f.digest = req[r].token /\ f.upstream # 0
      /\ Fam(g).status = "active" /\ f.digest = Fam(g).digest /\ f.upstream = Fam(g).upstream
      /\ f.receipt = Fam(g).receipt
  BY <1>1, <1>2 DEF ReadsFit, Reads
<1>4. Writes(g, f)
  BY <1>2, PutWrites
<1>5. PICK q : q = To(r, "upstream")
  OBVIOUS
<1>6. q.pc = "upstream" /\ q.grant = g /\ q.token = req[r].token /\ q.version = Ver(g) /\ q.family = f
  <2>1. req[r] \in AtFamily(minted)
    BY <1>1, FamilyKnows
  <2> QED BY <1>2, <1>5, <2>1 DEF To, AtFamily
<1>7. req'[r] = q
  BY <1>1, <1>5, GoIs
<1>8. Reads(req[r])'
  <2>1. In(Family(g))' /\ Fam(g)' = f /\ Ver(g)' = Ver(g) + 1
    BY <1>4 DEF Writes
  <2>2. req'[r].version \in 1..Ver(g)'
    BY <1>2, <1>6, <1>7, <2>1
  <2> QED BY <1>3, <1>6, <1>7, <2>1, <2>2 DEF Reads, Versioned, Carries, Renewed
<1>9. ~RevokedIn(store, g)
  BY <1>3 DEF RevokedIn, Fam
<1>10. \A s \in Requests : ~(Carries(req[s]) /\ req[s].grant = g)
  BY <1>1, <1>3 DEF ReadsFit, Reads
<1>11. /\ UpstreamOf(g, f.upstream) /\ DigestOf(g, f.digest) /\ DigestOf(g, f.receipt.digest)
       /\ f.digest # f.receipt.digest
  BY <1>1, <1>2, <1>3 DEF UpstreamOf, DigestOf, Owned
<1>12. /\ ReadsFit' /\ Alone' /\ Owned' /\ Taken' /\ Unanswered' /\ CodesOwn' /\ LateIsLate'
       /\ RevokedStays
       /\ \A h : In(Family(h))' =>
            In(Family(h)) /\ ((h # g /\ Fam(h)' = Fam(h)) \/ (h = g /\ Fam(h)' = f))
       /\ \A s \in Requests : Renewed(req[s])' => s # r /\ req'[s] = req[s] /\ Renewed(req[s])
  <2>1. \A a \in answers' : a \in answers \/ a[1] \in Pairs(minted)
    OBVIOUS
  <2>2. \A u \in presented' : u \in presented \/ UpstreamOf(g, u)
    BY <1>11
  <2>3. /\ q.pc \notin {"exchange", "create", "bearer", "identity"} /\ ~Renewed(q)
        /\ Carries(q) => q.grant = g /\ UpstreamOf(g, q.family.upstream)
    BY <1>6, <1>11 DEF Renewed
  <2>4. Go(r, q) /\ minted' = minted /\ (State \in inbox => State \in inbox')
    BY <1>5
  <2> QED BY <1>4, <1>8, <1>9, <1>10, <1>11, <2>1, <2>2, <2>3, <2>4, WriteKeeps
<1>13. Unspent'
  <2>1. ASSUME NEW h, In(Family(h))', Fam(h)'.status = "active"
        PROVE  Fam(h)'.upstream # 0 /\ Fam(h)'.upstream \notin presented'
    <3>1. h # g /\ In(Family(h)) /\ Fam(h)' = Fam(h)
      BY <1>3, <1>12, <2>1
    <3>2. Fam(h).upstream # 0 /\ Fam(h).upstream \notin presented
      BY <1>1, <2>1, <3>1 DEF Unspent
    <3>3. UpstreamOf(h, Fam(h).upstream)
      BY <3>1 DEF UpstreamOf
    <3>4. Fam(h).upstream # f.upstream
      BY <1>1, <1>3, <1>11, <3>1, <3>3 DEF Owned
    <3> QED BY <3>1, <3>2, <3>4
  <2>2. ASSUME NEW s \in Requests, Renewed(req[s])'
        PROVE  req'[s].family.upstream \notin presented'
    <3>1. req'[s] = req[s] /\ Renewed(req[s])
      BY <1>12, <2>2
    <3>2. Carries(req[s])
      BY <3>1 DEF Carries, Renewed
    <3>3. UpstreamOf(req[s].grant, req[s].family.upstream)
      BY <3>2 DEF UpstreamOf
    <3>4. req[s].family.upstream # f.upstream
      BY <1>1, <1>3, <1>10, <1>11, <3>2, <3>3 DEF Owned
    <3> QED BY <1>1, <3>1, <3>4 DEF Unspent
  <2> QED BY <2>1, <2>2 DEF Unspent
<1>14. Answered'
  <2>1. \A a \in answers' : \A h : In(Family(h))' =>
          /\ a[1] # Fam(h)'.digest
          /\ a[1] = Fam(h)'.receipt.digest => a[2] = Fam(h)'.receipt.pair
    BY <1>1, <1>3, <1>12 DEF Answered
  <2>2. \A a \in answers', s \in Requests : Renewed(req[s])' => a[1] # req'[s].family.digest
    BY <1>1, <1>12 DEF Answered
  <2>3. AnswersAgree'
    BY <1>1 DEF Answered, AnswersAgree
  <2> QED BY <2>1, <2>2, <2>3 DEF Answered
<1>15. wrongs' \intersect {"spent", "after"} = {}
  <2>1. f.upstream \notin presented
    BY <1>1, <1>2, <1>3 DEF Unspent
  <2> QED BY <2>1 DEF IInv
<1> QED BY <1>12, <1>13, <1>14, <1>15 DEF IInv

LEMMA ClaimKeeps ==
  ASSUME IInv, Types', NEW r \in Requests, Claim(r)
  PROVE  IInv' /\ RevokedStays
<1>1. PICK g, f : g = req[r].grant /\ f = req[r].family
  OBVIOUS
<1>2. CASE Unchanged(store, Family(req[r].grant), req[r].version, now)
  BY <1>1, <1>2, ClaimStored DEF Claim, At, Wrong
<1>3. CASE ~Unchanged(store, Family(req[r].grant), req[r].version, now)
  <2>1. PICK q : /\ q.pc = "look" /\ Go(r, q)
                 /\ UNCHANGED <<store, presented, wrongs, inbox, minted, answers>>
    BY <1>3 DEF Claim
  <2>2. wrongs' \intersect {"spent", "after"} = {}
    BY <2>1 DEF IInv
  <2> QED BY <2>1, <2>2, RestStep
<1> QED BY <1>2, <1>3

\* A commit that is stored answers the token that was current until then.
LEMMA CommitStored ==
  ASSUME IInv, Types', NEW r \in Requests, NEW g, g = req[r].grant, NEW f, f = req[r].family,
         NEW t, t = req[r].token, NEW p, p = f.receipt.pair,
         req[r].pc = "commit", Unchanged(store, Family(g), req[r].version, now),
         store' = Put(store, Family(g), f, f.expires), Answer(r, t, p),
         UNCHANGED <<now, minted, presented, wrongs>>
  PROVE  IInv' /\ RevokedStays
<1>1. /\ Types /\ ReadsFit /\ Alone /\ Owned /\ Unspent /\ Answered
      /\ Versioned(req[r]) /\ Carries(req[r]) /\ Renewed(req[r])
  BY DEF IInv, Versioned, Carries, Renewed
<1>2. In(Family(g)) /\ req[r].version = Ver(g) /\ Ver(g) \in Nat \ {0}
  BY <1>1, SwapReplaces
<1>3. /\ Fam(g).digest = t /\ f.upstream # 0 /\ f.status = "active" /\ f.receipt.digest = t
      /\ f.digest \notin {Fam(g).digest, Fam(g).receipt.digest} /\ Fam(g).status = "refreshing"
  BY <1>1, <1>2 DEF ReadsFit, Reads
<1>4. Writes(g, f)
  BY <1>2, PutWrites
<1>5. Go(r, Idle) /\ answers' = answers \union {<<t, p>>} /\ (State \in inbox => State \in inbox')
      /\ Idle.pc = "idle"
  BY DEF Answer, Done, Idle
<1>6. req'[r].pc = "idle"
  BY <1>1, <1>5, GoIs
<1>7. Reads(req[r])'
  <2>1. ~Versioned(req[r])'
    BY <1>6 DEF Versioned
  <2> QED BY <2>1, NoReads
<1>8. ~RevokedIn(store, g)
  BY <1>3 DEF RevokedIn, Fam
<1>9. \A s \in Requests : s # r => ~(Carries(req[s]) /\ req[s].grant = g)
  BY <1>1 DEF Alone
<1>10. /\ UpstreamOf(g, f.upstream) /\ DigestOf(g, f.digest) /\ DigestOf(g, t)
       /\ f.digest # f.receipt.digest
  BY <1>1, <1>2, <1>3 DEF UpstreamOf, DigestOf
<1>11. t \in Pairs(minted) /\ t # NoToken
  <2>1. t \in Pairs(minted)
    BY <1>1, KnownTokens
  <2> QED BY <2>1, TokensDiffer
<1>12. \A a \in answers' : a \in answers \/ a = <<t, p>>
  BY <1>5
<1>13. /\ ReadsFit' /\ Alone' /\ Owned' /\ Taken' /\ Unanswered' /\ CodesOwn' /\ LateIsLate'
       /\ RevokedStays
       /\ \A h : In(Family(h))' =>
            In(Family(h)) /\ ((h # g /\ Fam(h)' = Fam(h)) \/ (h = g /\ Fam(h)' = f))
       /\ \A s \in Requests : Renewed(req[s])' => s # r /\ req'[s] = req[s] /\ Renewed(req[s])
  <2>1. \A a \in answers' : a \in answers \/ a[1] \in Pairs(minted)
    BY <1>11, <1>12
  <2>2. \A u \in presented' : u \in presented \/ UpstreamOf(g, u)
    OBVIOUS
  <2>3. Idle.pc \notin {"exchange", "create", "bearer", "identity"} /\ ~Renewed(Idle)
        /\ ~Carries(Idle)
    BY <1>5 DEF Renewed, Carries
  <2>4. minted' = minted
    OBVIOUS
  <2>5. DigestOf(g, f.receipt.digest)
    BY <1>3, <1>10
  <2> QED BY <1>4, <1>5, <1>7, <1>8, <1>9, <1>10, <2>1, <2>2, <2>3, <2>4, <2>5, WriteKeeps
<1>14. Unspent'
  <2>1. ASSUME NEW h, In(Family(h))', Fam(h)'.status = "active"
        PROVE  Fam(h)'.upstream # 0 /\ Fam(h)'.upstream \notin presented'
    BY <1>1, <1>3, <1>13, <2>1 DEF Unspent
  <2>2. \A s \in Requests : Renewed(req[s])' => req'[s].family.upstream \notin presented'
    BY <1>1, <1>13 DEF Unspent
  <2> QED BY <2>1, <2>2 DEF Unspent
<1>15. Answered'
  <2>1. ASSUME NEW a \in answers', NEW h, In(Family(h))'
        PROVE  /\ a[1] # Fam(h)'.digest
               /\ a[1] = Fam(h)'.receipt.digest => a[2] = Fam(h)'.receipt.pair
    <3>1. CASE h # g
      <4>1. In(Family(h)) /\ Fam(h)' = Fam(h)
        BY <1>13, <2>1, <3>1
      <4>2. CASE a \in answers
        BY <1>1, <4>1, <4>2 DEF Answered
      <4>3. CASE a = <<t, p>>
        <5>1. t \notin {Fam(h).digest, Fam(h).receipt.digest}
          BY <1>1, <1>10, <1>11, <3>1, <4>1 DEF Owned, DigestOf
        <5> QED BY <4>1, <4>3, <5>1
      <4> QED BY <1>12, <4>2, <4>3
    <3>2. CASE h = g
      <4>1. Fam(h)' = f
        BY <1>13, <2>1, <3>2
      <4>2. CASE a \in answers
        <5>1. a[1] # Fam(g).digest /\ a[1] # f.digest
          BY <1>1, <1>2, <4>2 DEF Answered
        <5> QED BY <1>3, <4>1, <5>1
      <4>3. CASE a = <<t, p>>
        BY <1>3, <4>1, <4>3
      <4> QED BY <1>12, <4>2, <4>3
    <3> QED BY <3>1, <3>2
  <2>2. ASSUME NEW a \in answers', NEW s \in Requests, Renewed(req[s])'
        PROVE  a[1] # req'[s].family.digest
    <3>1. s # r /\ req'[s] = req[s] /\ Renewed(req[s])
      BY <1>13, <2>2
    <3>2. CASE a \in answers
      BY <1>1, <3>1, <3>2 DEF Answered
    <3>3. CASE a = <<t, p>>
      <4> SUFFICES ASSUME req[s].family.digest = t PROVE FALSE
        BY <3>1, <3>3
      <4>1. req[s].grant = g
        BY <1>1, <1>10, <1>11, <3>1 DEF Owned, DigestOf
      <4> QED BY <1>9, <3>1, <4>1 DEF Carries, Renewed
    <3> QED BY <1>12, <3>2, <3>3
  <2>3. AnswersAgree'
    <3>1. \A a \in answers : a[1] # t
      BY <1>1, <1>2, <1>3 DEF Answered
    <3> QED BY <1>1, <1>12, <3>1 DEF Answered, AnswersAgree
  <2> QED BY <2>1, <2>2, <2>3 DEF Answered
<1>16. wrongs' \intersect {"spent", "after"} = {}
  BY DEF IInv
<1> QED BY <1>13, <1>14, <1>15, <1>16 DEF IInv

LEMMA CommitKeeps ==
  ASSUME IInv, Types', NEW r \in Requests, Commit(r)
  PROVE  IInv' /\ RevokedStays
<1>1. PICK g, f, t, p : g = req[r].grant /\ f = req[r].family /\ t = req[r].token
                        /\ p = f.receipt.pair
  OBVIOUS
<1>2. CASE Unchanged(store, Family(req[r].grant), req[r].version, now)
  BY <1>1, <1>2, CommitStored DEF Commit, At
<1>3. CASE ~Unchanged(store, Family(req[r].grant), req[r].version, now)
  <2>1. Go(r, ToRevoke(r)) /\ UNCHANGED <<store, presented, wrongs, inbox, minted, answers>>
    BY <1>3 DEF Commit
  <2> QED BY <2>1, ToRevokeKeeps
<1> QED BY <1>2, <1>3

\* A revocation that is stored leaves the digest, so that who carries the family finds it
\* revoked.
LEMMA SwapStored ==
  ASSUME IInv, Types', NEW r \in Requests, NEW g, g = req[r].grant,
         NEW f, f = Revoked(req[r].family), NEW until,
         req[r].pc = "swap", Unchanged(store, Family(g), req[r].version, now),
         store' = Put(store, Family(g), f, until), Go(r, To(r, "cleanup")),
         wrongs' \in {wrongs, wrongs \union {"unjust"}},
         UNCHANGED <<now, inbox, minted, answers, presented>>
  PROVE  IInv' /\ RevokedStays
<1>1. /\ Types /\ ReadsFit /\ Alone /\ Owned /\ Unspent /\ Answered /\ Versioned(req[r])
  BY DEF IInv, Versioned
<1>2. In(Family(g)) /\ req[r].version = Ver(g) /\ Ver(g) \in Nat \ {0}
  BY <1>1, SwapReplaces
<1>3. req[r].family = Fam(g)
  BY <1>1, <1>2 DEF ReadsFit, Reads
<1>4. /\ f.status = "revoked" /\ f.upstream = 0 /\ f.digest = Fam(g).digest
      /\ f.receipt.digest = NoToken
  <2>1. req[r].family \in Families(minted)
    BY <1>1, FamilyKnows
  <2> QED BY <1>3, <2>1 DEF Revoked, Families, NoReceipt
<1>5. Writes(g, f)
  BY <1>2, PutWrites
<1>6. PICK q : q = To(r, "cleanup")
  OBVIOUS
<1>7. q.pc = "cleanup"
  <2>1. req[r] \in AtFamily(minted)
    BY <1>1, FamilyKnows
  <2> QED BY <1>6, <2>1 DEF To, AtFamily
<1>8. Reads(req[r])'
  <2>1. req'[r] = q
    BY <1>1, <1>6, GoIs
  <2>2. ~Versioned(req[r])'
    BY <1>7, <2>1 DEF Versioned
  <2> QED BY <2>2, NoReads
<1>9. Fam(g).digest \in Pairs(minted) /\ NoToken \notin Pairs(minted)
  BY <1>1, <1>2, KnownTokens, TokensDiffer
<1>10. DigestOf(g, f.digest) /\ f.digest # f.receipt.digest
  BY <1>2, <1>4, <1>9 DEF DigestOf
<1>11. \A s \in Requests : Renewed(req[s]) /\ req[s].grant = g =>
         req[s].family.digest \notin {f.digest, f.receipt.digest}
  <2> SUFFICES ASSUME NEW s \in Requests, Renewed(req[s]), req[s].grant = g
               PROVE  req[s].family.digest \notin {f.digest, f.receipt.digest}
    OBVIOUS
  <2>1. req[s].family.digest # Fam(g).digest
    BY <1>1 DEF ReadsFit, Reads
  <2>2. req[s].family.digest \in Pairs(minted)
    BY <1>1, KnownTokens DEF Renewed, Versioned
  <2> QED BY <1>4, <1>9, <2>1, <2>2
<1>12. /\ ReadsFit' /\ Alone' /\ Owned' /\ Taken' /\ Unanswered' /\ CodesOwn' /\ LateIsLate'
       /\ RevokedStays
       /\ \A h : In(Family(h))' =>
            In(Family(h)) /\ ((h # g /\ Fam(h)' = Fam(h)) \/ (h = g /\ Fam(h)' = f))
       /\ \A s \in Requests : Renewed(req[s])' => s # r /\ req'[s] = req[s] /\ Renewed(req[s])
  <2>1. \A a \in answers' : a \in answers \/ a[1] \in Pairs(minted)
    OBVIOUS
  <2>2. \A u \in presented' : u \in presented \/ UpstreamOf(g, u)
    OBVIOUS
  <2>3. /\ q.pc \notin {"exchange", "create", "bearer", "identity"} /\ ~Renewed(q) /\ ~Carries(q)
    BY <1>7 DEF Renewed, Carries
  <2>4. Go(r, q) /\ minted' = minted /\ (State \in inbox => State \in inbox')
    BY <1>6
  <2> QED BY <1>4, <1>5, <1>8, <1>10, <1>11, <2>1, <2>2, <2>3, <2>4, WriteKeeps
<1>13. Unspent'
  <2>1. ASSUME NEW h, In(Family(h))', Fam(h)'.status = "active"
        PROVE  Fam(h)'.upstream # 0 /\ Fam(h)'.upstream \notin presented'
    BY <1>1, <1>4, <1>12, <2>1 DEF Unspent
  <2>2. \A s \in Requests : Renewed(req[s])' => req'[s].family.upstream \notin presented'
    BY <1>1, <1>12 DEF Unspent
  <2> QED BY <2>1, <2>2 DEF Unspent
<1>14. Answered'
  <2>1. \A a \in answers : a[1] # NoToken
    <3>1. NoToken \notin Tokens(minted)
      BY DEF NoToken, Tokens, State, Codes, Pairs, Plains
    <3> QED BY <1>1, <3>1 DEF Types
  <2>2. \A a \in answers' : \A h : In(Family(h))' =>
          /\ a[1] # Fam(h)'.digest
          /\ a[1] = Fam(h)'.receipt.digest => a[2] = Fam(h)'.receipt.pair
    BY <1>1, <1>4, <1>12, <2>1 DEF Answered
  <2>3. \A a \in answers', s \in Requests : Renewed(req[s])' => a[1] # req'[s].family.digest
    BY <1>1, <1>12 DEF Answered
  <2>4. AnswersAgree'
    BY <1>1 DEF Answered, AnswersAgree
  <2> QED BY <2>2, <2>3, <2>4 DEF Answered
<1>15. wrongs' \intersect {"spent", "after"} = {}
  BY DEF IInv
<1> QED BY <1>12, <1>13, <1>14, <1>15 DEF IInv

LEMMA SwapKeeps ==
  ASSUME IInv, Types', NEW r \in Requests, Swap(r)
  PROVE  IInv' /\ RevokedStays
<1>1. PICK g, f, until : g = req[r].grant /\ f = Revoked(req[r].family)
                         /\ until = req[r].family.expires
  OBVIOUS
<1>2. At(r, "swap") /\ UNCHANGED <<now, inbox, minted, presented, answers>>
  BY SwapDoes
<1>3. CASE Go(r, ToRevoke(r)) /\ UNCHANGED <<store, wrongs>>
  BY <1>2, <1>3, ToRevokeKeeps
<1>4. CASE /\ Unchanged(store, Family(g), req[r].version, now)
           /\ store' = Put(store, Family(g), f, until)
           /\ Go(r, To(r, "cleanup"))
           /\ wrongs' \in {wrongs, wrongs \union {"unjust"}}
  BY <1>1, <1>2, <1>4, SwapStored DEF At
<1> QED BY <1>1, <1>3, <1>4, SwapDoes

------------------------------------------------------------------------------
(* The theorems. *)

LEMMA NextKeeps ==
  ASSUME IInv, [Next]_vars
  PROVE  IInv' /\ RevokedStays
<1>1. Types'
  BY NextTypes DEF IInv
<1>2. CASE UNCHANGED vars
  <2>1. UNCHANGED <<store, answers, minted, inbox, presented, wrongs, req>>
    BY <1>2 DEF vars
  <2>2. wrongs' \intersect {"spent", "after"} = {}
    BY <2>1 DEF IInv
  <2> QED BY <1>1, <2>1, <2>2, QuietStep
<1>3. CASE Register \/ Authorize \/ Send \/ Tick
  BY <1>1, <1>3, TickKeeps, AuthorizeKeeps, SendKeeps
<1>4. ASSUME NEW r \in Requests,
             \/ Callback(r) \/ Exchange(r) \/ Redeem(r) \/ Create(r)
             \/ ReadReference(r) \/ ReadAccess(r) \/ Identity(r) \/ Crash(r)
      PROVE  IInv' /\ RevokedStays
  BY <1>1, <1>4, CallbackKeeps, ExchangeKeeps, RedeemKeeps, CreateKeeps, ReferenceKeeps,
     AccessKeeps, EndsKeep
<1>5. ASSUME NEW r \in Requests,
             \/ Look(r) \/ Wake(r) \/ Claim(r) \/ Upstream(r) \/ Reread(r) \/ Commit(r)
             \/ ReadToRevoke(r) \/ Swap(r) \/ Cleanup(r)
      PROVE  IInv' /\ RevokedStays
  BY <1>1, <1>5, LookKeeps, ReferenceKeeps, ClaimKeeps, UpstreamKeeps, RereadKeeps, CommitKeeps,
     ReadToRevokeKeeps, SwapKeeps, EndsKeep
<1> QED BY <1>2, <1>3, <1>4, <1>5 DEF Next

\* The inductive invariant of the grants holds in every reachable state.
THEOREM InductiveHolds == Spec => []IInv
<1>1. Init => IInv
  BY InitHolds
<1>2. IInv /\ [Next]_vars => IInv'
  BY NextKeeps
<1> QED BY <1>1, <1>2, PTL DEF Spec

\* Every record the gateways share, and everything a request knows, is of its kind, and
\* every token in use was made.
THEOREM TypesHold == Spec => []Types
<1>1. IInv => Types
  BY DEF IInv
<1> QED BY <1>1, InductiveHolds, PTL

\* A login, a code or a refresh token that is presented again, through any number of
\* gateways and after any crash, is answered as before or not at all, and no upstream token
\* that the upstream may have consumed is sent to it again.
THEOREM GrantsHold == Spec => []GrantsInvariant
<1>1. IInv => GrantsInvariant
  BY DEF IInv, Answered, GrantsInvariant, UpstreamTokenIsSentOnce
<1> QED BY <1>1, InductiveHolds, PTL

\* No step brings a revoked grant back, whatever was under way when it was revoked, and no
\* bearer presented after the revocation is accepted.
THEOREM RevokedStaysOver == Spec => [][RevokedIsOver]_vars
<1>1. IInv /\ [Next]_vars => [RevokedIsOver]_vars
  <2> SUFFICES ASSUME IInv, [Next]_vars PROVE RevokedIsOver
    OBVIOUS
  <2>1. IInv' /\ RevokedStays
    BY NextKeeps
  <2>2. "after" \notin wrongs'
    BY <2>1 DEF IInv
  <2> QED BY <2>1, <2>2 DEF RevokedIsOver, RevokedStays
<1> QED BY <1>1, InductiveHolds, PTL DEF Spec

------------------------------------------------------------------------------
(* Who revokes, and when.  What follows is about time: a client that repeats *)
(* a refresh in time does not lose its grant.                                *)

\* The record of a refresh token names its grant and its generation.
RefersTo(t, g, n) ==
  In(Refresh(t)) /\ store[Refresh(t)].value = [grant |-> g, generation |-> n]

Sane(f, g) == RefersTo(f.digest, g, f.generation) /\ f.receipt.until <= f.receipt.access

HasFamily(q)  == q.pc \in {"claim", "upstream", "reread", "commit", "swap", "cleanup"}
Refers(q)     == HasFamily(q) \/ q.pc \in {"look", "waiting", "revoke"}
Refreshing(q) == Refers(q) \/ q.pc = "reference"

Knows(q) ==
  /\ Refers(q) => RefersTo(q.token, q.grant, q.generation)
  /\ HasFamily(q) => q.family.expires = Fam(q.grant).expires /\ Sane(q.family, q.grant)
  /\ q.pc = "swap" => q.family.status # "revoked"

\* What never changes in the store.
Recorded ==
  /\ \A g : In(Family(g)) => store[Family(g)].until = Fam(g).expires /\ Sane(Fam(g), g)
  /\ \A t : In(Refresh(t)) => t \in Pairs(minted) /\ In(Family(store[Refresh(t)].value.grant))

Known == Recorded /\ \A r \in Requests : Knows(req[r])

\* The grant is revoked, or is as good as over.
Doomed(g) == Fam(g).status = "revoked" \/ Fam(g).expires <= now + Receipt

\* The token may be refreshed, or its answer repeated for longer than a while yet.
Due(t, g, while) ==
  \/ Doomed(g)
  \/ Fam(g).digest = t
  \/ Fam(g).receipt.digest = t /\ Fam(g).receipt.until > now + while

\* No request is early to revoke, or late to find its token.
OnTime(q) ==
  /\ q.pc = "reference" /\ Found(Refresh(q.token)) # None =>
       Due(q.token, Found(Refresh(q.token)).value.grant, 0)
  /\ q.pc \in {"look", "claim"} => Due(q.token, q.grant, 0)
  /\ q.pc = "waiting" => Due(q.token, q.grant, 1)
  /\ q.pc = "claim" => q.family.since = now
  /\ q.pc = "upstream" => Doomed(q.grant) \/ q.family.since = Fam(q.grant).since
  /\ q.pc = "reread" => Doomed(q.grant) \/ q.family.receipt.access > now + 1
  /\ q.pc = "commit" =>
       Doomed(q.grant) \/ (q.family.receipt.until > now + 1 /\ q.version = Ver(q.grant))
  /\ q.pc \in {"revoke", "swap"} => Doomed(q.grant)

\* The requests under way present one token.
OneToken ==
  \A r, s \in Requests :
    Refreshing(req[r]) /\ Refreshing(req[s]) => req[r].token = req[s].token

\* A grant that is being refreshed is so by somebody, and not for too long.
Attended ==
  \A g : In(Family(g)) /\ Fam(g).status = "refreshing" =>
    \/ Doomed(g)
    \/ /\ Fam(g).since + Inflight > now
       /\ \E r \in Requests : Carries(req[r]) /\ req[r].grant = g

Timely == OneToken /\ (\A r \in Requests : OnTime(req[r])) /\ Attended

JInv == IInv /\ Known /\ (excused \/ Timely) /\ "unjust" \notin wrongs

------------------------------------------------------------------------------
(* The records are kept. *)

ReferencesStay ==
  \A t : In(Refresh(t)) => In(Refresh(t))' /\ store'[Refresh(t)] = store[Refresh(t)]

ExpiryStays ==
  \A g : In(Family(g)) => In(Family(g))' /\ Fam(g)'.expires = Fam(g).expires

\* No family and no reference is written.
RecordsStay == SameFamilies /\ \A t :
  /\ In(Refresh(t))' <=> In(Refresh(t))
  /\ In(Refresh(t)) => store'[Refresh(t)] = store[Refresh(t)]

LEMMA RefersStays ==
  ASSUME ReferencesStay, NEW t, NEW g, NEW n, RefersTo(t, g, n)
  PROVE  RefersTo(t, g, n)'
BY DEF ReferencesStay, RefersTo, In

LEMMA SaneStays ==
  ASSUME ReferencesStay, NEW f, NEW g, Sane(f, g)
  PROVE  Sane(f, g)'
BY RefersStays DEF Sane

\* The grant a token refers to has a family.
LEMMA RefersFamily ==
  ASSUME Recorded, NEW t, NEW g, NEW n, RefersTo(t, g, n)
  PROVE  In(Family(g))
BY DEF Recorded, RefersTo

\* Kinds of places, one for all.
LEMMA PlacesAre ==
  ASSUME NEW q
  PROVE  /\ HasFamily(q) => Refers(q)
         /\ Refers(q) => Refreshing(q)
         /\ Versioned(q) => HasFamily(q)
         /\ Carries(q) => Versioned(q)
         /\ Renewed(q) => Carries(q)
BY DEF HasFamily, Refers, Refreshing, Versioned, Carries, Renewed

LEMMA KnowsStays ==
  ASSUME Recorded, ReferencesStay, ExpiryStays, NEW q, Knows(q)
  PROVE  Knows(q)'
<1>1. Refers(q) => RefersTo(q.token, q.grant, q.generation)' /\ In(Family(q.grant))
  BY RefersStays, RefersFamily DEF Knows
<1>2. HasFamily(q) => q.family.expires = Fam(q.grant)'.expires
  BY <1>1, PlacesAre DEF Knows, ExpiryStays
<1>3. HasFamily(q) => Sane(q.family, q.grant)'
  BY SaneStays DEF Knows
<1>4. Refers(q)' <=> Refers(q)
  BY DEF Refers, HasFamily
<1>5. HasFamily(q)' <=> HasFamily(q)
  BY DEF HasFamily
<1> QED BY <1>1, <1>2, <1>3 DEF Knows

\* What a step owes to the records.
LEMMA KnownStep ==
  ASSUME Known, minted \in Nat, minted' \in {minted, minted + 1}, ReferencesStay, ExpiryStays,
         \A g : In(Family(g))' /\ ~(In(Family(g)) /\ store'[Family(g)] = store[Family(g)]) =>
           store'[Family(g)].until = Fam(g)'.expires /\ Sane(Fam(g), g)',
         \A t : In(Refresh(t))' /\ ~In(Refresh(t)) =>
           t \in Pairs(minted') /\ In(Family(store[Refresh(t)].value.grant))',
         \A s \in Requests : req'[s] = req[s] \/ Knows(req[s])'
  PROVE  Known'
<1>1. Recorded /\ \A s \in Requests : Knows(req[s])
  BY DEF Known
<1>2. ASSUME NEW g, In(Family(g))'
      PROVE  store'[Family(g)].until = Fam(g)'.expires /\ Sane(Fam(g), g)'
  <2>1. CASE In(Family(g)) /\ store'[Family(g)] = store[Family(g)]
    <3>1. PICK f : f = Fam(g)
      OBVIOUS
    <3>2. Fam(g)' = f
      BY <2>1, <3>1 DEF Fam
    <3>3. store[Family(g)].until = f.expires /\ Sane(f, g)
      BY <1>1, <2>1, <3>1 DEF Recorded
    <3>4. Sane(f, g)'
      BY <3>3, SaneStays
    <3> QED BY <2>1, <3>2, <3>3, <3>4 DEF Sane, RefersTo
  <2> QED BY <1>2, <2>1 DEF Sane, RefersTo, In, Fam
<1>3. ASSUME NEW t, In(Refresh(t))'
      PROVE  t \in Pairs(minted') /\ In(Family(store[Refresh(t)].value.grant))'
  <2>1. CASE In(Refresh(t))
    <3>1. /\ In(Family(store[Refresh(t)].value.grant)) /\ store'[Refresh(t)] = store[Refresh(t)]
          /\ t \in Pairs(minted)
      BY <1>1, <2>1 DEF Recorded, ReferencesStay
    <3>4. t \in Pairs(minted')
      BY <3>1, TokensGrow
    <3>2. PICK g : g = store[Refresh(t)].value.grant
      OBVIOUS
    <3>3. In(Family(g))'
      BY <3>1, <3>2 DEF ExpiryStays
    <3> QED BY <3>1, <3>2, <3>3, <3>4 DEF In
  <2> QED BY <1>3, <2>1 DEF In
<1>4. ASSUME NEW s \in Requests, req'[s] = req[s]
      PROVE  Knows(req[s])'
  <2>1. PICK q : q = req[s]
    OBVIOUS
  <2>2. Knows(q)'
    BY <1>1, <2>1, KnowsStays
  <2> QED BY <1>4, <2>1, <2>2 DEF Knows, Refers, HasFamily, RefersTo, Sane, Fam, In
<1> QED BY <1>2, <1>3, <1>4 DEF Known, Recorded

------------------------------------------------------------------------------
(* Being on time is kept. *)

LEMMA DueStays ==
  ASSUME FamiliesStay, UNCHANGED now, NEW g, In(Family(g)), NEW t, NEW while
  PROVE  /\ Fam(g)' = Fam(g) /\ Ver(g)' = Ver(g)
         /\ Doomed(g)' <=> Doomed(g)
         /\ Due(t, g, while)' <=> Due(t, g, while)
<1>1. Fam(g)' = Fam(g) /\ Ver(g)' = Ver(g)
  BY DEF FamiliesStay, Fam, Ver
<1> QED BY <1>1 DEF Doomed, Due

\* A request that is not refreshing is never late, and needs to know nothing.
LEMMA NothingDue ==
  ASSUME NEW q, ~Refreshing(q)
  PROVE  OnTime(q) /\ OnTime(q)' /\ Knows(q) /\ Knows(q)'
<1>1. /\ ~Refers(q) /\ ~HasFamily(q) /\ q.pc # "reference"
      /\ q.pc \notin {"look", "waiting", "revoke", "claim", "upstream", "reread", "commit", "swap"}
  BY DEF Refreshing, Refers, HasFamily
<1>2. Knows(q) /\ Knows(q)'
  BY <1>1 DEF Knows, Refers, HasFamily
<1>3. OnTime(q) /\ OnTime(q)'
  BY <1>1 DEF OnTime
<1> QED BY <1>2, <1>3

LEMMA OnTimeStays ==
  ASSUME Recorded, FamiliesStay, ReferencesStay, UNCHANGED now, NEW q, Knows(q), OnTime(q),
         q.pc = "reference" /\ In(Refresh(q.token))' => In(Refresh(q.token))
  PROVE  OnTime(q)'
<1>1. CASE ~Refreshing(q)
  BY <1>1, NothingDue
<1>2. CASE q.pc = "reference"
  <2>1. PICK t, g : t = q.token /\ g = Found(Refresh(q.token)).value.grant
    OBVIOUS
  <2>2. CASE Found(Refresh(t))' = None
    BY <1>2, <2>1, <2>2 DEF OnTime, Found, Entry
  <2>3. CASE Found(Refresh(t))' # None
    <3>1. In(Refresh(t))'
      BY <2>3 DEF Found, Entry, In
    <3>2. In(Refresh(t)) /\ store'[Refresh(t)] = store[Refresh(t)]
      BY <1>2, <2>1, <3>1 DEF ReferencesStay
    <3>3. Found(Refresh(t))' = Found(Refresh(t))
      BY <3>1, <3>2 DEF Found, Entry, In
    <3>4. Found(Refresh(t)) = store[Refresh(t)]
      BY <2>3, <3>3, FoundIs
    <3>5. In(Family(g))
      BY <2>1, <3>2, <3>4 DEF Recorded
    <3>6. Due(t, g, 0)' <=> Due(t, g, 0)
      BY <3>5, DueStays
    <3>7. Due(t, g, 0)
      BY <1>2, <2>1, <2>3, <3>3 DEF OnTime
    <3>8. g = Found(Refresh(t))'.value.grant
      BY <2>1, <3>3
    <3> QED BY <1>2, <2>1, <3>6, <3>7, <3>8 DEF OnTime, Due, Doomed, Fam
  <2> QED BY <2>2, <2>3
<1>3. CASE Refers(q)
  <2>1. PICK t, g : t = q.token /\ g = q.grant
    OBVIOUS
  <2>2. In(Family(g))
    BY <1>3, <2>1, RefersFamily DEF Knows
  <2>3. /\ Fam(g)' = Fam(g) /\ Ver(g)' = Ver(g) /\ (Doomed(g)' <=> Doomed(g))
        /\ Due(t, g, 0)' <=> Due(t, g, 0)
        /\ Due(t, g, 1)' <=> Due(t, g, 1)
    BY <2>2, DueStays
  <2>4. q.pc # "reference"
    BY <1>3 DEF Refers, HasFamily
  <2> QED BY <2>1, <2>3, <2>4 DEF OnTime
<1> QED BY <1>1, <1>2, <1>3 DEF Refreshing

\* The token is the one that every request under way presents.
Presents(t) == \A s \in Requests : Refreshing(req[s]) => req[s].token = t

LEMMA PresentsOn ==
  ASSUME JInv, NEW r \in Requests, Refreshing(req[r])
  PROVE  ~excused => Presents(req[r].token)
BY DEF JInv, Timely, OneToken, Presents

\* A step of one request that writes no family that was there, and no reference.
LEMMA GrowStep ==
  ASSUME JInv, IInv', FamiliesStay, ReferencesStay, UNCHANGED now, minted' \in {minted, minted + 1}, excused => excused',
         "unjust" \notin wrongs',
         \A t \in Pairs(minted) : In(Refresh(t))' => In(Refresh(t)),
         \A g : In(Family(g))' /\ ~In(Family(g)) =>
           /\ store'[Family(g)].until = Fam(g)'.expires /\ Sane(Fam(g), g)'
           /\ Fam(g)'.status # "refreshing",
         \A t : In(Refresh(t))' /\ ~In(Refresh(t)) =>
           t \in Pairs(minted') /\ In(Family(store[Refresh(t)].value.grant))',
         NEW r \in Requests, NEW q, Go(r, q),
         Knows(q)', ~excused' => OnTime(q)',
         ~excused' /\ Refreshing(q) => Presents(q.token),
         Carries(req[r]) =>
           excused' \/ Doomed(req[r].grant) \/ (Carries(q) /\ q.grant = req[r].grant)
  PROVE  JInv'
<1>1. IInv /\ Types /\ Known /\ Recorded /\ (excused \/ Timely)
  BY DEF JInv, IInv, Known
<1>2. req'[r] = q /\ \A s \in Requests : s # r => req'[s] = req[s]
  BY <1>1, GoIs
<1>3. Known'
  <2>1. ExpiryStays
    BY DEF ExpiryStays, FamiliesStay, Fam
  <2>2. \A s \in Requests : req'[s] = req[s] \/ Knows(req[s])'
    BY <1>2 DEF Knows, Refers, HasFamily, RefersTo, Sane, In, Fam
  <2>4. minted \in Nat
    BY <1>1 DEF Types
  <2>3. \A g : In(Family(g))' /\ ~(In(Family(g)) /\ store'[Family(g)] = store[Family(g)]) =>
           store'[Family(g)].until = Fam(g)'.expires /\ Sane(Fam(g), g)'
    BY DEF FamiliesStay, In
  <2> QED BY <1>1, <2>1, <2>2, <2>3, <2>4, KnownStep
<1>4. ASSUME ~excused' PROVE Timely'
  <2>1. OneToken /\ (\A s \in Requests : OnTime(req[s])) /\ Attended /\ OnTime(q)'
    BY <1>1, <1>4 DEF Timely
  <2>2. OneToken'
    <3>1. Refreshing(q) => Presents(q.token)
      BY <1>4
    <3>2. ASSUME NEW s \in Requests, NEW t \in Requests, Refreshing(req'[s]), Refreshing(req'[t])
          PROVE  req'[s].token = req'[t].token
      <4>1. CASE s # r /\ t # r
        BY <1>2, <2>1, <3>2, <4>1 DEF OneToken
      <4>2. CASE s = r \/ t = r
        BY <1>2, <3>1, <3>2, <4>2 DEF Presents
      <4> QED BY <4>1, <4>2
    <3> QED BY <3>2 DEF OneToken, Refreshing, Refers, HasFamily
  <2>3. ASSUME NEW s \in Requests PROVE OnTime(req[s])'
    <3>1. CASE s = r
      BY <1>2, <2>1, <3>1 DEF OnTime, Due, Doomed, Fam, Ver, In
    <3>2. CASE s # r
      <4>1. PICK p : p = req[s]
        OBVIOUS
      <4>2. req'[s] = p /\ OnTime(p) /\ Knows(p)
        BY <1>1, <1>2, <2>1, <3>2, <4>1 DEF Known
      <4>3. p.pc = "reference" => p.token \in Pairs(minted)
        BY <1>1, <4>1, RequestKnows DEF Types, AtReference
      <4>4. OnTime(p)'
        BY <1>1, <4>2, <4>3, OnTimeStays
      <4> QED BY <4>2, <4>4 DEF OnTime, Due, Doomed, Fam, Ver, In
    <3> QED BY <3>1, <3>2
  <2>4. Attended'
    <3> SUFFICES ASSUME NEW g, In(Family(g))', Fam(g)'.status = "refreshing", ~Doomed(g)'
                 PROVE  /\ Fam(g)'.since + Inflight > now'
                        /\ \E s \in Requests : Carries(req'[s]) /\ req'[s].grant = g
      BY DEF Attended, Carries
    <3>1. In(Family(g))
      OBVIOUS
    <3>2. Fam(g)' = Fam(g) /\ ~Doomed(g)
      BY <3>1, DueStays
    <3>3. /\ Fam(g).since + Inflight > now
          /\ \E s \in Requests : Carries(req[s]) /\ req[s].grant = g
      BY <2>1, <3>1, <3>2 DEF Attended
    <3>4. PICK s \in Requests : Carries(req[s]) /\ req[s].grant = g
      BY <3>3
    <3>5. CASE s = r
      <4>1. Carries(q) /\ q.grant = g
        BY <1>4, <3>2, <3>4, <3>5
      <4> QED BY <1>2, <3>2, <3>3, <3>5, <4>1
    <3>6. CASE s # r
      BY <1>2, <3>2, <3>3, <3>4, <3>6
    <3> QED BY <3>5, <3>6
  <2> QED BY <2>2, <2>3, <2>4 DEF Timely
<1> QED BY <1>3, <1>4 DEF JInv

\* A step of one request that writes neither families nor references.
LEMMA ElsewhereStep ==
  ASSUME JInv, IInv', RecordsStay, UNCHANGED now, minted' \in {minted, minted + 1}, excused => excused', "unjust" \notin wrongs',
         NEW r \in Requests, NEW q, Go(r, q),
         Knows(q), ~excused' => OnTime(q),
         ~excused' /\ Refreshing(q) => Presents(q.token),
         Carries(req[r]) =>
           excused' \/ Doomed(req[r].grant) \/ (Carries(q) /\ q.grant = req[r].grant)
  PROVE  JInv'
<1>1. FamiliesStay /\ ReferencesStay /\ ExpiryStays /\ Recorded
  BY DEF RecordsStay, SameFamilies, FamiliesStay, ReferencesStay, ExpiryStays, Fam, JInv, Known
<1>2. Knows(q)'
  BY <1>1, KnowsStays
<1>3. ~excused' => OnTime(q)'
  <2>1. q.pc = "reference" /\ In(Refresh(q.token))' => In(Refresh(q.token))
    BY DEF RecordsStay
  <2> QED BY <1>1, <2>1, OnTimeStays
<1>4. /\ \A t \in Pairs(minted) : In(Refresh(t))' => In(Refresh(t))
      /\ \A g : In(Family(g))' => In(Family(g))
      /\ \A t : In(Refresh(t))' => In(Refresh(t))
  BY DEF RecordsStay, SameFamilies
<1> QED BY <1>1, <1>2, <1>3, <1>4, GrowStep

\* A request that stops refreshing, or was not.
LEMMA StopStep ==
  ASSUME JInv, IInv', RecordsStay, UNCHANGED now, minted' \in {minted, minted + 1}, excused => excused', "unjust" \notin wrongs',
         NEW r \in Requests, NEW q, Go(r, q), ~Refreshing(q), Carries(req[r]) => excused'
  PROVE  JInv'
<1>1. Knows(q) /\ OnTime(q)
  BY NothingDue
<1> QED BY <1>1, ElsewhereStep

------------------------------------------------------------------------------
(* Steps that write neither families nor references. *)

LEMMA RecordsElsewhere ==
  ASSUME NEW key, \A g : Family(g) # key, \A t : Refresh(t) # key,
         \A k : k # key => (k \in DOMAIN store' <=> k \in DOMAIN store),
         \A k \in DOMAIN store : k # key => store'[k] = store[k]
  PROVE  RecordsStay
BY DEF RecordsStay, SameFamilies, In

LEMMA RecordsUnchanged ==
  ASSUME UNCHANGED store
  PROVE  RecordsStay
BY DEF RecordsStay, SameFamilies, In

\* No request moves.
LEMMA NobodyMoves ==
  ASSUME JInv, IInv', RecordsStay, UNCHANGED <<now, req, minted, excused, wrongs>>
  PROVE  JInv'
<1>1. Types /\ Known /\ Recorded
  BY DEF JInv, IInv, Known
<1>2. CASE Requests = {}
  <2>1. FamiliesStay /\ ReferencesStay /\ ExpiryStays
    BY DEF RecordsStay, SameFamilies, FamiliesStay, ReferencesStay, ExpiryStays, Fam
  <2>2. Known'
    <3>1. /\ \A g : In(Family(g))' => In(Family(g)) /\ store'[Family(g)] = store[Family(g)]
          /\ \A t : In(Refresh(t))' => In(Refresh(t))
      BY DEF RecordsStay, SameFamilies
    <3> QED BY <1>1, <1>2, <2>1, <3>1, KnownStep DEF Types
  <2>3. ASSUME Timely PROVE Timely'
    <3>1. ASSUME NEW g, In(Family(g))', Fam(g)'.status = "refreshing" PROVE Doomed(g)'
      <4>1. In(Family(g))
        BY <3>1 DEF RecordsStay, SameFamilies
      <4>2. Fam(g)' = Fam(g) /\ (Doomed(g)' <=> Doomed(g))
        BY <2>1, <4>1, DueStays
      <4> QED BY <1>2, <2>3, <3>1, <4>1, <4>2 DEF Timely, Attended
    <3>2. Attended'
      BY <3>1 DEF Attended
    <3> QED BY <1>2, <3>2 DEF Timely, OneToken
  <2> QED BY <2>2, <2>3 DEF JInv
<1>3. ASSUME NEW r \in Requests PROVE JInv'
  <2>1. PICK q : q = req[r]
    OBVIOUS
  <2>2. Go(r, q)
    BY <1>1, <2>1 DEF Go, Types
  <2>3. Knows(q) /\ (~excused => OnTime(q))
    BY <1>1, <2>1 DEF Known, JInv, Timely
  <2>4. ~excused /\ Refreshing(q) => Presents(q.token)
    BY <2>1, PresentsOn
  <2>5. excused' = excused /\ "unjust" \notin wrongs'
    BY DEF JInv
  <2> QED BY <2>1, <2>2, <2>3, <2>4, <2>5, ElsewhereStep
<1> QED BY <1>2, <1>3

\* The login.
LEMMA LoginOnTime ==
  ASSUME JInv, IInv', NEW r \in Requests, Callback(r) \/ Exchange(r) \/ Redeem(r)
  PROVE  JInv'
<1>1. /\ UNCHANGED <<now, excused, wrongs>> /\ minted' \in {minted, minted + 1}
      /\ "unjust" \notin wrongs' /\ (excused => excused') /\ ~Carries(req[r])
  BY DEF Callback, Exchange, Redeem, At, Carries, JInv
<1>2. RecordsStay
  <2>1. ASSUME NEW key, key = Transaction \/ \E c : key = Code(c),
               \/ store' = Without(store, key)
               \/ \E value, until : store' = Put(store, key, value, until)
        PROVE  RecordsStay
    BY <2>1, KeysDiffer, PutElsewhere, WithoutElsewhere, RecordsElsewhere
  <2>2. CASE Callback(r)
    BY <2>1, <2>2 DEF Callback
  <2>3. CASE Redeem(r)
    BY <2>1, <2>3 DEF Redeem
  <2>4. CASE Exchange(r)
    BY <2>1, <2>4, RecordsUnchanged DEF Exchange
  <2> QED BY <2>2, <2>3, <2>4
<1>3. PICK q : Go(r, q) /\ q.pc \in {"idle", "exchange", "create"}
  <2>1. CASE Go(r, Idle)
    BY <2>1 DEF Idle
  <2>2. ASSUME NEW x, Go(r, [pc |-> "exchange", refresh |-> x])
        PROVE  \E q : Go(r, q) /\ q.pc = "exchange"
    BY <2>2
  <2>3. ASSUME NEW x, NEW y, Go(r, [pc |-> "create", token |-> x, code |-> y])
        PROVE  \E q : Go(r, q) /\ q.pc = "create"
    BY <2>3
  <2>4. Callback(r) => Go(r, Idle) \/ \E x : Go(r, [pc |-> "exchange", refresh |-> x])
    BY DEF Callback, Done
  <2>5. Redeem(r) => Go(r, Idle) \/ \E x, y : Go(r, [pc |-> "create", token |-> x, code |-> y])
    BY DEF Redeem, Done
  <2>6. Exchange(r) => Go(r, Idle)
    BY DEF Exchange, Answer, Done
  <2> QED BY <2>1, <2>2, <2>3, <2>4, <2>5, <2>6
<1>4. ~Refreshing(q)
  BY <1>3 DEF Refreshing, Refers, HasFamily
<1> QED BY <1>1, <1>2, <1>3, <1>4, StopStep

\* A crash of who carries a family excuses what follows.
LEMMA EndsOnTime ==
  ASSUME JInv, IInv', NEW r \in Requests,
         Crash(r) \/ Cleanup(r) \/ Identity(r) \/ ReadAccess(r)
  PROVE  JInv'
<1>1. UNCHANGED <<now, store, minted>> /\ (excused => excused') /\ (Carries(req[r]) => excused')
  <2>1. UNCHANGED <<now, store, minted>>
    BY DEF Crash, Cleanup, Identity, ReadAccess
  <2>2. CASE Crash(r)
    BY <2>1, <2>2 DEF Crash, Carries
  <2>3. CASE Cleanup(r) \/ Identity(r) \/ ReadAccess(r)
    <3>1. UNCHANGED excused
      BY <2>3 DEF Cleanup, Identity, ReadAccess
    <3>2. ~Carries(req[r])
      BY <2>3 DEF Cleanup, Identity, ReadAccess, At, Carries
    <3> QED BY <2>1, <3>1, <3>2
  <2> QED BY <2>1, <2>2, <2>3
<1>2. "unjust" \notin wrongs'
  BY DEF Crash, Cleanup, Identity, ReadAccess, Wrong, JInv
<1>3. RecordsStay
  BY <1>1, RecordsUnchanged
<1>4. PICK q : Go(r, q) /\ q.pc \in {"idle", "identity"}
  <2>1. CASE Go(r, Idle)
    BY <2>1 DEF Idle
  <2>2. ASSUME NEW x, NEW y, Go(r, [pc |-> "identity", access |-> x, late |-> y])
        PROVE  \E q : Go(r, q) /\ q.pc = "identity"
    BY <2>2
  <2>3. Go(r, Idle) \/ \E x, y : Go(r, [pc |-> "identity", access |-> x, late |-> y])
    BY DEF Crash, Cleanup, Identity, ReadAccess, Done
  <2> QED BY <2>1, <2>2, <2>3
<1>5. ~Refreshing(q)
  BY <1>4 DEF Refreshing, Refers, HasFamily
<1> QED BY <1>1, <1>2, <1>3, <1>4, <1>5, StopStep

------------------------------------------------------------------------------
(* Steps of a refresh that write nothing. *)

LEMMA FamilyFacts ==
  ASSUME Types, NEW g, In(Family(g))
  PROVE  /\ Fam(g).expires \in Nat /\ Fam(g).since \in Nat /\ Fam(g).generation \in Nat
         /\ Fam(g).receipt.until \in Nat /\ Fam(g).receipt.access \in Nat
         /\ Fam(g).status \in {"active", "refreshing", "revoked"}
         /\ Ver(g) \in Nat \ {0} /\ now \in Nat /\ Fam(g) \in Families(minted)
<1>1. Fam(g) \in Families(minted) /\ Ver(g) \in Nat \ {0} /\ now \in Nat
  BY DEF Types, StoreTypes, In, Fam, Ver
<1>2. Fam(g).receipt \in Receipts(minted)
  BY <1>1 DEF Families
<1>3. Fam(g).receipt.until \in Nat /\ Fam(g).receipt.access \in Nat
  BY <1>2 DEF Receipts, NoReceipt
<1> QED BY <1>1, <1>3 DEF Families

LEMMA TimesAreNat == {Receipt, Inflight, AssertionTtl} \subseteq Nat
BY TimesAssumption

\* What is found of a family, and that what is not is over.
LEMMA FamilyFound ==
  ASSUME Types, Recorded, NEW g, In(Family(g)), NEW entry, entry = Found(Family(g))
  PROVE  /\ entry # None => entry.value = Fam(g) /\ entry.version = Ver(g)
         /\ entry = None => Doomed(g)
<1>1. entry # None => entry = store[Family(g)]
  BY FoundIs
<1>2. ASSUME entry = None PROVE Doomed(g)
  <2>1. ~(store[Family(g)].until > now)
    <3>1. store[Family(g)] # None
      <4>1. store[Family(g)].version # 0
        BY DEF Types, StoreTypes, In
      <4> QED BY <4>1 DEF None
    <3> QED BY <1>2, <3>1 DEF Found, Entry, In
  <2>2. store[Family(g)].until = Fam(g).expires
    BY DEF Recorded
  <2>3. Fam(g).expires \in Nat /\ now \in Nat /\ Receipt \in Nat
    BY FamilyFacts, TimesAreNat
  <2>4. Fam(g).expires <= now + Receipt
    BY <2>1, <2>2, <2>3
  <2> QED BY <2>4 DEF Doomed
<1> QED BY <1>1, <1>2 DEF Fam, Ver

LEMMA DueSooner ==
  ASSUME Types, NEW t, NEW g, In(Family(g)), Due(t, g, 1)
  PROVE  Due(t, g, 0)
<1>1. Fam(g).receipt.until \in Nat /\ now \in Nat
  BY FamilyFacts
<1>2. Fam(g).receipt.until > now + 1 => Fam(g).receipt.until > now + 0
  BY <1>1
<1> QED BY <1>2 DEF Due

\* A token the client should still hold is due.
LEMMA SentIsDue ==
  ASSUME JInv, NEW t, ~Stale(t), Found(Refresh(t)) # None
  PROVE  Due(t, Found(Refresh(t)).value.grant, 0)
<1>1. PICK ref, g : ref = Found(Refresh(t)) /\ g = ref.value.grant
  OBVIOUS
<1>2. Types /\ Recorded /\ now \in Nat
  BY DEF JInv, IInv, Known, Types
<1>3. In(Family(g))
  BY <1>1, <1>2, FoundIs DEF Recorded, In
<1>4. PICK entry : entry = Found(Family(g))
  OBVIOUS
<1>5. CASE entry = None
  BY <1>1, <1>2, <1>3, <1>4, <1>5, FamilyFound DEF Due
<1>6. CASE entry # None
  <2>1. entry.value = Fam(g)
    BY <1>2, <1>3, <1>4, <1>6, FamilyFound
  <2>2. \/ entry.value.digest = t
        \/ entry.value.receipt.digest = t /\ entry.value.receipt.until > now
    BY <1>1, <1>4, <1>6 DEF Stale
  <2>3. now + 0 = now
    BY <1>2
  <2> QED BY <1>1, <2>1, <2>2, <2>3 DEF Due
<1> QED BY <1>5, <1>6

\* A client that moved on to another token is excused, and so it is one token.
LEMMA SendOnTime ==
  ASSUME JInv, IInv', Send
  PROVE  JInv'
<1>1. PICK r \in Requests, token \in inbox :
        /\ At(r, "idle")
        /\ \/ Go(r, [pc |-> "callback"]) /\ UNCHANGED excused
           \/ Go(r, [pc |-> "redeem", token |-> token]) /\ UNCHANGED excused
           \/ /\ Go(r, [pc |-> "reference", token |-> token])
              /\ excused' = (excused \/ Stale(token) \/ Overtakes(token))
           \/ /\ LET access == Found(Access(token))
                 IN  Go(r, [pc |-> "bearer", token |-> token,
                            late |-> access # None /\ RevokedIn(store, access.value.grant)])
              /\ UNCHANGED excused
  BY DEF Send
<1>2. /\ UNCHANGED <<now, store, minted, wrongs>> /\ "unjust" \notin wrongs' /\ ~Carries(req[r])
      /\ RecordsStay
  BY <1>1, RecordsUnchanged DEF Send, At, Carries, JInv
<1>3. ASSUME NEW q, Go(r, q), q.pc \in {"callback", "redeem", "bearer"}, UNCHANGED excused
      PROVE  JInv'
  <2>1. ~Refreshing(q)
    BY <1>3 DEF Refreshing, Refers, HasFamily
  <2> QED BY <1>2, <1>3, <2>1, StopStep
<1>4. CASE /\ Go(r, [pc |-> "reference", token |-> token])
           /\ excused' = (excused \/ Stale(token) \/ Overtakes(token))
  <2>1. PICK q : q = [pc |-> "reference", token |-> token]
    OBVIOUS
  <2>2. q.pc = "reference" /\ q.token = token
    BY <2>1
  <2>3. Knows(q)
    BY <2>2 DEF Knows, Refers, HasFamily
  <2>4. ~excused' => OnTime(q)
    <3>1. ~excused' => ~Stale(token)
      BY <1>4
    <3>2. ~Stale(token) /\ Found(Refresh(token)) # None =>
            Due(token, Found(Refresh(token)).value.grant, 0)
      BY SentIsDue
    <3> QED BY <2>2, <3>1, <3>2 DEF OnTime
  <2>5. ~excused' => Presents(token)
    <3> SUFFICES ASSUME ~Overtakes(token), NEW s \in Requests, Refreshing(req[s])
                 PROVE  req[s].token = token
      BY <1>4 DEF Presents
    <3>1. "token" \in DOMAIN req[s]
      <4>1. \/ req[s] \in AtReference(minted) \/ req[s] \in AtLook(minted)
            \/ req[s] \in AtFamily(minted)
        BY RequestKnows DEF JInv, IInv, Types, Refreshing, Refers, HasFamily, Versioned
      <4> QED BY <4>1 DEF AtReference, AtLook, AtFamily
    <3>2. req[s].pc \notin {"redeem", "create", "bearer"}
      BY DEF Refreshing, Refers, HasFamily
    <3> QED BY <3>1, <3>2 DEF Overtakes
  <2>6. excused => excused'
    BY <1>4
  <2> QED BY <1>2, <1>4, <2>1, <2>2, <2>3, <2>4, <2>5, <2>6, ElsewhereStep
<1>5. CASE UNCHANGED excused /\ \/ Go(r, [pc |-> "callback"])
                                \/ Go(r, [pc |-> "redeem", token |-> token])
  BY <1>3, <1>5
<1>6. ASSUME NEW late, Go(r, [pc |-> "bearer", token |-> token, late |-> late]), UNCHANGED excused
      PROVE  JInv'
  BY <1>3, <1>6
<1> QED BY <1>1, <1>4, <1>5, <1>6

\* A refresh goes on with its token.
LEMMA GoesOnStep ==
  ASSUME JInv, IInv', UNCHANGED <<now, store, minted, excused, wrongs>>,
         NEW r \in Requests, Refreshing(req[r]), NEW q, Go(r, q), q.token = req[r].token,
         Knows(q), ~excused => OnTime(q),
         Carries(req[r]) => Doomed(req[r].grant) \/ (Carries(q) /\ q.grant = req[r].grant)
  PROVE  JInv'
<1>1. ~excused' => OnTime(q)
  OBVIOUS
<1>2. ~excused' /\ Refreshing(q) => Presents(q.token)
  BY PresentsOn
<1>3. (excused => excused') /\ "unjust" \notin wrongs' /\ RecordsStay
  BY RecordsUnchanged DEF JInv
<1> QED BY <1>1, <1>2, <1>3, ElsewhereStep

\* ... or ends, without a family in hand.
LEMMA StopsHere ==
  ASSUME JInv, IInv', UNCHANGED <<now, store, minted, excused, wrongs>>,
         NEW r \in Requests, ~Carries(req[r]), Go(r, Idle)
  PROVE  JInv'
<1>1. ~Refreshing(Idle)
  BY DEF Idle, Refreshing, Refers, HasFamily
<1>2. (excused => excused') /\ "unjust" \notin wrongs' /\ RecordsStay
  BY RecordsUnchanged DEF JInv
<1> QED BY <1>1, <1>2, StopStep

LEMMA ReferenceOnTime ==
  ASSUME JInv, IInv', NEW r \in Requests, ReadReference(r)
  PROVE  JInv'
<1>1. PICK ref, t : ref = Found(Refresh(t)) /\ t = req[r].token
  OBVIOUS
<1>2. /\ UNCHANGED <<now, store, minted, excused, wrongs>> /\ req[r].pc = "reference"
      /\ IF ref = None THEN Go(r, Idle)
         ELSE Go(r, [pc |-> "look", token |-> t, grant |-> ref.value.grant,
                     generation |-> ref.value.generation, until |-> now + Inflight])
  BY <1>1 DEF ReadReference, At, Done
<1>3. ~Carries(req[r]) /\ Refreshing(req[r])
  BY <1>2 DEF Carries, Refreshing
<1>4. CASE ref = None
  BY <1>2, <1>3, <1>4, StopsHere
<1>5. CASE ref # None
  <2>1. PICK q : q = [pc |-> "look", token |-> t, grant |-> ref.value.grant,
                      generation |-> ref.value.generation, until |-> now + Inflight]
    OBVIOUS
  <2>2. /\ q.pc = "look" /\ q.token = t /\ q.grant = ref.value.grant
        /\ q.generation = ref.value.generation
    BY <2>1
  <2>3. In(Refresh(t)) /\ ref = store[Refresh(t)]
    BY <1>1, <1>5, FoundIs DEF In
  <2>4. ref.value \in References(minted)
    BY <2>3 DEF JInv, IInv, Types, StoreTypes, In
  <2>5. RefersTo(t, q.grant, q.generation)
    BY <2>2, <2>3, <2>4 DEF RefersTo, References
  <2>6. Knows(q)
    BY <2>2, <2>5 DEF Knows, HasFamily
  <2>7. ~excused => OnTime(q)
    <3> SUFFICES ASSUME ~excused PROVE OnTime(q)
      OBVIOUS
    <3>1. OnTime(req[r])
      BY DEF JInv, Timely
    <3>2. Due(t, q.grant, 0)
      BY <1>1, <1>2, <1>5, <2>2, <3>1 DEF OnTime
    <3> QED BY <2>2, <3>2 DEF OnTime
  <2> QED BY <1>1, <1>2, <1>3, <1>5, <2>1, <2>2, <2>6, <2>7, GoesOnStep
<1> QED BY <1>4, <1>5

\* What a request knows of its grant.
LEMMA KnowsGrant ==
  ASSUME JInv, NEW r \in Requests, Refers(req[r]), NEW g, g = req[r].grant
  PROVE  /\ In(Family(g)) /\ RefersTo(req[r].token, g, req[r].generation)
         /\ Sane(Fam(g), g) /\ Types /\ Recorded
BY RefersFamily DEF JInv, IInv, Known, Recorded, Knows

LEMMA LookRecord ==
  ASSUME JInv, NEW r \in Requests, req[r].pc \in {"look", "waiting"},
         NEW pc \in {"look", "waiting", "revoke"}, NEW q, q = To(r, pc)
  PROVE  /\ q.pc = pc /\ q.token = req[r].token /\ q.grant = req[r].grant
         /\ q.generation = req[r].generation
         /\ Refers(req[r]) /\ Refreshing(req[r]) /\ ~Carries(req[r]) /\ Knows(q)
<1>1. req[r] \in AtLook(minted)
  BY RequestKnows DEF JInv, IInv, Types
<1>2. q.pc = pc /\ q.token = req[r].token /\ q.grant = req[r].grant /\ q.generation = req[r].generation
  BY <1>1 DEF To, AtLook
<1>3. Refers(req[r]) /\ Refreshing(req[r]) /\ ~Carries(req[r])
  BY DEF Refers, Refreshing, Carries
<1>4. Knows(q)
  BY <1>2, <1>3, KnowsGrant DEF Knows, HasFamily
<1> QED BY <1>2, <1>3, <1>4

LEMMA WakeOnTime ==
  ASSUME JInv, IInv', NEW r \in Requests, Wake(r)
  PROVE  JInv'
<1>1. UNCHANGED <<now, store, minted, excused, wrongs>> /\ req[r].pc = "waiting"
  BY DEF Wake, At
<1>2. PICK q, g, t : q = To(r, "look") /\ g = req[r].grant /\ t = req[r].token
  OBVIOUS
<1>3. /\ q.pc = "look" /\ q.token = t /\ q.grant = g
      /\ Refers(req[r]) /\ Refreshing(req[r]) /\ ~Carries(req[r]) /\ Knows(q)
  BY <1>1, <1>2, LookRecord
<1>4. ~excused => OnTime(q)
  <2> SUFFICES ASSUME ~excused PROVE OnTime(q)
    OBVIOUS
  <2>1. Due(t, g, 1)
    BY <1>1, <1>2 DEF JInv, Timely, OnTime
  <2>2. Due(t, g, 0)
    BY <1>2, <1>3, <2>1, KnowsGrant, DueSooner
  <2> QED BY <1>3, <2>2 DEF OnTime
<1>5. Go(r, q)
  BY <1>2 DEF Wake
<1> QED BY <1>1, <1>2, <1>3, <1>4, <1>5, GoesOnStep

\* The token that a family and a request refer to gives both the same generation.
LEMMA SameGeneration ==
  ASSUME NEW t, NEW g, NEW m, NEW n, RefersTo(t, g, m), RefersTo(t, g, n)
  PROVE  m = n
<1>1. [grant |-> g, generation |-> m] = [grant |-> g, generation |-> n]
  BY DEF RefersTo
<1>2. [grant |-> g, generation |-> m].generation = [grant |-> g, generation |-> n].generation
  BY <1>1
<1> QED BY <1>2

\* A look that revokes: the token is neither current nor just answered, or the one who
\* refreshes took too long.  A grant that is not over and for which nothing is excused
\* is in neither case.
LEMMA RevokesTheDoomed ==
  ASSUME JInv, ~excused, NEW r \in Requests, req[r].pc = "look", NEW g, g = req[r].grant,
         ~HasReceipt(Fam(g), req[r].token),
         IsReplay(Fam(g), req[r]) \/ (Fam(g).status = "refreshing" /\ Lapsed(Fam(g)))
  PROVE  Doomed(g)
<1>1. PICK t, f : t = req[r].token /\ f = Fam(g)
  OBVIOUS
<1>2. /\ In(Family(g)) /\ RefersTo(t, g, req[r].generation) /\ Sane(f, g) /\ Types
      /\ Refers(req[r])
  BY <1>1, KnowsGrant DEF Refers
<1>3. Timely /\ Due(t, g, 0)
  BY <1>1 DEF JInv, Timely, OnTime
<1>4. /\ f.since \in Nat /\ f.receipt.until \in Nat /\ f.receipt.access \in Nat /\ now \in Nat
      /\ Inflight \in Nat
  BY <1>1, <1>2, FamilyFacts, TimesAreNat
<1>5. CASE f.digest = t /\ IsReplay(f, req[r])
  <2>1. f.generation = req[r].generation
    BY <1>2, <1>5, SameGeneration DEF Sane
  <2> QED BY <1>1, <1>5, <2>1 DEF IsReplay
<1>6. CASE f.digest # t
  <2>1. f.receipt.digest = t /\ f.receipt.until > now + 0 => HasReceipt(f, t)
    <3>1. f.receipt.until <= f.receipt.access
      BY <1>2 DEF Sane
    <3>2. f.receipt.until > now + 0 => f.receipt.until > now /\ f.receipt.access > now
      BY <1>4, <3>1
    <3> QED BY <3>2 DEF HasReceipt
  <2> QED BY <1>1, <1>3, <1>6, <2>1 DEF Due
<1>7. CASE f.status = "refreshing" /\ Lapsed(f)
  <2>1. Doomed(g) \/ f.since + Inflight > now
    BY <1>1, <1>2, <1>3, <1>7 DEF Timely, Attended
  <2>2. f.since + Inflight <= now
    BY <1>7 DEF Lapsed
  <2> QED BY <1>4, <2>1, <2>2
<1> QED BY <1>1, <1>5, <1>6, <1>7

LEMMA LookOnTime ==
  ASSUME JInv, IInv', NEW r \in Requests, Look(r)
  PROVE  JInv'
<1>1. PICK g, t, entry : g = req[r].grant /\ t = req[r].token /\ entry = Found(Family(g))
  OBVIOUS
<1>2. UNCHANGED <<now, store, minted, excused, wrongs>> /\ req[r].pc = "look"
  BY DEF Look, At
<1>3. /\ In(Family(g)) /\ RefersTo(t, g, req[r].generation) /\ Sane(Fam(g), g) /\ Types /\ Recorded
      /\ Refers(req[r]) /\ Refreshing(req[r]) /\ ~Carries(req[r])
  <2>1. Refers(req[r]) /\ Refreshing(req[r]) /\ ~Carries(req[r])
    BY <1>2 DEF Refers, Refreshing, Carries
  <2> QED BY <1>1, <2>1, KnowsGrant
<1>4. entry # None => entry.value = Fam(g) /\ entry.version = Ver(g)
  BY <1>1, <1>3, FamilyFound
<1> DEFINE claim == [pc |-> "claim", token |-> t, grant |-> g,
                     generation |-> req[r].generation, until |-> req[r].until,
                     version |-> entry.version,
                     family |-> [entry.value EXCEPT !.status = "refreshing", !.since = now]]
<1>5. \/ Go(r, Idle)
      \/ /\ entry # None /\ ~HasReceipt(entry.value, t)
         /\ \/ /\ \/ IsReplay(entry.value, req[r])
                  \/ entry.value.status = "refreshing" /\ Lapsed(entry.value)
               /\ Go(r, To(r, "revoke"))
            \/ ~IsReplay(entry.value, req[r]) /\ Go(r, To(r, "waiting"))
            \/ ~IsReplay(entry.value, req[r]) /\ Go(r, claim)
  <2>1. CASE entry = None
    BY <1>1, <2>1 DEF Look, Done
  <2>2. CASE entry # None /\ entry.value.status = "revoked"
    BY <1>1, <2>2 DEF Look, Done
  <2>3. CASE entry # None /\ entry.value.status # "revoked"
    <3>1. IF HasReceipt(entry.value, t)
          THEN Answer(r, t, entry.value.receipt.pair)
          ELSE IF \/ IsReplay(entry.value, req[r])
                  \/ entry.value.status = "refreshing" /\ Lapsed(entry.value)
               THEN Go(r, To(r, "revoke"))
               ELSE IF entry.value.status = "refreshing"
               THEN IF now >= req[r].until THEN Done(r) ELSE Go(r, To(r, "waiting"))
               ELSE Go(r, claim)
      BY <1>1, <2>3 DEF Look
    <3> HIDE DEF claim
    <3> QED BY <2>3, <3>1 DEF Answer, Done
  <2> QED BY <2>1, <2>2, <2>3
<1>6. CASE Go(r, Idle)
  BY <1>2, <1>3, <1>6, StopsHere
<1>7. CASE /\ entry # None /\ ~HasReceipt(entry.value, t) /\ Go(r, To(r, "revoke"))
           /\ \/ IsReplay(entry.value, req[r])
              \/ entry.value.status = "refreshing" /\ Lapsed(entry.value)
  <2>1. PICK q : q = To(r, "revoke")
    OBVIOUS
  <2>2. q.pc = "revoke" /\ q.token = t /\ q.grant = g /\ Knows(q)
    BY <1>1, <1>2, <2>1, LookRecord
  <2>3. ~excused => OnTime(q)
    <3>1. ~excused => Doomed(g)
      BY <1>1, <1>2, <1>4, <1>7, RevokesTheDoomed
    <3> QED BY <2>2, <3>1 DEF OnTime
  <2> QED BY <1>1, <1>2, <1>3, <1>7, <2>1, <2>2, <2>3, GoesOnStep
<1>8. CASE entry # None /\ ~IsReplay(entry.value, req[r]) /\ Go(r, To(r, "waiting"))
  <2>1. PICK q : q = To(r, "waiting")
    OBVIOUS
  <2>2. q.pc = "waiting" /\ q.token = t /\ q.grant = g /\ Knows(q)
    BY <1>1, <1>2, <2>1, LookRecord
  <2>3. OnTime(q)
    BY <1>1, <1>4, <1>8, <2>2 DEF OnTime, Due, IsReplay
  <2> QED BY <1>1, <1>2, <1>3, <1>8, <2>1, <2>2, <2>3, GoesOnStep
<1>9. CASE entry # None /\ ~IsReplay(entry.value, req[r]) /\ Go(r, claim)
  <2>1. PICK f : f = [entry.value EXCEPT !.status = "refreshing", !.since = now]
    OBVIOUS
  <2>2. /\ f.digest = Fam(g).digest /\ f.generation = Fam(g).generation /\ f.since = now
        /\ f.expires = Fam(g).expires /\ f.receipt = Fam(g).receipt
    <3>1. Fam(g) \in Families(minted)
      BY <1>3, FamilyFacts
    <3> QED BY <1>4, <1>9, <2>1, <3>1 DEF Families
  <2>3. PICK q : q = claim
    OBVIOUS
  <2>4. q.pc = "claim" /\ q.token = t /\ q.grant = g /\ q.generation = req[r].generation
        /\ q.family = f
    BY <2>1, <2>3
  <2>5. Knows(q)
    BY <1>3, <2>2, <2>4 DEF Knows, Sane
  <2>6. Fam(g).digest = t
    BY <1>1, <1>4, <1>9 DEF IsReplay
  <2>7. OnTime(q)
    BY <2>2, <2>4, <2>6 DEF OnTime, Due
  <2>8. Go(r, q)
    BY <1>9, <2>3
  <2> QED BY <1>1, <1>2, <1>3, <2>4, <2>5, <2>7, <2>8, GoesOnStep
<1> HIDE DEF claim
<1> QED BY <1>5, <1>6, <1>7, <1>8, <1>9

LEMMA ReadToRevokeOnTime ==
  ASSUME JInv, IInv', NEW r \in Requests, ReadToRevoke(r)
  PROVE  JInv'
<1>1. PICK g, t, entry : g = req[r].grant /\ t = req[r].token /\ entry = Found(Family(g))
  OBVIOUS
<1>2. UNCHANGED <<now, store, minted, excused, wrongs>> /\ req[r].pc = "revoke"
  BY DEF ReadToRevoke, At
<1>3. /\ In(Family(g)) /\ RefersTo(t, g, req[r].generation) /\ Sane(Fam(g), g) /\ Types /\ Recorded
      /\ Refers(req[r]) /\ Refreshing(req[r]) /\ ~Carries(req[r])
  <2>1. Refers(req[r]) /\ Refreshing(req[r]) /\ ~Carries(req[r])
    BY <1>2 DEF Refers, Refreshing, Carries
  <2> QED BY <1>1, <2>1, KnowsGrant
<1>4. CASE entry = None
  BY <1>1, <1>2, <1>3, <1>4, StopsHere DEF ReadToRevoke, Done
<1>5. CASE entry # None
  <2>1. PICK pc : pc = IF entry.value.status = "revoked" THEN "cleanup" ELSE "swap"
    OBVIOUS
  <2>2. PICK q : q = [pc |-> pc, token |-> t, grant |-> g, generation |-> req[r].generation,
                      until |-> req[r].until, version |-> entry.version, family |-> entry.value]
    OBVIOUS
  <2>3. Go(r, q)
    BY <1>1, <1>5, <2>1, <2>2 DEF ReadToRevoke
  <2>4. q.pc = pc /\ q.token = t /\ q.grant = g /\ q.generation = req[r].generation
        /\ q.family = Fam(g)
    BY <1>1, <1>3, <1>5, <2>2, FamilyFound
  <2>5. pc = "cleanup" \/ (pc = "swap" /\ Fam(g).status # "revoked")
    BY <2>1, <2>2, <2>4
  <2>6. Knows(q)
    BY <1>3, <2>4, <2>5 DEF Knows
  <2>7. ~excused => OnTime(q)
    <3> SUFFICES ASSUME ~excused PROVE OnTime(q)
      OBVIOUS
    <3>1. Doomed(g)
      BY <1>1, <1>2 DEF JInv, Timely, OnTime
    <3> QED BY <2>4, <2>5, <3>1 DEF OnTime
  <2> QED BY <1>1, <1>2, <1>3, <2>3, <2>4, <2>6, <2>7, GoesOnStep
<1> QED BY <1>4, <1>5

\* Giving up leads to a revocation of what is over.
LEMMA GivesUpStep ==
  ASSUME JInv, IInv', NEW r \in Requests, req[r].pc \in {"upstream", "reread", "commit"},
         Go(r, ToRevoke(r)), UNCHANGED <<now, store, minted, wrongs>>, excused => excused',
         excused' \/ Doomed(req[r].grant)
  PROVE  JInv'
<1>1. PICK q, g : q = ToRevoke(r) /\ g = req[r].grant
  OBVIOUS
<1>2. /\ q.pc = "revoke" /\ q.token = req[r].token /\ q.grant = g
      /\ q.generation = req[r].generation
  BY <1>1 DEF ToRevoke
<1>3. Refers(req[r]) /\ Refreshing(req[r])
  BY DEF Refers, Refreshing, HasFamily
<1>4. Knows(q)
  BY <1>1, <1>2, <1>3, KnowsGrant DEF Knows, HasFamily
<1>5. ~excused' => OnTime(q)
  BY <1>1, <1>2 DEF OnTime
<1>6. ~excused' /\ Refreshing(q) => Presents(q.token)
  BY <1>2, <1>3, PresentsOn
<1>7. "unjust" \notin wrongs' /\ RecordsStay
  BY RecordsUnchanged DEF JInv
<1>8. Carries(req[r]) => excused' \/ Doomed(req[r].grant)
  OBVIOUS
<1> QED BY <1>1, <1>4, <1>5, <1>6, <1>7, <1>8, ElsewhereStep

\* Who carries a family finds it still claimed, or the grant is over.
LEMMA ClaimStands ==
  ASSUME JInv, NEW r \in Requests, Carries(req[r]), NEW g, g = req[r].grant,
         NEW entry, entry = Found(Family(g)),
         entry = None \/ ~StillClaimed(entry.value, req[r])
  PROVE  Doomed(g)
<1>1. Refers(req[r])
  BY DEF Carries, Refers, HasFamily
<1>2. /\ In(Family(g)) /\ RefersTo(req[r].token, g, req[r].generation) /\ Sane(Fam(g), g)
      /\ Types /\ Recorded
  BY <1>1, KnowsGrant
<1>3. CASE entry = None
  BY <1>2, <1>3, FamilyFound
<1>4. CASE entry # None
  <2>1. entry.value = Fam(g)
    BY <1>2, <1>4, FamilyFound
  <2>2. Fam(g).digest = req[r].token /\ Fam(g).status \in {"refreshing", "revoked"}
    BY DEF JInv, IInv, ReadsFit, Reads
  <2>3. Fam(g).generation = req[r].generation
    BY <1>2, <2>2, SameGeneration DEF Sane
  <2> QED BY <1>4, <2>1, <2>2, <2>3 DEF StillClaimed, Doomed
<1> QED BY <1>3, <1>4

LEMMA RereadOnTime ==
  ASSUME JInv, IInv', NEW r \in Requests, Reread(r)
  PROVE  JInv'
<1>1. PICK g, t, entry, old : g = req[r].grant /\ t = req[r].token /\ entry = Found(Family(g))
                              /\ old = req[r].family
  OBVIOUS
<1>2. UNCHANGED <<now, store, minted, excused, wrongs>> /\ req[r].pc = "reread"
  BY DEF Reread, At
<1>3. Refers(req[r]) /\ Refreshing(req[r]) /\ Carries(req[r]) /\ Renewed(req[r]) /\ HasFamily(req[r])
  BY <1>2 DEF Refers, Refreshing, Carries, HasFamily, Renewed
<1>4. /\ In(Family(g)) /\ RefersTo(t, g, req[r].generation) /\ Types /\ Recorded /\ ReadsFit
  BY <1>1, <1>3, KnowsGrant DEF JInv, IInv
<1>5. CASE entry = None \/ ~StillClaimed(entry.value, req[r])
  <2>1. Doomed(g)
    BY <1>1, <1>3, <1>5, ClaimStands
  <2>2. Go(r, ToRevoke(r))
    BY <1>1, <1>5 DEF Reread
  <2> QED BY <1>1, <1>2, <2>1, <2>2, GivesUpStep
<1>6. CASE entry # None /\ StillClaimed(entry.value, req[r])
  <2>1. PICK until : until = Min(now + Receipt, old.receipt.access)
    OBVIOUS
  <2>2. Go(r, [req[r] EXCEPT !.pc = "commit", !.version = entry.version,
                             !.family.receipt.until = until])
    BY <1>1, <1>6, <2>1 DEF Reread
  <2>3. PICK f : f = [old EXCEPT !.receipt.until = until]
    OBVIOUS
  <2>4. PICK q : q = [req[r] EXCEPT !.pc = "commit", !.version = entry.version, !.family = f]
    OBVIOUS
  <2>5. Go(r, q)
    BY <1>1, <2>2, <2>3, <2>4
  <2>6. /\ req[r] \in AtFamily(minted) /\ old \in Families(minted)
        /\ old.receipt \in [digest : Pairs(minted), until : Nat, pair : Pairs(minted), access : Nat]
    BY <1>1, <1>3, <1>4, FamilyKnows, RenewedHasReceipt, PlacesAre
  <2>7. /\ q.pc = "commit" /\ q.token = t /\ q.grant = g /\ q.generation = req[r].generation
        /\ q.version = entry.version /\ q.family = f
    BY <1>1, <2>4, <2>6 DEF AtFamily
  <2>8. /\ f.digest = old.digest /\ f.generation = old.generation /\ f.expires = old.expires
        /\ f.receipt.until = until /\ f.receipt.access = old.receipt.access
    BY <2>3, <2>6 DEF Families
  <2>9. /\ now \in Nat /\ Receipt \in Nat /\ old.receipt.access \in Nat
        /\ until <= old.receipt.access /\ (old.receipt.access > now + 1 => until > now + 1)
    BY <1>4, <2>1, <2>6, FamilyFacts, TimesAreNat, MarginsAssumption DEF Min
  <2>10. Knows(q)
    <3>1. old.expires = Fam(g).expires /\ Sane(old, g)
      BY <1>1, <1>3 DEF JInv, Known, Knows
    <3>2. Sane(f, g)
      BY <2>8, <2>9, <3>1 DEF Sane
    <3> QED BY <1>4, <2>7, <2>8, <3>1, <3>2 DEF Knows
  <2>11. ~excused => OnTime(q)
    <3> SUFFICES ASSUME ~excused PROVE OnTime(q)
      OBVIOUS
    <3>1. Doomed(g) \/ old.receipt.access > now + 1
      BY <1>1, <1>2 DEF JInv, Timely, OnTime
    <3>2. entry.version = Ver(g)
      BY <1>1, <1>4, <1>6, FamilyFound
    <3> QED BY <2>7, <2>8, <2>9, <3>1, <3>2 DEF OnTime
  <2>12. Carries(q)
    BY <2>7 DEF Carries
  <2> QED BY <1>1, <1>2, <1>3, <2>5, <2>7, <2>10, <2>11, <2>12, GoesOnStep
<1> QED BY <1>5, <1>6

------------------------------------------------------------------------------
(* New references and new grants. *)

\* What the two records of a new pair write, and what they leave alone.
LEMMA WithPairIs ==
  ASSUME NEW s, NEW pair, NEW g, NEW generation, NEW access, NEW expires,
         s = WithPair(pair, g, generation, access, expires)
  PROVE  /\ DOMAIN s = DOMAIN store \union {Access(pair), Refresh(pair)}
         /\ \A k \in DOMAIN store : k \notin {Access(pair), Refresh(pair)} => s[k] = store[k]
         /\ s[Refresh(pair)].value = [grant |-> g, generation |-> generation]
<1>1. PICK s1 : s1 = Put(store, Access(pair), [grant |-> g, generation |-> generation, expires |-> access], access)
  OBVIOUS
<1>2. s = Put(s1, Refresh(pair), [grant |-> g, generation |-> generation], expires)
  BY <1>1 DEF WithPair
<1>3. /\ DOMAIN s1 = DOMAIN store \union {Access(pair)}
      /\ \A k \in DOMAIN store : k # Access(pair) => s1[k] = store[k]
  BY <1>1 DEF Put
<1>4. /\ DOMAIN s = DOMAIN s1 \union {Refresh(pair)}
      /\ \A k \in DOMAIN s1 : k # Refresh(pair) => s[k] = s1[k]
      /\ s[Refresh(pair)].value = [grant |-> g, generation |-> generation]
  BY <1>2 DEF Put
<1> QED BY <1>3, <1>4

\* A new pair is new.
LEMMA NewPair ==
  ASSUME Types, Recorded, NEW n, n = minted + 1, NEW pair, pair = <<"pair", n>>
  PROVE  /\ n \in Nat /\ minted \in Nat /\ pair \in Pairs(n) /\ pair \notin Pairs(minted)
         /\ ~In(Refresh(pair)) /\ ~In(Family(n))
<1>1. minted \in Nat /\ n \in Nat /\ n \in 1..n /\ n \notin 1..minted
  BY DEF Types
<1>2. pair \in Pairs(n) /\ pair \notin Pairs(minted)
  BY <1>1, MadeTokens, NewTokens
<1> QED BY <1>1, <1>2 DEF Recorded, Types, StoreTypes, In

\* The upstream fails, answers too late, or answers with a new pair.
LEMMA UpstreamDoes ==
  ASSUME NEW r \in Requests, Upstream(r), NEW old, old = req[r].family,
         NEW pair, pair = <<"pair", minted + 1>>,
         NEW access, access = Min(now + AssertionTtl, old.expires)
  PROVE  /\ req[r].pc = "upstream" /\ UNCHANGED <<now, wrongs>>
         /\ \/ Go(r, ToRevoke(r)) /\ excused' = TRUE /\ UNCHANGED <<store, minted>>
            \/ /\ old.expires <= now
               /\ Go(r, ToRevoke(r)) /\ UNCHANGED <<store, minted, excused>>
            \/ /\ old.expires > now /\ minted' = minted + 1 /\ UNCHANGED excused
               /\ store' = WithPair(pair, req[r].grant, old.generation + 1, access, old.expires)
               /\ \E upstream :
                    Go(r, [req[r] EXCEPT !.pc = "reread",
                             !.family = Rotated(old, req[r].token, pair, access, upstream)])
<1>1. req[r].pc = "upstream" /\ UNCHANGED <<now, wrongs>>
  BY DEF Upstream, At
<1>2. ASSUME NEW rotates \in BOOLEAN
      PROVE  [req[r] EXCEPT !.pc = "reread",
                !.family = [old EXCEPT
                   !.generation = @ + 1, !.status = "active", !.since = 0,
                   !.assertion = now + AssertionTtl, !.digest = pair,
                   !.upstream = IF rotates THEN minted + 1 ELSE @,
                   !.receipt = [digest |-> req[r].token, until |-> 0,
                                pair |-> pair, access |-> access]]]
             = [req[r] EXCEPT !.pc = "reread",
                  !.family = Rotated(old, req[r].token, pair, access,
                               IF rotates THEN minted + 1 ELSE old.upstream)]
  BY DEF Rotated
<1> QED BY <1>1, <1>2 DEF Upstream

LEMMA UpstreamOnTime ==
  ASSUME JInv, IInv', NEW r \in Requests, Upstream(r)
  PROVE  JInv'
<1>1. PICK g, t, old, n, pair, access :
        /\ g = req[r].grant /\ t = req[r].token /\ old = req[r].family /\ n = minted + 1
        /\ pair = <<"pair", n>> /\ access = Min(now + AssertionTtl, old.expires)
  OBVIOUS
<1>2. /\ req[r].pc = "upstream" /\ UNCHANGED <<now, wrongs>>
      /\ \/ Go(r, ToRevoke(r)) /\ excused' = TRUE /\ UNCHANGED <<store, minted>>
         \/ /\ old.expires <= now
            /\ Go(r, ToRevoke(r)) /\ UNCHANGED <<store, minted, excused>>
         \/ /\ old.expires > now /\ minted' = minted + 1 /\ UNCHANGED excused
            /\ store' = WithPair(pair, g, old.generation + 1, access, old.expires)
            /\ \E upstream :
                 Go(r, [req[r] EXCEPT !.pc = "reread",
                          !.family = Rotated(old, t, pair, access, upstream)])
  BY <1>1, UpstreamDoes
<1>3. Refers(req[r]) /\ Refreshing(req[r]) /\ Carries(req[r]) /\ HasFamily(req[r])
      /\ Versioned(req[r])
  BY <1>2 DEF Refers, Refreshing, Carries, HasFamily, Versioned
<1>4. /\ In(Family(g)) /\ RefersTo(t, g, req[r].generation) /\ Types /\ Recorded
  BY <1>1, <1>3, KnowsGrant
<1>5. /\ old.expires = Fam(g).expires /\ old.expires \in Nat /\ now \in Nat /\ Receipt \in Nat
      /\ AssertionTtl \in Nat /\ req[r] \in AtFamily(minted) /\ old \in Families(minted)
  BY <1>1, <1>3, <1>4, FamilyFacts, FamilyKnows, TimesAreNat DEF JInv, Known, Knows
<1>6. CASE Go(r, ToRevoke(r)) /\ excused' = TRUE /\ UNCHANGED <<store, minted>>
  BY <1>2, <1>6, GivesUpStep
<1>7. CASE old.expires <= now /\ Go(r, ToRevoke(r)) /\ UNCHANGED <<store, minted, excused>>
  <2>1. Fam(g).expires <= now + Receipt
    BY <1>5, <1>7
  <2>2. Doomed(g)
    BY <2>1 DEF Doomed
  <2> QED BY <1>1, <1>2, <1>7, <2>2, GivesUpStep
<1>8. ASSUME old.expires > now, minted' = minted + 1, UNCHANGED excused,
             store' = WithPair(pair, g, old.generation + 1, access, old.expires),
             NEW upstream,
             Go(r, [req[r] EXCEPT !.pc = "reread",
                      !.family = Rotated(old, t, pair, access, upstream)])
      PROVE  JInv'
  <2>1. /\ DOMAIN store' = DOMAIN store \union {Access(pair), Refresh(pair)}
        /\ \A k \in DOMAIN store : k \notin {Access(pair), Refresh(pair)} => store'[k] = store[k]
        /\ store'[Refresh(pair)].value = [grant |-> g, generation |-> old.generation + 1]
    BY <1>8, WithPairIs
  <2>2. /\ minted \in Nat /\ pair \in Pairs(minted') /\ pair \notin Pairs(minted)
        /\ ~In(Refresh(pair))
    BY <1>1, <1>4, <1>8, NewPair
  <2>3. FamiliesStay /\ (\A h : In(Family(h))' => In(Family(h)))
    BY <2>1, KeysDiffer DEF FamiliesStay, In
  <2>4. ReferencesStay /\ (\A x : In(Refresh(x))' => In(Refresh(x)) \/ x = pair)
    BY <2>1, <2>2, KeysDiffer DEF ReferencesStay, In
  <2>5. RefersTo(pair, g, old.generation + 1)'
    BY <2>1 DEF RefersTo, In
  <2>6. PICK f : f = Rotated(old, t, pair, access, upstream)
    OBVIOUS
  <2>7. PICK q : q = [req[r] EXCEPT !.pc = "reread", !.family = f]
    OBVIOUS
  <2>8. Go(r, q)
    BY <1>8, <2>6, <2>7
  <2>9. /\ f.digest = pair /\ f.generation = old.generation + 1 /\ f.expires = old.expires
        /\ f.receipt.until = 0 /\ f.receipt.access = access
    BY <1>5, <2>6 DEF Rotated, Families
  <2>10. /\ q.pc = "reread" /\ q.token = t /\ q.grant = g /\ q.generation = req[r].generation
         /\ q.family = f
    BY <1>1, <1>5, <2>7 DEF AtFamily
  <2>11. access \in Nat /\ (old.expires > now + Receipt => access > now + 1)
    BY <1>1, <1>5, MarginsAssumption DEF Min
  <2>12. In(Family(g))' /\ Fam(g)' = Fam(g)
    BY <1>4, <2>3 DEF FamiliesStay, Fam
  <2>13. Knows(q)'
    <3>0. PICK gen, ex : gen = req[r].generation /\ ex = old.expires
      OBVIOUS
    <3>1. RefersTo(t, g, gen)'
      BY <1>4, <2>4, <3>0, RefersStays
    <3>2. Sane(f, g)'
      BY <2>5, <2>9, <2>11 DEF Sane, RefersTo
    <3>3. Fam(g)'.expires = f.expires
      BY <1>5, <2>9, <2>12
    <3>4. q.generation = gen
      BY <2>10, <3>0
    <3>5. (q.pc = "reread")' /\ (q.token = t)' /\ (q.grant = g)' /\ (q.family = f)'
      BY <2>10
    <3>6. q.family.expires = Fam(q.grant)'.expires /\ Sane(q.family, q.grant)'
      <4>1. Fam(q.grant)' = Fam(g)'
        BY <2>10
      <4>2. Sane(q.family, q.grant)'
        BY <2>10, <3>2
      <4> QED BY <2>10, <3>3, <4>1, <4>2
    <3>7. RefersTo(q.token, q.grant, q.generation)'
      BY <2>10, <3>1, <3>4
    <3> QED BY <2>10, <3>6, <3>7 DEF Knows
  <2>14. OnTime(q)'
    <3>1. Doomed(g)' \/ access > now' + 1
      <4>1. CASE Fam(g).expires <= now + Receipt
        <5>1. Fam(g)'.expires <= now' + Receipt
          BY <1>2, <2>12, <4>1
        <5> QED BY <5>1 DEF Doomed
      <4>2. CASE ~(Fam(g).expires <= now + Receipt)
        <5>1. old.expires > now + Receipt
          BY <1>5, <4>2
        <5> QED BY <1>2, <2>11, <5>1
      <4> QED BY <4>1, <4>2
    <3> QED BY <2>9, <2>10, <3>1 DEF OnTime
  <2>15. ~excused' /\ Refreshing(q) => Presents(q.token)
    BY <1>1, <1>3, <1>8, <2>10, PresentsOn
  <2>16. \A x : In(Refresh(x))' /\ ~In(Refresh(x)) =>
           x \in Pairs(minted') /\ In(Family(store[Refresh(x)].value.grant))'
    <3>1. In(Family(store[Refresh(pair)].value.grant))'
      BY <2>1, <2>12 DEF In
    <3> QED BY <2>2, <2>4, <3>1
  <2>17. \A x \in Pairs(minted) : In(Refresh(x))' => In(Refresh(x))
    BY <2>2, <2>4
  <2>18. Carries(q) /\ "unjust" \notin wrongs' /\ (excused => excused')
    BY <1>2, <1>8, <2>10 DEF Carries, JInv
  <2> QED BY <1>1, <1>2, <1>8, <2>3, <2>4, <2>8, <2>10, <2>13, <2>14, <2>15, <2>16, <2>17, <2>18,
             GrowStep
<1> QED BY <1>2, <1>6, <1>7, <1>8

LEMMA CreateOnTime ==
  ASSUME JInv, IInv', NEW r \in Requests, Create(r)
  PROVE  JInv'
<1>1. PICK n, code, c0, pair, plain, access :
        /\ n = minted + 1 /\ code = req[r].code /\ c0 = req[r].token
        /\ pair = <<"pair", n>> /\ plain = <<"plain", n>> /\ access = Min(code.assertion, code.expires)
  OBVIOUS
<1>2. /\ At(r, "create") /\ UNCHANGED <<now, excused, wrongs>>
      /\ \/ Done(r) /\ UNCHANGED <<store, minted>>
         \/ /\ minted' = n /\ Answer(r, c0, plain)
            /\ store' = Put(store, Access(plain),
                            [grant |-> 0, generation |-> 0, expires |-> code.assertion],
                            code.assertion)
         \/ /\ minted' = n /\ Answer(r, c0, pair)
            /\ store' = Put(WithPair(pair, n, 0, access, code.expires),
                            Family(n), NewFamily(code, pair), code.expires)
  BY <1>1, CreateIs
<1>3. /\ Types /\ Recorded /\ "unjust" \notin wrongs' /\ (excused => excused')
      /\ ~Carries(req[r]) /\ ~Refreshing(Idle)
  BY <1>2 DEF JInv, IInv, Known, At, Carries, Idle, Refreshing, Refers, HasFamily
<1>4. Go(r, Idle)
  BY <1>2 DEF Answer, Done
<1>5. CASE UNCHANGED <<store, minted>>
  BY <1>2, <1>3, <1>4, <1>5, RecordsUnchanged, StopStep
<1>6. CASE minted' = n /\ \E value, until : store' = Put(store, Access(plain), value, until)
  <2>1. RecordsStay
    BY <1>6, KeysDiffer, PutElsewhere, RecordsElsewhere
  <2> QED BY <1>1, <1>2, <1>3, <1>4, <1>6, <2>1, StopStep
<1>7. CASE /\ minted' = n
           /\ store' = Put(WithPair(pair, n, 0, access, code.expires),
                           Family(n), NewFamily(code, pair), code.expires)
  <2>1. PICK s : s = WithPair(pair, n, 0, access, code.expires)
    OBVIOUS
  <2>2. /\ DOMAIN s = DOMAIN store \union {Access(pair), Refresh(pair)}
        /\ \A k \in DOMAIN store : k \notin {Access(pair), Refresh(pair)} => s[k] = store[k]
        /\ s[Refresh(pair)].value = [grant |-> n, generation |-> 0]
    <3>1. PICK s1 : s1 = Put(store, Access(pair),
                             [grant |-> n, generation |-> 0, expires |-> access], access)
      OBVIOUS
    <3>2. s = Put(s1, Refresh(pair), [grant |-> n, generation |-> 0], code.expires)
      BY <2>1, <3>1 DEF WithPair
    <3>3. /\ DOMAIN s1 = DOMAIN store \union {Access(pair)}
          /\ \A k \in DOMAIN store : k # Access(pair) => s1[k] = store[k]
      BY <3>1 DEF Put
    <3>4. /\ DOMAIN s = DOMAIN s1 \union {Refresh(pair)}
          /\ \A k \in DOMAIN s1 : k # Refresh(pair) => s[k] = s1[k]
          /\ s[Refresh(pair)].value = [grant |-> n, generation |-> 0]
      BY <3>2 DEF Put
    <3> QED BY <3>3, <3>4
  <2>3. /\ DOMAIN store' = DOMAIN s \union {Family(n)}
        /\ \A k \in DOMAIN s : k # Family(n) => store'[k] = s[k]
        /\ store'[Family(n)].value = NewFamily(code, pair)
        /\ store'[Family(n)].until = code.expires
    BY <1>7, <2>1 DEF Put
  <2>4. /\ minted \in Nat /\ pair \in Pairs(minted') /\ pair \notin Pairs(minted)
        /\ ~In(Refresh(pair)) /\ ~In(Family(n))
    BY <1>1, <1>3, <1>7, NewPair
  <2>5. /\ DOMAIN store' = DOMAIN store \union {Access(pair), Refresh(pair), Family(n)}
        /\ \A k \in DOMAIN store : k \notin {Access(pair), Refresh(pair), Family(n)} =>
             store'[k] = store[k]
        /\ store'[Refresh(pair)].value = [grant |-> n, generation |-> 0]
    BY <2>2, <2>3, KeysDiffer
  <2>6. FamiliesStay /\ (\A h : In(Family(h))' => In(Family(h)) \/ h = n)
    BY <2>4, <2>5, KeysDiffer DEF FamiliesStay, In
  <2>7. ReferencesStay /\ (\A x : In(Refresh(x))' => In(Refresh(x)) \/ x = pair)
    BY <2>4, <2>5, KeysDiffer DEF ReferencesStay, In
  <2>8. RefersTo(pair, n, 0)' /\ In(Family(n))'
    BY <2>5 DEF RefersTo, In
  <2>9. PICK f : f = NewFamily(code, pair)
    OBVIOUS
  <2>10. /\ f.digest = pair /\ f.generation = 0 /\ f.receipt.until = 0 /\ f.receipt.access = 0
         /\ f.expires = code.expires /\ f.status = "active"
    BY <2>9 DEF NewFamily, NoReceipt
  <2>11. Fam(n)' = f
    BY <2>3, <2>9 DEF Fam
  <2>12. /\ store'[Family(n)].until = Fam(n)'.expires /\ Sane(Fam(n), n)'
         /\ Fam(n)'.status # "refreshing"
    BY <2>3, <2>8, <2>10, <2>11 DEF Sane, RefersTo
  <2>13. \A h : In(Family(h))' /\ ~In(Family(h)) =>
           /\ store'[Family(h)].until = Fam(h)'.expires /\ Sane(Fam(h), h)'
           /\ Fam(h)'.status # "refreshing"
    <3> SUFFICES ASSUME NEW h, In(Family(h))', ~In(Family(h))
                 PROVE  /\ store'[Family(h)].until = Fam(h)'.expires /\ Sane(Fam(h), h)'
                        /\ Fam(h)'.status # "refreshing"
      OBVIOUS
    <3>1. h = n
      BY <2>6
    <3> QED BY <2>12, <3>1 DEF Sane, RefersTo, Fam, In
  <2>14. \A x : In(Refresh(x))' /\ ~In(Refresh(x)) =>
           x \in Pairs(minted') /\ In(Family(store[Refresh(x)].value.grant))'
    <3>1. In(Family(store[Refresh(pair)].value.grant))'
      BY <2>5, <2>8 DEF In
    <3> QED BY <2>4, <2>7, <3>1
  <2>15. \A x \in Pairs(minted) : In(Refresh(x))' => In(Refresh(x))
    BY <2>4, <2>7
  <2>16. Knows(Idle)' /\ OnTime(Idle)'
    BY <1>3, NothingDue
  <2> QED BY <1>1, <1>2, <1>3, <1>4, <1>7, <2>6, <2>7, <2>13, <2>14, <2>15, <2>16, GrowStep
<1> QED BY <1>2, <1>5, <1>6, <1>7

------------------------------------------------------------------------------
(* The clock. *)

LEMMA LaterIsDue ==
  ASSUME Types, UNCHANGED store, now' = now + 1, NEW g, In(Family(g))
  PROVE  /\ Fam(g)' = Fam(g)
         /\ Doomed(g) => Doomed(g)'
         /\ \A t : Due(t, g, 1) => Due(t, g, 0)'
<1>1. Fam(g)' = Fam(g)
  BY DEF Fam
<1>2. /\ Fam(g).expires \in Nat /\ Fam(g).receipt.until \in Nat /\ now \in Nat /\ Receipt \in Nat
  BY FamilyFacts, TimesAreNat
<1>3. Fam(g).expires <= now + Receipt => Fam(g)'.expires <= now' + Receipt
  BY <1>1, <1>2
<1>4. Fam(g).receipt.until > now + 1 => Fam(g)'.receipt.until > now' + 0
  BY <1>1, <1>2
<1>5. Doomed(g) => Doomed(g)'
  BY <1>1, <1>3 DEF Doomed
<1> QED BY <1>1, <1>4, <1>5 DEF Due

\* A tick finds only waiting and upstream calls, or it excuses.
LEMMA TickOnTime ==
  ASSUME JInv, IInv', Tick
  PROVE  JInv'
<1>1. /\ now' = now + 1 /\ UNCHANGED <<store, minted, wrongs>>
      /\ Types /\ Known /\ Recorded /\ (excused \/ Timely) /\ "unjust" \notin wrongs'
      /\ minted \in Nat /\ now \in Nat
  BY DEF Tick, JInv, IInv, Known, Types
<1>2. \A s \in Requests :
        req'[s] = IF req[s].pc = "waiting" THEN To(s, "look") ELSE req[s]
  BY DEF Tick
<1>3. ReferencesStay /\ ExpiryStays
  BY <1>1 DEF ReferencesStay, ExpiryStays, In, Fam
<1>4. ASSUME NEW s \in Requests, req[s].pc = "waiting"
      PROVE  /\ req'[s].pc = "look" /\ req'[s].token = req[s].token /\ req'[s].grant = req[s].grant
             /\ Refers(req[s]) /\ Knows(req[s])'
  <2>1. PICK q : q = To(s, "look")
    OBVIOUS
  <2>2. /\ q.pc = "look" /\ q.token = req[s].token /\ q.grant = req[s].grant
        /\ Refers(req[s]) /\ Knows(q)
    BY <1>4, <2>1, LookRecord
  <2>3. Knows(q)' /\ req'[s] = q
    BY <1>1, <1>2, <1>3, <1>4, <2>1, <2>2, KnowsStays
  <2> QED BY <2>2, <2>3 DEF Knows, Refers, HasFamily, RefersTo, Sane, Fam, In
<1>5. Known'
  <2>1. \A s \in Requests : req'[s] = req[s] \/ Knows(req[s])'
    BY <1>2, <1>4
  <2>2. /\ \A g : In(Family(g))' => In(Family(g)) /\ store'[Family(g)] = store[Family(g)]
        /\ \A t : In(Refresh(t))' => In(Refresh(t))
    BY <1>1 DEF In
  <2> QED BY <1>1, <1>3, <2>1, <2>2, KnownStep
<1>6. ASSUME ~excused' PROVE Timely'
  <2>1. /\ OneToken /\ (\A s \in Requests : OnTime(req[s])) /\ Attended
        /\ \A s \in Requests :
             /\ req[s].pc \notin {"reference", "look", "claim", "reread", "commit", "revoke", "swap"}
             /\ req[s].pc = "upstream" => ~(req[s].family.since + Inflight <= now + 1)
    BY <1>1, <1>6 DEF Tick, Timely
  <2>2. ASSUME NEW s \in Requests, Refreshing(req'[s])
        PROVE  Refreshing(req[s]) /\ req'[s].token = req[s].token
    <3>1. CASE req[s].pc = "waiting"
      BY <1>4, <3>1 DEF Refreshing, Refers
    <3> QED BY <1>2, <2>2, <3>1
  <2>3. OneToken'
    <3>1. ASSUME NEW r \in Requests, NEW s \in Requests, Refreshing(req'[r]), Refreshing(req'[s])
          PROVE  req'[r].token = req'[s].token
      BY <2>1, <2>2, <3>1 DEF OneToken
    <3> QED BY <3>1 DEF OneToken, Refreshing, Refers, HasFamily
  <2>4. ASSUME NEW s \in Requests PROVE OnTime(req[s])'
    <3>1. CASE req[s].pc = "waiting"
      <4>1. PICK g, t : g = req[s].grant /\ t = req[s].token
        OBVIOUS
      <4>2. In(Family(g)) /\ Due(t, g, 1)
        BY <1>4, <2>1, <3>1, <4>1, KnowsGrant DEF OnTime
      <4>3. Due(t, g, 0)'
        BY <1>1, <4>2, LaterIsDue
      <4>4. (req[s].token)' = t /\ (req[s].grant)' = g /\ (req[s].pc)' = "look"
        BY <1>4, <3>1, <4>1
      <4> QED BY <4>3, <4>4 DEF OnTime, Due, Doomed, Fam
    <3>2. CASE req[s].pc = "upstream"
      <4>1. PICK g, q : g = req[s].grant /\ q = req[s]
        OBVIOUS
      <4>2. In(Family(g)) /\ (Doomed(g) \/ q.family.since = Fam(g).since)
        BY <2>1, <3>2, <4>1, KnowsGrant DEF OnTime, Refers, HasFamily
      <4>3. Doomed(g)' \/ q.family.since = Fam(g)'.since
        BY <1>1, <4>2, LaterIsDue
      <4>4. (req[s])' = q /\ q.pc = "upstream" /\ q.grant = g
        BY <1>2, <3>2, <4>1
      <4> QED BY <4>3, <4>4 DEF OnTime, Doomed, Fam
    <3>3. CASE req[s].pc \notin {"waiting", "upstream"}
      <4>1. req'[s].pc \notin {"reference", "look", "claim", "reread", "commit", "revoke", "swap",
                               "waiting", "upstream"}
        BY <1>2, <2>1, <3>3
      <4> QED BY <4>1 DEF OnTime
    <3> QED BY <3>1, <3>2, <3>3
  <2>5. Attended'
    <3> SUFFICES ASSUME NEW g, In(Family(g))', Fam(g)'.status = "refreshing", ~Doomed(g)'
                 PROVE  /\ Fam(g)'.since + Inflight > now'
                        /\ \E s \in Requests : Carries(req'[s]) /\ req'[s].grant = g
      BY DEF Attended, Carries
    <3>1. In(Family(g))
      BY <1>1 DEF In
    <3>2. Fam(g)' = Fam(g) /\ ~Doomed(g)
      BY <1>1, <3>1, LaterIsDue
    <3>3. PICK s \in Requests : Carries(req[s]) /\ req[s].grant = g
      BY <2>1, <3>1, <3>2 DEF Attended
    <3>4. req[s].pc = "upstream"
      BY <2>1, <3>3 DEF Carries
    <3>5. req[s].family.since = Fam(g).since
      BY <2>1, <3>2, <3>3, <3>4 DEF OnTime
    <3>6. ~(Fam(g).since + Inflight <= now + 1)
      BY <2>1, <3>4, <3>5
    <3>7. Fam(g).since \in Nat /\ Inflight \in Nat
      BY <1>1, <3>1, FamilyFacts, TimesAreNat
    <3>8. req'[s] = req[s]
      BY <1>2, <3>4
    <3> QED BY <1>1, <3>2, <3>3, <3>6, <3>7, <3>8
  <2> QED BY <2>3, <2>4, <2>5 DEF Timely
<1> QED BY <1>1, <1>5, <1>6 DEF JInv

------------------------------------------------------------------------------
(* Steps that write a family. *)

\* What a write of a family leaves of being due, for the token that is presented.
LEMMA DueThrough ==
  ASSUME NEW g, NEW f, NEW t, Writes(g, f), UNCHANGED now, f.expires = Fam(g).expires,
         Fam(g).status = "revoked" => f.status = "revoked",
         \A while \in {0, 1} : Due(t, g, while) => Due(t, g, while)',
         NEW h, In(Family(h))
  PROVE  /\ h # g => Fam(h)' = Fam(h) /\ Ver(h)' = Ver(h)
         /\ Doomed(h) => Doomed(h)'
         /\ Due(t, h, 0) => Due(t, h, 0)'
         /\ Due(t, h, 1) => Due(t, h, 1)'
<1>1. CASE h = g
  <2>1. Fam(g)' = f
    BY DEF Writes
  <2>2. Doomed(g) => Doomed(g)'
    BY <2>1 DEF Doomed
  <2>3. (Due(t, g, 0) => Due(t, g, 0)') /\ (Due(t, g, 1) => Due(t, g, 1)')
    OBVIOUS
  <2> QED BY <1>1, <2>2, <2>3 DEF Due, Doomed, Fam
<1>2. CASE h # g
  <2>1. Fam(h)' = Fam(h) /\ Ver(h)' = Ver(h)
    BY <1>2 DEF Writes, Fam, Ver
  <2> QED BY <2>1 DEF Doomed, Due
<1> QED BY <1>1, <1>2

\* A request writes the family of its grant: it owes to the others that present its token
\* that the token stays due, and that nobody else carried the family.
LEMMA WriteStep ==
  ASSUME JInv, IInv', UNCHANGED <<now, minted, excused>>, "unjust" \notin wrongs',
         NEW r \in Requests, Refers(req[r]), NEW g, g = req[r].grant, NEW t, t = req[r].token,
         NEW f, store' = Put(store, Family(g), f, f.expires), f.expires = Fam(g).expires, Sane(f, g),
         Fam(g).status = "revoked" => f.status = "revoked",
         NEW q, Go(r, q), Knows(q)', Refreshing(q) => q.token = t,
         ~excused => /\ OnTime(q)'
                     /\ \A while \in {0, 1} : Due(t, g, while) => Due(t, g, while)'
                     /\ \A s \in Requests : s # r /\ Carries(req[s]) /\ req[s].grant = g => Doomed(g)'
                     /\ f.status = "refreshing" =>
                          f.since + Inflight > now /\ Carries(q) /\ q.grant = g
  PROVE  JInv'
<1>1. /\ IInv /\ Types /\ Known /\ Recorded /\ (excused \/ Timely) /\ minted \in Nat
      /\ In(Family(g))
  BY KnowsGrant DEF JInv, IInv, Types
<1>2. req'[r] = q /\ \A s \in Requests : s # r => req'[s] = req[s]
  BY <1>1, GoIs
<1>3. /\ Writes(g, f) /\ In(Family(g))' /\ Fam(g)' = f
  <2>1. PICK until : until = f.expires
    OBVIOUS
  <2>2. Writes(g, f)
    BY <1>1, <2>1, PutWrites
  <2> QED BY <2>2 DEF Writes
<1>4. ReferencesStay /\ (\A x : In(Refresh(x))' => In(Refresh(x)))
  BY KeysDiffer DEF Put, ReferencesStay, In
<1>5. ExpiryStays /\ (\A h : In(Family(h))' => In(Family(h)))
  BY <1>1, <1>3 DEF Writes, ExpiryStays, Fam
<1>6. store'[Family(g)].until = f.expires
  BY DEF Put
<1>7. Sane(f, g)'
  BY <1>4, SaneStays
<1>8. Known'
  <2>1. ASSUME NEW h, In(Family(h))', ~(In(Family(h)) /\ store'[Family(h)] = store[Family(h)])
        PROVE  store'[Family(h)].until = Fam(h)'.expires /\ Sane(Fam(h), h)'
    <3>1. h = g
      BY <1>5, <2>1, <1>3 DEF Writes
    <3>2. Fam(h)' = f
      BY <1>3, <3>1
    <3> QED BY <1>6, <1>7, <3>1, <3>2 DEF Sane, RefersTo, In
  <2>2. \A s \in Requests : req'[s] = req[s] \/ Knows(req[s])'
    BY <1>2 DEF Knows, Refers, HasFamily, RefersTo, Sane, In, Fam
  <2> QED BY <1>1, <1>4, <1>5, <2>1, <2>2, KnownStep
<1>9. ASSUME ~excused PROVE Timely'
  <2>1. /\ OneToken /\ (\A s \in Requests : OnTime(req[s])) /\ Attended
    BY <1>1, <1>9 DEF Timely
  <2>2. Presents(t)
    BY <1>9, PresentsOn, PlacesAre
  <2>3. OneToken'
    <3>1. ASSUME NEW x \in Requests, NEW y \in Requests, Refreshing(req'[x]), Refreshing(req'[y])
          PROVE  req'[x].token = req'[y].token
      <4>1. ASSUME NEW z \in Requests, Refreshing(req'[z]) PROVE req'[z].token = t
        BY <1>2, <2>2, <4>1 DEF Presents
      <4> QED BY <3>1, <4>1
    <3> QED BY <3>1 DEF OneToken, Refreshing, Refers, HasFamily
  <2>4. \A while \in {0, 1} : Due(t, g, while) => Due(t, g, while)'
    BY <1>9
  <2>5. ASSUME NEW h, In(Family(h))
        PROVE  /\ h # g => Fam(h)' = Fam(h) /\ Ver(h)' = Ver(h)
               /\ Doomed(h) => Doomed(h)'
               /\ Due(t, h, 0) => Due(t, h, 0)'
               /\ Due(t, h, 1) => Due(t, h, 1)'
    BY <1>3, <2>4, <2>5, DueThrough
  <2>6. ASSUME NEW s \in Requests, s # r, NEW p, p = req[s] PROVE OnTime(p)'
    <3>1. CASE ~Refreshing(p)
      BY <3>1, NothingDue
    <3>2. CASE p.pc = "reference"
      <4>1. p.token = t
        BY <2>2, <2>6, <3>2 DEF Presents, Refreshing
      <4>2. PICK h : h = Found(Refresh(t)).value.grant
        OBVIOUS
      <4>3. Found(Refresh(t))' = Found(Refresh(t))
        BY <1>4 DEF ReferencesStay, Found, Entry, In
      <4>4. CASE Found(Refresh(t)) = None
        BY <3>2, <4>1, <4>3, <4>4 DEF OnTime
      <4>5. CASE Found(Refresh(t)) # None
        <5>1. Due(t, h, 0)
          BY <2>1, <2>6, <3>2, <4>1, <4>2, <4>5 DEF OnTime
        <5>2. In(Refresh(t)) /\ Found(Refresh(t)) = store[Refresh(t)]
          BY <4>5, FoundIs DEF In
        <5>3. In(Family(h))
          BY <1>1, <4>2, <5>2 DEF Recorded
        <5>4. Due(t, h, 0)'
          BY <2>5, <5>1, <5>3
        <5>5. Found(Refresh(p.token))'.value.grant = h
          BY <4>1, <4>2, <4>3
        <5> QED BY <3>2, <4>1, <5>4, <5>5 DEF OnTime, Due, Doomed, Fam
      <4> QED BY <4>4, <4>5
    <3>3. CASE Refers(p)
      <4>1. PICK h : h = p.grant
        OBVIOUS
      <4>2. In(Family(h)) /\ p.token = t /\ OnTime(p) /\ p.pc # "reference"
        BY <2>1, <2>2, <2>6, <3>3, <4>1, KnowsGrant, PlacesAre DEF Presents, Refers, HasFamily
      <4>3. /\ h # g => Fam(h)' = Fam(h) /\ Ver(h)' = Ver(h)
            /\ Doomed(h) => Doomed(h)'
            /\ Due(t, h, 0) => Due(t, h, 0)'
            /\ Due(t, h, 1) => Due(t, h, 1)'
        BY <2>5, <4>2
      <4>4. CASE ~Carries(p)
        BY <4>1, <4>2, <4>3, <4>4 DEF OnTime, Carries
      <4>5. CASE Carries(p) /\ h # g
        BY <4>1, <4>2, <4>3, <4>5 DEF OnTime, Carries
      <4>6. CASE Carries(p) /\ h = g
        <5>1. Doomed(g)'
          BY <1>9, <2>6, <4>1, <4>6
        <5> QED BY <4>1, <4>6, <5>1 DEF OnTime, Carries
      <4> QED BY <4>4, <4>5, <4>6
    <3> QED BY <3>1, <3>2, <3>3 DEF Refreshing
  <2>7. ASSUME NEW s \in Requests PROVE OnTime(req[s])'
    <3>1. CASE s = r
      BY <1>2, <1>9, <3>1 DEF OnTime, Due, Doomed, Fam, Ver, In
    <3>2. CASE s # r
      <4>1. PICK p : p = req[s]
        OBVIOUS
      <4>2. OnTime(p)' /\ req'[s] = p
        BY <1>2, <2>6, <3>2, <4>1
      <4> QED BY <4>2 DEF OnTime, Due, Doomed, Fam, Ver, In
    <3> QED BY <3>1, <3>2
  <2>8. Attended'
    <3> SUFFICES ASSUME NEW h, In(Family(h))', Fam(h)'.status = "refreshing", ~Doomed(h)'
                 PROVE  /\ Fam(h)'.since + Inflight > now'
                        /\ \E s \in Requests : Carries(req'[s]) /\ req'[s].grant = h
      BY DEF Attended, Carries
    <3>1. CASE h = g
      BY <1>2, <1>3, <1>9, <3>1
    <3>2. CASE h # g
      <4>1. In(Family(h)) /\ Fam(h)' = Fam(h) /\ ~Doomed(h)
        BY <1>5, <2>5, <3>2
      <4>2. /\ Fam(h).since + Inflight > now
            /\ \E s \in Requests : Carries(req[s]) /\ req[s].grant = h
        BY <2>1, <4>1 DEF Attended
      <4>3. PICK s \in Requests : Carries(req[s]) /\ req[s].grant = h
        BY <4>2
      <4>4. req'[s] = req[s]
        BY <1>2, <3>2, <4>3
      <4> QED BY <4>1, <4>2, <4>3, <4>4
    <3> QED BY <3>1, <3>2
  <2> QED BY <2>3, <2>7, <2>8 DEF Timely
<1> QED BY <1>8, <1>9 DEF JInv

\* A write of a family keeps what a request knows, and its grant as doomed as it was.
LEMMA WriteKnows ==
  ASSUME JInv, NEW g, In(Family(g)), NEW f, store' = Put(store, Family(g), f, f.expires),
         f.expires = Fam(g).expires, UNCHANGED now,
         Fam(g).status = "revoked" => f.status = "revoked"
  PROVE  /\ \A q : Knows(q) => Knows(q)'
         /\ In(Family(g))' /\ Fam(g)' = f
         /\ Doomed(g) => Doomed(g)'
<1>1. Writes(g, f)
  <2>1. PICK until : until = f.expires
    OBVIOUS
  <2> QED BY <2>1, PutWrites
<1>2. Fam(g)' = f /\ In(Family(g))'
  BY <1>1 DEF Writes
<1>3. ExpiryStays
  BY <1>1, <1>2 DEF Writes, ExpiryStays, Fam
<1>4. ReferencesStay
  BY KeysDiffer DEF Put, ReferencesStay, In
<1>5. \A q : Knows(q) => Knows(q)'
  BY <1>3, <1>4, KnowsStays DEF JInv, Known
<1>6. Doomed(g) => Doomed(g)'
  BY <1>2 DEF Doomed
<1> QED BY <1>2, <1>5, <1>6

\* A claim that is stored is made on an active family, which nobody carries.
LEMMA ClaimOnTime ==
  ASSUME JInv, IInv', NEW r \in Requests, Claim(r)
  PROVE  JInv'
<1>1. PICK g, t, f : g = req[r].grant /\ t = req[r].token /\ f = req[r].family
  OBVIOUS
<1>2. /\ UNCHANGED <<now, minted, excused>> /\ "unjust" \notin wrongs' /\ req[r].pc = "claim"
      /\ IF Unchanged(store, Family(g), req[r].version, now)
         THEN store' = Put(store, Family(g), f, f.expires) /\ Go(r, To(r, "upstream"))
         ELSE /\ Go(r, [pc |-> "look", token |-> t, grant |-> g,
                        generation |-> req[r].generation, until |-> req[r].until])
              /\ UNCHANGED <<store, wrongs>>
  BY <1>1 DEF Claim, At, Wrong, JInv
<1>3. /\ Refers(req[r]) /\ Refreshing(req[r]) /\ ~Carries(req[r]) /\ HasFamily(req[r])
      /\ Versioned(req[r])
  BY <1>2 DEF Refers, Refreshing, Carries, HasFamily, Versioned
<1>4. /\ In(Family(g)) /\ RefersTo(t, g, req[r].generation) /\ Sane(Fam(g), g) /\ Types /\ Recorded
      /\ f.expires = Fam(g).expires /\ Sane(f, g) /\ Knows(req[r]) /\ IInv
  BY <1>1, <1>3, KnowsGrant DEF JInv, Known, Knows
<1>5. ~excused => Due(t, g, 0) /\ f.since = now
  BY <1>1, <1>2 DEF JInv, Timely, OnTime
<1>6. CASE ~Unchanged(store, Family(g), req[r].version, now)
  <2>1. PICK q : q = [pc |-> "look", token |-> t, grant |-> g,
                      generation |-> req[r].generation, until |-> req[r].until]
    OBVIOUS
  <2>2. q.pc = "look" /\ q.token = t /\ q.grant = g /\ q.generation = req[r].generation
    BY <2>1
  <2>3. Knows(q)
    BY <1>4, <2>2 DEF Knows, HasFamily
  <2>4. ~excused => OnTime(q)
    BY <1>5, <2>2 DEF OnTime
  <2> QED BY <1>1, <1>2, <1>3, <1>6, <2>1, <2>2, <2>3, <2>4, GoesOnStep
<1>7. CASE Unchanged(store, Family(g), req[r].version, now)
  <2>1. store' = Put(store, Family(g), f, f.expires) /\ Go(r, To(r, "upstream"))
    BY <1>2, <1>7
  <2>2. req[r].version = Ver(g)
    BY <1>1, <1>3, <1>4, <1>7, SwapReplaces
  <2>3. /\ Fam(g).status = "active" /\ f.status = "refreshing" /\ f.digest = Fam(g).digest
        /\ f.receipt = Fam(g).receipt
    BY <1>1, <1>2, <1>4, <2>2 DEF IInv, ReadsFit, Reads
  <2>4. /\ \A p : Knows(p) => Knows(p)'
        /\ Fam(g)' = f /\ (Doomed(g) => Doomed(g)')
    BY <1>2, <1>4, <2>1, <2>3, WriteKnows
  <2>5. PICK q : q = To(r, "upstream")
    OBVIOUS
  <2>6. /\ q.pc = "upstream" /\ q.token = t /\ q.grant = g /\ q.family = f
        /\ q.generation = req[r].generation /\ Carries(q)
    <3>1. req[r] \in AtFamily(minted)
      BY <1>3, <1>4, FamilyKnows
    <3> QED BY <1>1, <2>5, <3>1 DEF To, AtFamily, Carries
  <2>7. Knows(q)
    BY <1>4, <2>6 DEF Knows
  <2>8. OnTime(q)'
    BY <2>4, <2>6 DEF OnTime
  <2>9. \A while \in {0, 1} : Due(t, g, while) => Due(t, g, while)'
    BY <1>2, <2>3, <2>4 DEF Due
  <2>10. \A s \in Requests : Carries(req[s]) => req[s].grant # g
    BY <1>4, <2>3 DEF IInv, ReadsFit, Reads
  <2>11. now + Inflight > now
    BY <1>4, FamilyFacts, TimesAreNat, MarginsAssumption
  <2>12. ~excused => f.since + Inflight > now
    BY <1>5, <2>11
  <2>13. Go(r, q) /\ Knows(q)'
    BY <2>1, <2>4, <2>5, <2>7
  <2>14. ~excused => /\ OnTime(q)'
                     /\ \A while \in {0, 1} : Due(t, g, while) => Due(t, g, while)'
                     /\ \A s \in Requests : s # r /\ Carries(req[s]) /\ req[s].grant = g => Doomed(g)'
                     /\ f.status = "refreshing" =>
                          f.since + Inflight > now /\ Carries(q) /\ q.grant = g
    BY <2>6, <2>8, <2>9, <2>10, <2>12
  <2> QED BY <1>1, <1>2, <1>3, <1>4, <2>1, <2>3, <2>6, <2>13, <2>14, WriteStep
<1> QED BY <1>6, <1>7

\* A new generation is stored with a receipt that lasts, or it finds the grant over.
LEMMA CommitOnTime ==
  ASSUME JInv, IInv', NEW r \in Requests, Commit(r)
  PROVE  JInv'
<1>1. PICK g, t, f : g = req[r].grant /\ t = req[r].token /\ f = req[r].family
  OBVIOUS
<1>2. /\ UNCHANGED <<now, minted, excused, wrongs>> /\ "unjust" \notin wrongs' /\ req[r].pc = "commit"
      /\ IF Unchanged(store, Family(g), req[r].version, now)
         THEN store' = Put(store, Family(g), f, f.expires) /\ Go(r, Idle)
         ELSE Go(r, ToRevoke(r)) /\ UNCHANGED store
  BY <1>1 DEF Commit, At, Answer, Done, JInv
<1>3. /\ Refers(req[r]) /\ Refreshing(req[r]) /\ Carries(req[r]) /\ HasFamily(req[r])
      /\ Versioned(req[r]) /\ Renewed(req[r])
  BY <1>2 DEF Refers, Refreshing, Carries, HasFamily, Versioned, Renewed
<1>4. /\ In(Family(g)) /\ Types /\ Recorded /\ f.expires = Fam(g).expires /\ Sane(f, g) /\ IInv
  BY <1>1, <1>3, KnowsGrant DEF JInv, Known, Knows
<1>5. ~excused => Doomed(g) \/ (f.receipt.until > now + 1 /\ req[r].version = Ver(g))
  BY <1>1, <1>2 DEF JInv, Timely, OnTime
<1>6. CASE ~Unchanged(store, Family(g), req[r].version, now)
  <2>1. PICK entry : entry = Found(Family(g))
    OBVIOUS
  <2>2. entry.version # req[r].version
    BY <1>6, <2>1 DEF Unchanged, Found
  <2>3. excused \/ Doomed(g)
    BY <1>4, <1>5, <2>1, <2>2, FamilyFound
  <2> QED BY <1>1, <1>2, <1>6, <2>3, GivesUpStep
<1>7. CASE Unchanged(store, Family(g), req[r].version, now)
  <2>1. store' = Put(store, Family(g), f, f.expires) /\ Go(r, Idle)
    BY <1>2, <1>7
  <2>2. req[r].version = Ver(g)
    BY <1>1, <1>3, <1>4, <1>7, SwapReplaces
  <2>3. Fam(g).status = "refreshing" /\ f.status = "active" /\ f.receipt.digest = t
    BY <1>1, <1>2, <1>3, <1>4, <2>2 DEF IInv, ReadsFit, Reads
  <2>4. Fam(g)' = f /\ (Doomed(g) => Doomed(g)')
    BY <1>2, <1>4, <2>1, <2>3, WriteKnows
  <2>5. ~Refreshing(Idle) /\ Knows(Idle)' /\ OnTime(Idle)'
    BY NothingDue DEF Idle, Refreshing, Refers, HasFamily
  <2>6. ~excused => \A while \in {0, 1} : Due(t, g, while)'
    <3> SUFFICES ASSUME ~excused, NEW while \in {0, 1} PROVE Due(t, g, while)'
      OBVIOUS
    <3>1. CASE Doomed(g)
      BY <2>4, <3>1 DEF Due
    <3>2. CASE f.receipt.until > now + 1
      <4>1. f.receipt.until \in Nat /\ now \in Nat
        <5>1. f.receipt \in [digest : Pairs(minted), until : Nat, pair : Pairs(minted), access : Nat]
          BY <1>1, <1>3, <1>4, FamilyKnows, RenewedHasReceipt, PlacesAre DEF IInv
        <5> QED BY <1>4, <5>1, FamilyFacts
      <4>2. f.receipt.until > now' + while
        BY <1>2, <3>2, <4>1
      <4> QED BY <2>3, <2>4, <4>2 DEF Due
    <3> QED BY <1>5, <3>1, <3>2
  <2>7. \A s \in Requests : s # r /\ Carries(req[s]) => req[s].grant # g
    BY <1>1, <1>3, <1>4 DEF IInv, Alone
  <2> QED BY <1>1, <1>2, <1>3, <1>4, <2>1, <2>3, <2>5, <2>6, <2>7, WriteStep
<1> QED BY <1>6, <1>7

\* What is revoked was over or as good as over, unless something excused it.
LEMMA SwapOnTime ==
  ASSUME JInv, IInv', NEW r \in Requests, Swap(r)
  PROVE  JInv'
<1>1. PICK g, t, old, f :
        /\ g = req[r].grant /\ t = req[r].token /\ old = req[r].family
        /\ f = [old EXCEPT !.status = "revoked", !.upstream = 0, !.assertion = 0,
                           !.receipt = NoReceipt]
  OBVIOUS
<1>2. /\ UNCHANGED <<now, minted, excused>> /\ req[r].pc = "swap"
      /\ IF Unchanged(store, Family(g), req[r].version, now)
         THEN /\ store' = Put(store, Family(g), f, old.expires) /\ Go(r, To(r, "cleanup"))
              /\ Wrong("unjust", ~excused /\ old.expires > now + Receipt)
         ELSE Go(r, ToRevoke(r)) /\ UNCHANGED <<store, wrongs>>
  BY <1>1 DEF Swap, At
<1>3. /\ Refers(req[r]) /\ Refreshing(req[r]) /\ ~Carries(req[r]) /\ HasFamily(req[r])
      /\ Versioned(req[r])
  BY <1>2 DEF Refers, Refreshing, Carries, HasFamily, Versioned
<1>4. /\ In(Family(g)) /\ RefersTo(t, g, req[r].generation) /\ Types /\ Recorded
      /\ old.expires = Fam(g).expires /\ Sane(old, g) /\ old.status # "revoked"
      /\ Knows(req[r]) /\ IInv /\ req[r] \in AtFamily(minted) /\ old \in Families(minted)
  BY <1>1, <1>2, <1>3, KnowsGrant, FamilyKnows DEF JInv, IInv, Known, Knows
<1>5. ~excused => Doomed(g)
  BY <1>1, <1>2 DEF JInv, Timely, OnTime
<1>6. CASE ~Unchanged(store, Family(g), req[r].version, now)
  <2>1. PICK q : q = ToRevoke(r)
    OBVIOUS
  <2>2. q.pc = "revoke" /\ q.token = t /\ q.grant = g /\ q.generation = req[r].generation
    BY <1>1, <2>1 DEF ToRevoke
  <2>3. Knows(q)
    BY <1>4, <2>2 DEF Knows, HasFamily
  <2>4. ~excused => OnTime(q)
    BY <1>5, <2>2 DEF OnTime
  <2> QED BY <1>1, <1>2, <1>3, <1>6, <2>1, <2>2, <2>3, <2>4, GoesOnStep
<1>7. CASE Unchanged(store, Family(g), req[r].version, now)
  <2>1. /\ f.status = "revoked" /\ f.expires = old.expires /\ f.digest = old.digest
        /\ f.generation = old.generation /\ f.receipt.until = 0 /\ f.receipt.access = 0
    BY <1>1, <1>4 DEF Families, NoReceipt
  <2>2. store' = Put(store, Family(g), f, f.expires) /\ Go(r, To(r, "cleanup"))
    BY <1>2, <1>7, <2>1
  <2>3. req[r].version = Ver(g)
    BY <1>1, <1>3, <1>4, <1>7, SwapReplaces
  <2>4. old = Fam(g)
    BY <1>1, <1>2, <1>4, <2>3 DEF IInv, ReadsFit, Reads
  <2>5. "unjust" \notin wrongs'
    <3>1. ~excused => Fam(g).expires <= now + Receipt
      BY <1>4, <1>5, <2>4 DEF Doomed
    <3>2. Fam(g).expires \in Nat /\ now \in Nat /\ Receipt \in Nat
      BY <1>4, FamilyFacts, TimesAreNat
    <3>3. ~(~excused /\ old.expires > now + Receipt)
      BY <1>4, <3>1, <3>2
    <3> QED BY <1>2, <1>7, <3>3 DEF Wrong, JInv
  <2>6. Sane(f, g) /\ f.expires = Fam(g).expires
    BY <1>4, <2>1 DEF Sane
  <2>7. /\ \A p : Knows(p) => Knows(p)'
        /\ Fam(g)' = f
    BY <1>2, <1>4, <2>1, <2>2, <2>6, WriteKnows
  <2>8. Doomed(g)'
    BY <2>1, <2>7 DEF Doomed
  <2>9. PICK q : q = To(r, "cleanup")
    OBVIOUS
  <2>10. /\ q.pc = "cleanup" /\ q.token = t /\ q.grant = g /\ q.family = old
         /\ q.generation = req[r].generation
    BY <1>1, <1>4, <2>9 DEF To, AtFamily
  <2>11. Knows(q)
    BY <1>4, <2>10 DEF Knows
  <2>12. OnTime(q)' /\ \A while \in {0, 1} : Due(t, g, while)'
    BY <2>8, <2>10 DEF OnTime, Due
  <2>13. Go(r, q) /\ Knows(q)'
    BY <2>2, <2>7, <2>9, <2>11
  <2> QED BY <1>1, <1>2, <1>3, <2>1, <2>2, <2>5, <2>6, <2>8, <2>10, <2>12, <2>13, WriteStep
<1> QED BY <1>6, <1>7

------------------------------------------------------------------------------
(* Who revokes, and when: the theorems. *)

LEMMA NextOnTime ==
  ASSUME JInv, [Next]_vars
  PROVE  JInv'
<1>1. IInv'
  BY NextKeeps DEF JInv
<1>2. CASE UNCHANGED vars
  BY <1>1, <1>2, RecordsUnchanged, NobodyMoves DEF vars
<1>3. CASE Register
  BY <1>1, <1>3, RecordsUnchanged, NobodyMoves DEF Register
<1>4. CASE Authorize
  <2>1. UNCHANGED <<now, req, minted, excused, wrongs>>
    BY <1>4 DEF Authorize
  <2>2. PICK value, until : store' = Put(store, Transaction, value, until)
    BY <1>4 DEF Authorize
  <2>3. RecordsStay
    BY <2>2, KeysDiffer, PutElsewhere, RecordsElsewhere
  <2> QED BY <1>1, <2>1, <2>3, NobodyMoves
<1>5. CASE Send \/ Tick
  BY <1>1, <1>5, SendOnTime, TickOnTime
<1>6. ASSUME NEW r \in Requests,
             \/ Callback(r) \/ Exchange(r) \/ Redeem(r) \/ Create(r)
             \/ ReadReference(r) \/ ReadAccess(r) \/ Identity(r) \/ Cleanup(r) \/ Crash(r)
      PROVE  JInv'
  BY <1>1, <1>6, LoginOnTime, CreateOnTime, ReferenceOnTime, EndsOnTime
<1>7. ASSUME NEW r \in Requests,
             \/ Look(r) \/ Wake(r) \/ Claim(r) \/ Upstream(r) \/ Reread(r) \/ Commit(r)
             \/ ReadToRevoke(r) \/ Swap(r)
      PROVE  JInv'
  BY <1>1, <1>7, LookOnTime, WakeOnTime, ClaimOnTime, UpstreamOnTime, RereadOnTime, CommitOnTime,
     ReadToRevokeOnTime, SwapOnTime
<1> QED BY <1>2, <1>3, <1>4, <1>5, <1>6, <1>7 DEF Next

\* Before anything was stored, nobody refreshes.
LEMMA InitOnTime ==
  ASSUME Init
  PROVE  JInv
<1>1. store = Empty /\ req = [r \in Requests |-> Idle] /\ wrongs = {}
  BY DEF Init
<1>2. \A key : ~In(key)
  BY <1>1 DEF In, Empty
<1>3. ~Refreshing(Idle) /\ Knows(Idle) /\ OnTime(Idle)
  BY NothingDue DEF Idle, Refreshing, Refers, HasFamily
<1>4. Known
  BY <1>1, <1>2, <1>3 DEF Known, Recorded
<1>5. Timely
  BY <1>1, <1>2, <1>3 DEF Timely, OneToken, Attended
<1> QED BY <1>1, <1>4, <1>5, InitHolds DEF JInv

\* Records are as they were made, no request is late, and nobody was revoked unjustly, in
\* every reachable state.
THEOREM TimelyHolds == Spec => []JInv
<1>1. Init => JInv
  BY InitOnTime
<1>2. JInv /\ [Next]_vars => JInv'
  BY NextOnTime
<1> QED BY <1>1, <1>2, PTL DEF Spec

\* A client that repeats its requests in time, with the token it was last given, does not
\* lose its grant; and a grant that is lost is lost for good.
THEOREM GrantsEndAsTheyShould == Spec => GrantsEndRightly
<1>1. JInv /\ [Next]_vars => [RevocationIsJustified /\ RevokedIsOver]_vars
  <2> SUFFICES ASSUME JInv, [Next]_vars PROVE RevocationIsJustified /\ RevokedIsOver
    OBVIOUS
  <2>1. RevocationIsJustified
    BY NextOnTime DEF JInv, RevocationIsJustified
  <2>2. RevokedStays /\ "after" \notin wrongs'
    BY NextKeeps DEF JInv, IInv
  <2> QED BY <2>1, <2>2 DEF RevokedIsOver, RevokedStays
<1> QED BY <1>1, TimelyHolds, PTL DEF Spec, GrantsEndRightly
=============================================================================
