---------------------------- MODULE CatalogueProofs ----------------------------
(***************************************************************************)
(* Theorems about Catalogue: its types, and that products stay in the      *)
(* tenant that every handler falls back to.                                *)
(*                                                                         *)
(* The argument of the second: only a request that finds no tenant at all  *)
(* would keep the row it creates, and no request is such a request,        *)
(* because get_current_active_user has given its user a tenant before the  *)
(* handler runs.  So every handler falls back to the first row, and the    *)
(* first row stays the first as long as rows are committed in the order of *)
(* their ids.                                                              *)
(***************************************************************************)
EXTENDS Catalogue, TLAPS

\* FirstOf is a choice; that there is something to choose is an invariant.
HasFirst == Rows # {} => \E m \in Rows : \A s \in Rows : m <= s

\* What a request that resolves or creates a tenant knows.
Resolving(r) ==
    /\ pc[r] = "resolve" => req[r].user \in User
    /\ pc[r] \in {"insert tenant", "commit tenant"} => req[r].owner \in User
    /\ pc[r] = "commit tenant" => req[r].row \in TenantId

\* A handler runs when there is a tenant.
FindsTenant(r) ==
    /\ pc[r] \in {"insert tenant", "commit tenant"} => req[r].user # None
    /\ pc[r] \in {"lookup", "context", "check", "write"} => Rows # {}

ChoosesFirst(r) ==
    ~overtaken /\ pc[r] \in {"check", "write"} => req[r].tenant = FirstOf(Rows)

\* The product of an order that is about to be committed is locked: nobody
\* brings it to the bound in between.
Holding(r) ==
    pc[r] = "commit" =>
        \A p \in req[r].products :
            /\ product[p].version \in 1 .. (MaxVersion - 1)
            /\ \A s \in Request \ {r} : pc[s] = "commit" => p \notin req[s].products

ProductsHaveTenants == \A p \in Product : product[p].version > 0 => Rows # {}

IInv ==
    /\ TypeOK /\ HasFirst /\ ProductsHaveTenants /\ ProductsStayVisible
    /\ \A r \in Request : Resolving(r) /\ FindsTenant(r) /\ ChoosesFirst(r) /\ Holding(r)

-------------------------------------------------------------------------------
(* Lemmas. *)

LEMMA Bounds == MaxTenant \in Nat /\ MaxVersion \in Nat /\ TenantId \subseteq Int
<1>1. MaxTenant \in Nat /\ MaxVersion \in Nat
  BY CatalogueAssumption
<1> QED BY <1>1 DEF TenantId

\* The first row, if there is one.
LEMMA FirstIsLeast ==
    ASSUME NEW rows \in SUBSET TenantId, NEW m \in rows, \A s \in rows : m <= s
    PROVE  FirstOf(rows) = m
<1>1. /\ FirstOf(rows) \in rows
      /\ \A s \in rows : FirstOf(rows) <= s
  BY DEF FirstOf
<1>2. FirstOf(rows) <= m /\ m <= FirstOf(rows)
  BY <1>1
<1>3. FirstOf(rows) \in Int /\ m \in Int
  BY <1>1, Bounds
<1> QED BY <1>2, <1>3

LEMMA FirstIsARow == ASSUME IInv, Rows # {} PROVE FirstOf(Rows) \in TenantId
<1>1. PICK m \in Rows : \A s \in Rows : m <= s
  BY DEF IInv, HasFirst
<1>2. Rows \in SUBSET TenantId
  BY DEF Rows
<1> QED BY <1>1, <1>2, FirstIsLeast

\* A row that is added after all others leaves the first one the first.
LEMMA LaterRowIsNotFirst ==
    ASSUME NEW rows \in SUBSET TenantId, NEW m \in rows, \A s \in rows : m <= s,
           NEW t \in TenantId, \A s \in rows : s <= t
    PROVE  FirstOf(rows \cup {t}) = FirstOf(rows)
<1>1. FirstOf(rows) = m
  BY FirstIsLeast
<1>2. /\ rows \cup {t} \in SUBSET TenantId /\ m \in rows \cup {t}
      /\ \A s \in rows \cup {t} : m <= s
  OBVIOUS
<1>3. FirstOf(rows \cup {t}) = m
  BY <1>2, FirstIsLeast
<1> QED BY <1>1, <1>3

Others(r) == \A s \in Request \ {r} : pc'[s] = pc[s] /\ req'[s] = req[s]

\* A step of one request that leaves the tables alone.
LEMMA OneRequestMoves ==
    ASSUME IInv, NEW r \in Request, Others(r), TypeOK',
           tenant' = tenant, product' = product, overtaken' = overtaken,
           Resolving(r)', FindsTenant(r)', ChoosesFirst(r)', Holding(r)'
    PROVE  IInv'
<1>1. Rows' = Rows
  BY DEF Rows
<1>2. HasFirst' /\ ProductsHaveTenants' /\ ProductsStayVisible'
  BY <1>1 DEF IInv, HasFirst, ProductsHaveTenants, ProductsStayVisible
<1>3. ASSUME NEW s \in Request \ {r}
      PROVE  Resolving(s)' /\ FindsTenant(s)' /\ ChoosesFirst(s)' /\ Holding(s)'
  <2>1. pc'[s] = pc[s] /\ req'[s] = req[s]
    BY DEF Others
  <2>2. Resolving(s) /\ FindsTenant(s) /\ ChoosesFirst(s) /\ Holding(s)
    BY DEF IInv
  <2>3. Resolving(s)'
    BY <2>1, <2>2 DEF Resolving
  <2>4. FindsTenant(s)' /\ ChoosesFirst(s)'
    BY <1>1, <2>1, <2>2 DEF FindsTenant, ChoosesFirst
  <2>5. ASSUME pc[s] = "commit", NEW p \in req[s].products, NEW q \in Request \ {s},
               pc'[q] = "commit"
        PROVE  p \notin req'[q].products
    <3>1. CASE q = r
      BY <2>1, <2>5, <3>1 DEF Holding
    <3>2. CASE q # r
      BY <2>2, <2>5, <3>2 DEF Holding, Others
    <3> QED BY <3>1, <3>2
  <2>6. Holding(s)'
    BY <2>1, <2>2, <2>5 DEF Holding
  <2> QED BY <2>3, <2>4, <2>6
<1> QED BY <1>2, <1>3 DEF IInv

\* A step that changes products and ends there, or goes on to clear the cache:
\* new products are in the first tenant, old ones stay where they are, and what
\* other requests have locked is not touched.
LEMMA ProductsChange ==
    ASSUME IInv, NEW r \in Request, Others(r), TypeOK',
           tenant' = tenant, overtaken' = overtaken,
           pc'[r] \in {"idle", "invalidate"},
           \A p \in Product : product'[p].version > 0 =>
               /\ Rows # {}
               /\ \/ product[p].version > 0 /\ product'[p].tenant = product[p].tenant
                  \/ ~overtaken => product'[p].tenant = FirstOf(Rows),
           \A s \in Request \ {r} : pc[s] = "commit" =>
               \A p \in req[s].products : product'[p].version = product[p].version
    PROVE  IInv'
<1>1. Rows' = Rows
  BY DEF Rows
<1>2. HasFirst' /\ ProductsHaveTenants'
  BY <1>1 DEF IInv, HasFirst, ProductsHaveTenants
<1>3. ProductsStayVisible'
  BY <1>1 DEF IInv, ProductsStayVisible
<1>4. Resolving(r)' /\ FindsTenant(r)' /\ ChoosesFirst(r)' /\ Holding(r)'
  BY DEF Resolving, FindsTenant, ChoosesFirst, Holding
<1>5. ASSUME NEW s \in Request \ {r}
      PROVE  Resolving(s)' /\ FindsTenant(s)' /\ ChoosesFirst(s)' /\ Holding(s)'
  <2>1. pc'[s] = pc[s] /\ req'[s] = req[s]
    BY DEF Others
  <2>2. Resolving(s) /\ FindsTenant(s) /\ ChoosesFirst(s) /\ Holding(s)
    BY DEF IInv
  <2>3. Resolving(s)'
    BY <2>1, <2>2 DEF Resolving
  <2>4. FindsTenant(s)' /\ ChoosesFirst(s)'
    BY <1>1, <2>1, <2>2 DEF FindsTenant, ChoosesFirst
  <2>5. Holding(s)'
    BY <2>1, <2>2 DEF Holding, Others
  <2> QED BY <2>3, <2>4, <2>5
<1> QED BY <1>2, <1>3, <1>4, <1>5 DEF IInv

\* What is read, encoded and blank has its type.
LEMMA BlankIsTyped == Blank \in Body /\ NoEntry \in [rows : Contents, stored : BOOLEAN]
BY DEF Blank, Body, NoEntry, Contents

LEMMA ContentIsTyped ==
    ASSUME TypeOK, NEW k \in Key, NEW t \in TenantId \cup {None}
    PROVE  Content(k, t) \in Contents
<1>1. ASSUME NEW p \in Product, Visible(p, t)
      PROVE  product[p].version \in 1 .. MaxVersion
  <2>1. product[p].version \in 0 .. MaxVersion
    BY DEF TypeOK
  <2>2. product[p].version > 0
    BY <1>1 DEF Visible
  <2> QED BY <2>1, <2>2, Bounds
<1> QED BY <1>1 DEF Content, Contents

LEMMA EncodedIsTyped ==
    ASSUME NEW k \in Key, NEW rows \in Contents
    PROVE  Encoded(k, rows) \in Contents
<1>1. ASSUME NEW row \in rows
      PROVE  row[1] \in Product
  BY <1>1 DEF Contents
<1>2. {<<row[1], None>> : row \in rows} \in Contents
  BY <1>1 DEF Contents
<1> QED BY <1>2 DEF Encoded

\* Ending a request.
LEMMA RefuseKeeps ==
    ASSUME IInv, NEW r \in Request, Refuse(r)
    PROVE  IInv'
<1>1. pc'[r] = "idle" /\ Others(r)
  BY DEF Refuse, Close, Goto, Others, IInv, TypeOK
<1>2. TypeOK'
  BY BlankIsTyped DEF Refuse, Close, Goto, IInv, TypeOK
<1>3. Resolving(r)' /\ FindsTenant(r)' /\ ChoosesFirst(r)' /\ Holding(r)'
  BY <1>1 DEF Resolving, FindsTenant, ChoosesFirst, Holding
<1> QED BY <1>1, <1>2, <1>3, OneRequestMoves DEF Refuse

-------------------------------------------------------------------------------
(* The steps that leave the tables alone. *)

LEMMA BeginKeeps ==
    ASSUME IInv, NEW r \in Request, Begin(r)
    PROVE  IInv'
<1>. DOMAIN pc = Request /\ DOMAIN req = Request
  BY DEF IInv, TypeOK
<1>1. PICK op \in Op :
        req' = [req EXCEPT ![r] = [Blank EXCEPT !.kind = op.kind, !.user = op.user,
                                                !.key = op.key, !.products = op.products]]
  BY DEF Begin
<1>2. /\ pc' = [pc EXCEPT ![r] = "resolve"]
      /\ UNCHANGED <<tenant, nextTenant, product, cache, overtaken>>
  BY DEF Begin, Goto
<1>3. /\ op.kind \in Kind /\ op.user \in User
      /\ op.key \in Key \cup {None} /\ op.products \in SUBSET Product
  BY CatalogueAssumption DEF Asked
<1>4. req'[r] = [Blank EXCEPT !.kind = op.kind, !.user = op.user,
                              !.key = op.key, !.products = op.products]
  BY <1>1
<1>5. req'[r] \in Body /\ req'[r].user \in User
  BY <1>3, <1>4, BlankIsTyped DEF Body, Blank
<1>6. TypeOK' /\ Others(r) /\ pc'[r] = "resolve"
  <2>1. req' \in [Request -> Body]
    BY <1>1, <1>5 DEF IInv, TypeOK
  <2>2. TypeOK'
    BY <1>2, <2>1 DEF IInv, TypeOK
  <2>3. Others(r) /\ pc'[r] = "resolve"
    BY <1>1, <1>2 DEF Others
  <2> QED BY <2>2, <2>3
<1>7. Resolving(r)' /\ FindsTenant(r)' /\ ChoosesFirst(r)' /\ Holding(r)'
  BY <1>5, <1>6 DEF Resolving, FindsTenant, ChoosesFirst, Holding
<1> QED BY <1>2, <1>6, <1>7, OneRequestMoves

LEMMA ResolveTenantKeeps ==
    ASSUME IInv, NEW r \in Request, ResolveTenant(r)
    PROVE  IInv'
<1>1. req[r] \in Body /\ req[r].user \in User
  BY DEF ResolveTenant, IInv, TypeOK, Resolving
<1>2. /\ tenant' = tenant /\ product' = product /\ overtaken' = overtaken
      /\ nextTenant' = nextTenant /\ cache' = cache /\ Others(r)
  BY DEF ResolveTenant, Goto, Others, IInv, TypeOK
<1>3. None \notin User
  BY CatalogueAssumption
<1>4. CASE Owns(req[r].user)
  <2>1. pc'[r] \in {"lookup", "context"} /\ req'[r] = [req[r] EXCEPT !.user = None]
    BY <1>4 DEF ResolveTenant, AfterResolve, Goto, IInv, TypeOK
  <2>2. Rows' # {}
    BY <1>1, <1>2, <1>3, <1>4 DEF Owns, Rows
  <2>3. TypeOK'
    <3>1. req'[r] \in Body
      BY <1>1, <2>1 DEF Body
    <3>2. pc' = [pc EXCEPT ![r] = AfterResolve(r)] /\ req' \in [Request -> Body]
      BY <1>4, <3>1 DEF ResolveTenant, Goto, IInv, TypeOK
    <3>3. AfterResolve(r) \in {"lookup", "context"}
      BY DEF AfterResolve
    <3> QED BY <1>2, <3>2, <3>3 DEF IInv, TypeOK
  <2>4. Resolving(r)' /\ FindsTenant(r)' /\ ChoosesFirst(r)' /\ Holding(r)'
    BY <2>1, <2>2 DEF Resolving, FindsTenant, ChoosesFirst, Holding
  <2> QED BY <1>2, <2>3, <2>4, OneRequestMoves
<1>5. CASE ~Owns(req[r].user)
  <2>1. pc'[r] = "insert tenant" /\ req'[r] = [req[r] EXCEPT !.owner = req[r].user]
    BY <1>5 DEF ResolveTenant, Goto, IInv, TypeOK
  <2>2. req'[r].owner \in User /\ req'[r].user \in User
    BY <1>1, <2>1 DEF Body
  <2>3. TypeOK'
    <3>1. req'[r] \in Body
      BY <1>1, <2>1 DEF Body
    <3> QED BY <1>2, <1>5, <2>1, <3>1 DEF ResolveTenant, Goto, IInv, TypeOK
  <2>4. Resolving(r)' /\ FindsTenant(r)' /\ ChoosesFirst(r)' /\ Holding(r)'
    BY <1>3, <2>1, <2>2 DEF Resolving, FindsTenant, ChoosesFirst, Holding
  <2> QED BY <1>2, <2>3, <2>4, OneRequestMoves
<1> QED BY <1>4, <1>5

LEMMA RequireTenantKeeps ==
    ASSUME IInv, NEW r \in Request, RequireTenant(r)
    PROVE  IInv'
<1>1. req[r] \in Body /\ pc[r] = "context"
  BY DEF RequireTenant, IInv, TypeOK
<1>2. /\ tenant' = tenant /\ product' = product /\ overtaken' = overtaken
      /\ nextTenant' = nextTenant /\ cache' = cache /\ Others(r)
  BY DEF RequireTenant, Goto, Others, IInv, TypeOK
<1>3. Rows # {}
  BY <1>1 DEF IInv, FindsTenant
<1>4. /\ pc'[r] = AfterContext(r)
      /\ req'[r] = [req[r] EXCEPT !.tenant = FirstOf(Rows)]
  BY <1>3 DEF RequireTenant, Goto, IInv, TypeOK
<1>5. FirstOf(Rows) \in TenantId
  BY <1>3, FirstIsARow
<1>6. AfterContext(r) \in {"read", "check", "write"}
  BY DEF AfterContext
<1>7. req'[r].tenant = FirstOf(Rows) /\ req'[r] \in Body
  BY <1>1, <1>4, <1>5 DEF Body
<1>8. TypeOK'
  BY <1>1, <1>2, <1>3, <1>4, <1>6, <1>7 DEF RequireTenant, Goto, IInv, TypeOK
<1>9. Rows' = Rows
  BY <1>2 DEF Rows
<1>10. Resolving(r)' /\ FindsTenant(r)' /\ ChoosesFirst(r)' /\ Holding(r)'
  BY <1>3, <1>4, <1>6, <1>7, <1>9 DEF Resolving, FindsTenant, ChoosesFirst, Holding
<1> QED BY <1>2, <1>8, <1>10, OneRequestMoves

LEMMA InsertTenantKeeps ==
    ASSUME IInv, NEW r \in Request, InsertTenant(r)
    PROVE  IInv'
<1>1. CASE Refuse(r)
  BY <1>1, RefuseKeeps
<1>2. CASE ~Refuse(r)
  <2>1. /\ pc[r] = "insert tenant" /\ nextTenant <= MaxTenant
        /\ nextTenant' = nextTenant + 1
        /\ req' = [req EXCEPT ![r].row = nextTenant]
        /\ pc' = [pc EXCEPT ![r] = "commit tenant"]
        /\ UNCHANGED <<tenant, product, cache, overtaken>>
    BY <1>2 DEF InsertTenant, Goto
  <2>2. nextTenant \in TenantId /\ nextTenant' \in 1 .. MaxTenant + 1
    <3>1. nextTenant \in 1 .. MaxTenant + 1
      BY DEF IInv, TypeOK
    <3>2. nextTenant <= MaxTenant /\ nextTenant' = nextTenant + 1
      BY <2>1
    <3>3. MaxTenant \in Nat
      BY Bounds
    <3> QED BY <3>1, <3>2, <3>3 DEF TenantId
  <2>3. req[r] \in Body /\ pc'[r] = "commit tenant" /\ Others(r)
    BY <2>1 DEF IInv, TypeOK, Others
  <2>4. /\ req'[r] = [req[r] EXCEPT !.row = nextTenant]
        /\ req'[r] \in Body /\ req'[r].row \in TenantId
    BY <2>1, <2>2, <2>3 DEF IInv, TypeOK, Body
  <2>5. TypeOK'
    BY <2>1, <2>2, <2>4 DEF IInv, TypeOK
  <2>6. Resolving(r) /\ FindsTenant(r)
    BY DEF IInv
  <2>7. /\ req'[r].owner = req[r].owner /\ req'[r].user = req[r].user
        /\ req'[r].kind = req[r].kind
    BY <2>3, <2>4 DEF Body
  <2>8. Resolving(r)' /\ FindsTenant(r)' /\ ChoosesFirst(r)' /\ Holding(r)'
    BY <2>1, <2>3, <2>4, <2>6, <2>7 DEF Resolving, FindsTenant, ChoosesFirst, Holding
  <2> QED BY <2>1, <2>3, <2>5, <2>8, OneRequestMoves
<1> QED BY <1>1, <1>2

LEMMA LookupKeeps ==
    ASSUME IInv, NEW r \in Request, Lookup(r)
    PROVE  IInv'
<1>1. CASE Refuse(r)
  BY <1>1, RefuseKeeps
<1>2. CASE ~Refuse(r)
  <2>1. /\ pc[r] = "lookup" /\ pc' = [pc EXCEPT ![r] = "context"]
        /\ UNCHANGED <<tenant, nextTenant, product, cache, req, overtaken>>
    BY <1>2 DEF Lookup, Goto
  <2>2. TypeOK' /\ Others(r) /\ pc'[r] = "context"
    BY <2>1 DEF IInv, TypeOK, Others
  <2>3. Rows' = Rows /\ Rows # {}
    BY <2>1 DEF Rows, IInv, FindsTenant
  <2>4. Resolving(r)' /\ FindsTenant(r)' /\ ChoosesFirst(r)' /\ Holding(r)'
    BY <2>2, <2>3 DEF Resolving, FindsTenant, ChoosesFirst, Holding
  <2> QED BY <2>1, <2>2, <2>4, OneRequestMoves
<1> QED BY <1>1, <1>2

LEMMA ReadKeeps ==
    ASSUME IInv, NEW r \in Request, Read(r)
    PROVE  IInv'
<1>1. CASE Refuse(r)
  BY <1>1, RefuseKeeps
<1>2. CASE ~Refuse(r)
  <2>1. /\ pc' = [pc EXCEPT ![r] = "store"]
        /\ req' = [req EXCEPT ![r].seen = Content(req[r].key, req[r].tenant)]
        /\ UNCHANGED <<tenant, nextTenant, product, cache, overtaken>>
    BY <1>2 DEF Read, Goto
  <2>2. req[r] \in Body /\ pc'[r] = "store" /\ Others(r)
    BY <2>1 DEF IInv, TypeOK, Others
  <2>3. Content(req[r].key, req[r].tenant) \in Contents
    <3>1. ASSUME NEW p \in Product, Visible(p, req[r].tenant)
          PROVE  product[p].version \in 1 .. MaxVersion
      <4>1. product[p].version \in 0 .. MaxVersion
        BY DEF IInv, TypeOK
      <4> QED BY <3>1, <4>1, Bounds DEF Visible
    <3> QED BY <3>1 DEF Content, Contents
  <2>4. req'[r] \in Body
    <3>1. req'[r] = [req[r] EXCEPT !.seen = Content(req[r].key, req[r].tenant)]
      BY <2>1 DEF IInv, TypeOK
    <3> QED BY <2>2, <2>3, <3>1 DEF Body
  <2>5. TypeOK'
    BY <2>1, <2>4 DEF IInv, TypeOK
  <2>6. Resolving(r)' /\ FindsTenant(r)' /\ ChoosesFirst(r)' /\ Holding(r)'
    BY <2>2 DEF Resolving, FindsTenant, ChoosesFirst, Holding
  <2> QED BY <2>1, <2>2, <2>5, <2>6, OneRequestMoves
<1> QED BY <1>1, <1>2

\* A step that ends a request and changes at most the cache.
LEMMA ClosingKeeps ==
    ASSUME IInv, NEW r \in Request, Close(r),
           UNCHANGED <<tenant, nextTenant, product, overtaken>>,
           cache' \in [Scope \X Key -> [rows : Contents, stored : BOOLEAN]]
    PROVE  IInv'
<1>1. pc'[r] = "idle" /\ Others(r)
  BY DEF Close, Goto, Others, IInv, TypeOK
<1>2. TypeOK'
  BY BlankIsTyped DEF Close, Goto, IInv, TypeOK
<1>3. Resolving(r)' /\ FindsTenant(r)' /\ ChoosesFirst(r)' /\ Holding(r)'
  BY <1>1 DEF Resolving, FindsTenant, ChoosesFirst, Holding
<1> QED BY <1>1, <1>2, <1>3, OneRequestMoves

LEMMA StoreKeeps ==
    ASSUME IInv, NEW r \in Request, Store(r)
    PROVE  IInv'
<1>1. req[r] \in Body
  BY DEF IInv, TypeOK
<1>2. CASE req[r].key \in Key
  <2>1. Encoded(req[r].key, req[r].seen) \in Contents
    BY <1>1, <1>2, EncodedIsTyped DEF Body
  <2>2. cache' \in [Scope \X Key -> [rows : Contents, stored : BOOLEAN]]
    <3>1. cache \in [Scope \X Key -> [rows : Contents, stored : BOOLEAN]]
      BY DEF IInv, TypeOK
    <3>2. [rows |-> Encoded(req[r].key, req[r].seen), stored |-> TRUE]
            \in [rows : Contents, stored : BOOLEAN]
      BY <2>1
    <3> QED BY <3>1, <3>2 DEF Store
  <2> QED BY <2>2, ClosingKeeps DEF Store
<1>3. CASE req[r].key \notin Key
  <2>1. <<Public, req[r].key>> \notin Scope \X Key
    BY <1>3
  <2>2. cache' = cache
    BY <2>1 DEF Store, IInv, TypeOK
  <2> QED BY <2>2, ClosingKeeps DEF Store, IInv, TypeOK
<1> QED BY <1>2, <1>3

LEMMA ClearedIsTyped ==
    ASSUME TypeOK, NEW r \in Request
    PROVE  Cleared(r) \in [Scope \X Key -> [rows : Contents, stored : BOOLEAN]]
BY BlankIsTyped DEF Cleared, TypeOK

LEMMA InvalidateKeeps ==
    ASSUME IInv, NEW r \in Request, Invalidate(r)
    PROVE  IInv'
<1>1. cache' \in [Scope \X Key -> [rows : Contents, stored : BOOLEAN]]
  <2>1. Cleared(r) \in [Scope \X Key -> [rows : Contents, stored : BOOLEAN]]
    BY ClearedIsTyped DEF IInv
  <2>2. cache \in [Scope \X Key -> [rows : Contents, stored : BOOLEAN]]
    BY DEF IInv, TypeOK
  <2>3. cache' = Cleared(r) \/ cache' = cache
    BY DEF Invalidate
  <2> QED BY <2>1, <2>2, <2>3
<1>2. Close(r) /\ UNCHANGED <<tenant, nextTenant, product, overtaken>>
  BY DEF Invalidate
<1> QED BY <1>1, <1>2, ClosingKeeps

LEMMA ExpireKeeps ==
    ASSUME IInv, NEW k \in Scope \X Key, Expire(k)
    PROVE  IInv'
<1>1. TypeOK'
  BY BlankIsTyped DEF Expire, IInv, TypeOK
<1>2. Rows' = Rows
  BY DEF Expire, Rows
<1> QED BY <1>1, <1>2 DEF Expire, IInv, HasFirst, ProductsHaveTenants, ProductsStayVisible,
                          Resolving, FindsTenant, ChoosesFirst, Holding

LEMMA CheckSkuKeeps ==
    ASSUME IInv, NEW r \in Request, CheckSku(r)
    PROVE  IInv'
<1>1. CASE Refuse(r)
  BY <1>1, RefuseKeeps
<1>2. CASE ~Refuse(r)
  <2>1. /\ pc[r] = "check" /\ pc' = [pc EXCEPT ![r] = "write"]
        /\ UNCHANGED <<tenant, nextTenant, product, cache, req, overtaken>>
    BY <1>2 DEF CheckSku, Goto
  <2>2. TypeOK' /\ Others(r) /\ pc'[r] = "write"
    BY <2>1 DEF IInv, TypeOK, Others
  <2>3. Rows' = Rows
    BY <2>1 DEF Rows
  <2>4. FindsTenant(r) /\ ChoosesFirst(r)
    BY DEF IInv
  <2>5. Resolving(r)' /\ FindsTenant(r)' /\ ChoosesFirst(r)' /\ Holding(r)'
    BY <2>1, <2>2, <2>3, <2>4 DEF Resolving, FindsTenant, ChoosesFirst, Holding
  <2> QED BY <2>1, <2>2, <2>5, OneRequestMoves
<1> QED BY <1>1, <1>2

LEMMA ReserveKeeps ==
    ASSUME IInv, NEW r \in Request, Reserve(r)
    PROVE  IInv'
<1>1. CASE Refuse(r)
  BY <1>1, RefuseKeeps
<1>2. CASE ~Refuse(r)
  <2>1. /\ Free(r) /\ ~Hidden(r) /\ ~AtBound(r)
        /\ pc' = [pc EXCEPT ![r] = "commit"]
        /\ UNCHANGED <<tenant, nextTenant, product, req, overtaken>>
        /\ cache' \in {Cleared(r), cache}
    BY <1>2 DEF Reserve, Goto
  <2>2. TypeOK' /\ Others(r) /\ pc'[r] = "commit"
    BY <2>1, ClearedIsTyped DEF IInv, TypeOK, Others
  <2>3. ASSUME NEW p \in req[r].products
        PROVE  /\ product[p].version \in 1 .. (MaxVersion - 1)
               /\ \A s \in Request \ {r} : pc[s] = "commit" => p \notin req[s].products
    <3>1. p \in Product
      BY DEF IInv, TypeOK, Body
    <3>2. product[p].version \in 0 .. MaxVersion
      BY <3>1 DEF IInv, TypeOK
    <3>3. product[p].version > 0 /\ product[p].version # MaxVersion
      BY <2>1, <2>3 DEF Hidden, Found, Visible, AtBound
    <3>4. product[p].version \in 1 .. (MaxVersion - 1)
      BY <3>2, <3>3, Bounds
    <3> QED BY <2>1, <2>3, <3>4 DEF Free, Holds
  <2>4. Resolving(r)' /\ FindsTenant(r)' /\ ChoosesFirst(r)'
    BY <2>2 DEF Resolving, FindsTenant, ChoosesFirst
  <2>5. Holding(r)'
    BY <2>1, <2>2, <2>3 DEF Holding, Others
  <2> QED BY <2>1, <2>2, <2>4, <2>5, OneRequestMoves
<1> QED BY <1>1, <1>2

LEMMA ReleaseKeeps ==
    ASSUME IInv, NEW r \in Request, Release(r)
    PROVE  IInv'
<1>1. CASE Refuse(r)
  BY <1>1, RefuseKeeps
<1>2. CASE ~Refuse(r)
  <2>1. /\ Free(r) /\ ~AtBound(r)
        /\ pc' = [pc EXCEPT ![r] = "commit"]
        /\ req' = [req EXCEPT ![r].products = Found(r)]
        /\ UNCHANGED <<tenant, nextTenant, product, overtaken>>
        /\ cache' \in {Cleared(r), cache}
    BY <1>2 DEF Release, Goto
  <2>2. req[r] \in Body /\ Found(r) \subseteq req[r].products /\ Found(r) \in SUBSET Product
    BY DEF IInv, TypeOK, Body, Found
  <2>3. req'[r] = [req[r] EXCEPT !.products = Found(r)] /\ pc'[r] = "commit" /\ Others(r)
    BY <2>1 DEF IInv, TypeOK, Others
  <2>4. req'[r] \in Body /\ req'[r].products = Found(r)
    BY <2>2, <2>3 DEF Body
  <2>5. TypeOK'
    BY <2>1, <2>3, <2>4, ClearedIsTyped DEF IInv, TypeOK
  <2>6. ASSUME NEW p \in Found(r)
        PROVE  /\ product[p].version \in 1 .. (MaxVersion - 1)
               /\ \A s \in Request \ {r} : pc[s] = "commit" => p \notin req[s].products
    <3>1. p \in Product /\ p \in req[r].products
      BY <2>2
    <3>2. product[p].version \in 0 .. MaxVersion
      BY <3>1 DEF IInv, TypeOK
    <3>3. product[p].version > 0 /\ product[p].version # MaxVersion
      BY <2>1, <3>1 DEF Found, Visible, AtBound
    <3>4. product[p].version \in 1 .. (MaxVersion - 1)
      BY <3>2, <3>3, Bounds
    <3> QED BY <2>1, <3>1, <3>4 DEF Free, Holds
  <2>7. Resolving(r)' /\ FindsTenant(r)' /\ ChoosesFirst(r)'
    BY <2>3 DEF Resolving, FindsTenant, ChoosesFirst
  <2>8. Holding(r)'
    BY <2>1, <2>3, <2>4, <2>6 DEF Holding, Others
  <2> QED BY <2>1, <2>3, <2>5, <2>7, <2>8, OneRequestMoves
<1> QED BY <1>1, <1>2

-------------------------------------------------------------------------------
(* The step that adds a tenant. *)

LEMMA CommitTenantKeeps ==
    ASSUME IInv, NEW r \in Request, CommitTenant(r)
    PROVE  IInv'
<1> DEFINE t == req[r].row
           resolving == req[r].user # None
<1>1. /\ pc[r] = "commit tenant"
      /\ tenant' = [tenant EXCEPT ![t] = req[r].owner]
      /\ overtaken' = (overtaken \/ \E s \in Rows : s > t)
      /\ req' = [req EXCEPT ![r].tenant = IF resolving THEN None ELSE t,
                            ![r].user = None, ![r].owner = None, ![r].row = None]
      /\ pc' = [pc EXCEPT ![r] = IF resolving THEN AfterResolve(r) ELSE AfterContext(r)]
      /\ UNCHANGED <<nextTenant, product, cache>>
  BY DEF CommitTenant, Goto
<1>2. req[r] \in Body /\ req[r].owner \in User /\ t \in TenantId /\ None \notin User
  BY <1>1, CatalogueAssumption DEF IInv, TypeOK, Resolving
<1>3. Rows \in SUBSET TenantId
  BY DEF Rows
<1>4. Rows' = Rows \cup {t}
  BY <1>1, <1>2 DEF Rows, IInv, TypeOK
<1>5. resolving /\ AfterResolve(r) \in {"lookup", "context"}
  BY <1>1 DEF AfterResolve, IInv, FindsTenant
<1>6. req'[r] \in Body /\ req'[r].kind = req[r].kind
  <2>1. req'[r] = [req[r] EXCEPT !.tenant = IF resolving THEN None ELSE t,
                                 !.user = None, !.owner = None, !.row = None]
    BY <1>1 DEF IInv, TypeOK
  <2> QED BY <1>2, <2>1 DEF Body
<1>7. pc'[r] \in {"lookup", "context"}
  BY <1>1, <1>5 DEF IInv, TypeOK
<1>8. Others(r)
  BY <1>1 DEF Others, IInv, TypeOK
<1>9. TypeOK'
  <2>1. req' \in [Request -> Body]
    BY <1>1, <1>6 DEF IInv, TypeOK
  <2>2. tenant' \in [TenantId -> User \cup {None}]
    BY <1>1, <1>2 DEF IInv, TypeOK
  <2>3. overtaken' \in BOOLEAN
    BY <1>1
  <2>4. pc' \in [Request -> {"idle", "resolve", "insert tenant", "commit tenant", "lookup",
                             "context", "read", "store", "check", "write", "commit",
                             "invalidate"}]
    BY <1>1, <1>5 DEF IInv, TypeOK
  <2> QED BY <1>1, <2>1, <2>2, <2>3, <2>4 DEF IInv, TypeOK
<1>10. HasFirst'
  <2>1. CASE Rows = {}
    <3>1. \A s \in Rows' : t <= s
      <4>1. t \in Int /\ \A s \in Rows' : s = t
        BY <1>2, <1>4, <2>1, Bounds
      <4> QED BY <4>1
    <3> QED BY <1>4, <3>1 DEF HasFirst
  <2>2. CASE Rows # {}
    <3>1. PICK m \in Rows : \A s \in Rows : m <= s
      BY <2>2 DEF IInv, HasFirst
    <3>2. m \in Int /\ t \in Int /\ Rows \subseteq Int
      BY <1>2, <1>3, Bounds
    <3>3. CASE m <= t
      BY <1>4, <3>1, <3>3 DEF HasFirst
    <3>4. CASE t < m
      <4>1. \A s \in Rows' : t <= s
        BY <1>4, <3>1, <3>2, <3>4
      <4> QED BY <1>4, <4>1 DEF HasFirst
    <3> QED BY <3>2, <3>3, <3>4
  <2> QED BY <2>1, <2>2
<1>11. Rows # {} /\ ~overtaken' => ~overtaken /\ FirstOf(Rows') = FirstOf(Rows)
  <2>1. SUFFICES ASSUME Rows # {}, ~overtaken'
                 PROVE  ~overtaken /\ FirstOf(Rows') = FirstOf(Rows)
    OBVIOUS
  <2>2. ~overtaken /\ \A s \in Rows : ~(s > t)
    BY <1>1, <2>1
  <2>3. Rows \subseteq Int /\ t \in Int
    BY <1>2, <1>3, Bounds
  <2>4. \A s \in Rows : s <= t
    BY <2>2, <2>3
  <2>5. PICK m \in Rows : \A s \in Rows : m <= s
    BY <2>1 DEF IInv, HasFirst
  <2>6. FirstOf(Rows \cup {t}) = FirstOf(Rows)
    BY <1>2, <1>3, <2>4, <2>5, LaterRowIsNotFirst
  <2> QED BY <1>4, <2>2, <2>6
<1>12. ProductsHaveTenants' /\ ProductsStayVisible'
  BY <1>1, <1>4, <1>11 DEF IInv, ProductsHaveTenants, ProductsStayVisible
<1>13. Resolving(r)' /\ FindsTenant(r)' /\ ChoosesFirst(r)' /\ Holding(r)'
  <2>1. Resolving(r)' /\ Holding(r)' /\ ChoosesFirst(r)'
    BY <1>7 DEF Resolving, Holding, ChoosesFirst
  <2>2. FindsTenant(r)'
    BY <1>4, <1>7 DEF FindsTenant
  <2> QED BY <2>1, <2>2
<1>14. ASSUME NEW s \in Request \ {r}
       PROVE  Resolving(s)' /\ FindsTenant(s)' /\ ChoosesFirst(s)' /\ Holding(s)'
  <2>1. pc'[s] = pc[s] /\ req'[s] = req[s]
    BY <1>8 DEF Others
  <2>2. Resolving(s) /\ FindsTenant(s) /\ ChoosesFirst(s) /\ Holding(s)
    BY DEF IInv
  <2>3. Resolving(s)'
    BY <2>1, <2>2 DEF Resolving
  <2>4. FindsTenant(s)'
    BY <1>4, <2>1, <2>2 DEF FindsTenant
  <2>5. ChoosesFirst(s)'
    BY <1>11, <2>1, <2>2 DEF ChoosesFirst, FindsTenant
  <2>6. pc'[r] # "commit"
    BY <1>7
  <2>7. Holding(s)'
    BY <1>1, <1>8, <2>1, <2>2, <2>6 DEF Holding, Others
  <2> QED BY <2>3, <2>4, <2>5, <2>7
<1> QED BY <1>9, <1>10, <1>12, <1>13, <1>14 DEF IInv

-------------------------------------------------------------------------------
(* The steps that change products. *)

ProductRow == [tenant : TenantId \cup {None}, version : 0 .. MaxVersion, deleted : BOOLEAN]

LEMMA WriteIsTyped ==
    ASSUME IInv, NEW r \in Request, product' \in [Product -> ProductRow],
           UNCHANGED <<tenant, nextTenant, cache, overtaken>>,
           Close(r) \/ (Goto(r, "invalidate") /\ UNCHANGED req)
    PROVE  TypeOK' /\ Others(r) /\ pc'[r] \in {"idle", "invalidate"}
<1>1. CASE Close(r)
  BY <1>1, BlankIsTyped DEF Close, Goto, Others, IInv, TypeOK, ProductRow
<1>2. CASE Goto(r, "invalidate") /\ UNCHANGED req
  BY <1>2 DEF Goto, Others, IInv, TypeOK, ProductRow
<1> QED BY <1>1, <1>2

LEMMA CreateKeeps ==
    ASSUME IInv, NEW r \in Request, Create(r)
    PROVE  IInv'
<1>1. CASE Refuse(r)
  BY <1>1, RefuseKeeps
<1>2. CASE ~Refuse(r)
  <2>1. /\ pc[r] = "write" /\ ~Taken(req[r].products)
        /\ product' = Created(r)
        /\ UNCHANGED <<tenant, nextTenant, cache, overtaken>>
        /\ Close(r) \/ (Goto(r, "invalidate") /\ UNCHANGED req)
    BY <1>2 DEF Create
  <2>2. Rows # {} /\ (~overtaken => req[r].tenant = FirstOf(Rows))
    BY <2>1 DEF IInv, FindsTenant, ChoosesFirst
  <2>3. req[r].tenant \in TenantId \cup {None} /\ req[r].products \subseteq Product
    BY DEF IInv, TypeOK, Body
  <2>4. [tenant |-> req[r].tenant, version |-> 1, deleted |-> FALSE] \in ProductRow
    <3>1. MaxVersion \in Nat \ {0}
      BY CatalogueAssumption
    <3> QED BY <2>3, <3>1 DEF ProductRow
  <2>5. \A p \in Product :
          product'[p] = IF p \in req[r].products
                        THEN [tenant |-> req[r].tenant, version |-> 1, deleted |-> FALSE]
                        ELSE product[p]
    BY <2>1 DEF Created
  <2>6. product \in [Product -> ProductRow]
    BY DEF IInv, TypeOK, ProductRow
  <2>7. product' \in [Product -> ProductRow]
    BY <2>1, <2>4, <2>6 DEF Created
  <2>8. TypeOK' /\ Others(r) /\ pc'[r] \in {"idle", "invalidate"}
    BY <2>1, <2>7, WriteIsTyped
  <2>9. ASSUME NEW p \in Product, product'[p].version > 0
        PROVE  /\ Rows # {}
               /\ \/ product[p].version > 0 /\ product'[p].tenant = product[p].tenant
                  \/ ~overtaken => product'[p].tenant = FirstOf(Rows)
    BY <2>2, <2>5, <2>9
  <2>10. ASSUME NEW s \in Request \ {r}, pc[s] = "commit", NEW p \in req[s].products
         PROVE  product'[p].version = product[p].version
    <3>1. p \in Product /\ product[p].version \in 1 .. (MaxVersion - 1)
      BY <2>10 DEF IInv, Holding, TypeOK, Body
    <3>2. product[p].version > 0
      BY <3>1, Bounds
    <3>3. p \notin req[r].products
      BY <2>1, <3>2 DEF Taken
    <3> QED BY <2>5, <3>1, <3>3
  <2> QED BY <2>1, <2>8, <2>9, <2>10, ProductsChange
<1> QED BY <1>1, <1>2

\* Changing rows of products that exist, none of which another request holds.
LEMMA UpdateKeeps ==
    ASSUME IInv, NEW r \in Request, NEW ps \in SUBSET Product,
           \A p \in ps : product[p].version > 0,
           \A s \in Request \ {r} : pc[s] = "commit" => ps \cap req[s].products = {},
           product' \in [Product -> ProductRow],
           \A p \in Product : product'[p].tenant = product[p].tenant,
           \A p \in Product \ ps : product'[p] = product[p],
           UNCHANGED <<tenant, nextTenant, cache, overtaken>>,
           Close(r) \/ (Goto(r, "invalidate") /\ UNCHANGED req)
    PROVE  IInv'
<1>1. TypeOK' /\ Others(r) /\ pc'[r] \in {"idle", "invalidate"}
  BY WriteIsTyped
<1>2. ASSUME NEW p \in Product, product'[p].version > 0
      PROVE  Rows # {} /\ product[p].version > 0 /\ product'[p].tenant = product[p].tenant
  <2>1. product[p].version > 0
    BY <1>2
  <2> QED BY <2>1 DEF IInv, ProductsHaveTenants
<1>3. ASSUME NEW s \in Request \ {r}, pc[s] = "commit", NEW p \in req[s].products
      PROVE  product'[p].version = product[p].version
  <2>1. p \in Product
    BY DEF IInv, TypeOK, Body
  <2> QED BY <1>3, <2>1
<1> QED BY <1>1, <1>2, <1>3, ProductsChange

\* Counting a version up, short of the bound.
LEMMA NextVersion ==
    ASSUME NEW row \in ProductRow, row.version # MaxVersion
    PROVE  /\ [row EXCEPT !.version = @ + 1] \in ProductRow
           /\ [row EXCEPT !.deleted = FALSE, !.version = @ + 1] \in ProductRow
<1>1. row.version \in 0 .. MaxVersion /\ MaxVersion \in Nat
  BY Bounds DEF ProductRow
<1>2. row.version + 1 \in 0 .. MaxVersion
  BY <1>1
<1> QED BY <1>2 DEF ProductRow

LEMMA ChangedIsTyped ==
    ASSUME IInv, NEW r \in Request, \A p \in req[r].products : product[p].version # MaxVersion
    PROVE  /\ Changed(r) \in [Product -> ProductRow]
           /\ \A p \in Product : Changed(r)[p].tenant = product[p].tenant
           /\ \A p \in Product \ req[r].products : Changed(r)[p] = product[p]
<1>1. product \in [Product -> ProductRow] /\ req[r].products \subseteq Product
  BY DEF IInv, TypeOK, ProductRow, Body
<1>2. \A p \in Product : Changed(r)[p] = IF p \in req[r].products
                                         THEN [product[p] EXCEPT !.version = @ + 1]
                                         ELSE product[p]
  BY DEF Changed
<1>3. ASSUME NEW p \in req[r].products
      PROVE  [product[p] EXCEPT !.version = @ + 1] \in ProductRow
  BY <1>1, NextVersion
<1>4. Changed(r) \in [Product -> ProductRow]
  BY <1>1, <1>3 DEF Changed
<1>5. \A p \in Product : Changed(r)[p].tenant = product[p].tenant
  BY <1>1, <1>2 DEF ProductRow
<1> QED BY <1>2, <1>4, <1>5

\* Who is free to write holds what no other request has locked.
LEMMA FreeIsApart ==
    ASSUME NEW r \in Request, Free(r)
    PROVE  \A s \in Request \ {r} : pc[s] = "commit" => req[r].products \cap req[s].products = {}
BY DEF Free, Holds

LEMMA ChangeKeeps ==
    ASSUME IInv, NEW r \in Request, Change(r)
    PROVE  IInv'
<1>1. CASE Refuse(r)
  BY <1>1, RefuseKeeps
<1>2. CASE ~Refuse(r)
  <2>1. /\ Free(r) /\ ~Hidden(r) /\ ~AtBound(r)
        /\ product' = Changed(r) /\ Goto(r, "invalidate")
        /\ UNCHANGED <<tenant, nextTenant, cache, req, overtaken>>
    BY <1>2 DEF Change
  <2>2. req[r].products \in SUBSET Product
    BY DEF IInv, TypeOK, Body
  <2>3. \A p \in req[r].products : product[p].version > 0 /\ product[p].version # MaxVersion
    BY <2>1 DEF Hidden, Found, Visible, AtBound
  <2> QED BY <2>1, <2>2, <2>3, ChangedIsTyped, FreeIsApart, UpdateKeeps
<1> QED BY <1>1, <1>2

LEMMA DeleteKeeps ==
    ASSUME IInv, NEW r \in Request, Delete(r)
    PROVE  IInv'
<1>1. CASE Refuse(r)
  BY <1>1, RefuseKeeps
<1>2. CASE ~Refuse(r)
  <2>1. /\ Free(r) /\ product' = Deleted(Found(r)) /\ Goto(r, "invalidate")
        /\ UNCHANGED <<tenant, nextTenant, cache, req, overtaken>>
    BY <1>2 DEF Delete
  <2>2. req[r].products \in SUBSET Product /\ product \in [Product -> ProductRow]
    BY DEF IInv, TypeOK, Body, ProductRow
  <2>3. /\ Found(r) \subseteq req[r].products
        /\ \A p \in Found(r) : product[p].version > 0
    BY DEF Found, Visible
  <2>4. /\ product' \in [Product -> ProductRow]
        /\ \A p \in Product : product'[p].tenant = product[p].tenant
        /\ \A p \in Product \ Found(r) : product'[p] = product[p]
    BY <2>1, <2>2 DEF Deleted, ProductRow
  <2>5. \A s \in Request \ {r} : pc[s] = "commit" => Found(r) \cap req[s].products = {}
    BY <2>1, <2>3, FreeIsApart
  <2>6. Found(r) \in SUBSET Product
    BY <2>2, <2>3
  <2> QED BY <2>1, <2>3, <2>4, <2>5, <2>6, UpdateKeeps
<1> QED BY <1>1, <1>2

LEMMA RestoreKeeps ==
    ASSUME IInv, NEW r \in Request, Restore(r)
    PROVE  IInv'
<1>1. CASE Refuse(r)
  BY <1>1, RefuseKeeps
<1>2. CASE ~Refuse(r)
  <2>1. PICK p \in req[r].products :
          /\ product[p].version > 0 /\ ~AtBound(r)
          /\ product' = [product EXCEPT ![p].deleted = FALSE, ![p].version = @ + 1]
          /\ Close(r)
          /\ UNCHANGED <<tenant, nextTenant, cache, overtaken>>
    BY <1>2 DEF Restore
  <2>2. Free(r)
    BY DEF Restore
  <2>3. p \in Product /\ product \in [Product -> ProductRow]
    BY DEF IInv, TypeOK, Body, ProductRow
  <2>4. [product[p] EXCEPT !.deleted = FALSE, !.version = @ + 1] \in ProductRow
    BY <2>1, <2>3, NextVersion DEF AtBound
  <2>5. product' = [product EXCEPT ![p] = [product[p] EXCEPT !.deleted = FALSE, !.version = @ + 1]]
    BY <2>1, <2>3
  <2>6. /\ product' \in [Product -> ProductRow]
        /\ \A q \in Product : product'[q].tenant = product[q].tenant
        /\ \A q \in Product \ {p} : product'[q] = product[q]
    BY <2>3, <2>4, <2>5 DEF ProductRow
  <2>7. \A s \in Request \ {r} : pc[s] = "commit" => {p} \cap req[s].products = {}
    BY <2>1, <2>2, FreeIsApart
  <2>8. {p} \in SUBSET Product /\ \A q \in {p} : product[q].version > 0
    BY <2>1, <2>3
  <2>9. UNCHANGED <<tenant, nextTenant, cache, overtaken>> /\ Close(r)
    BY <2>1
  <2> QED BY <2>6, <2>7, <2>8, <2>9, UpdateKeeps
<1> QED BY <1>1, <1>2

LEMMA CommitOrderKeeps ==
    ASSUME IInv, NEW r \in Request, CommitOrder(r)
    PROVE  IInv'
<1>1. CASE product' = product
  BY <1>1, ClosingKeeps DEF CommitOrder, IInv, TypeOK
<1>2. CASE product' = Changed(r)
  <2>1. req[r].products \in SUBSET Product
    BY DEF IInv, TypeOK, Body
  <2>2. \A p \in req[r].products : product[p].version \in 1 .. (MaxVersion - 1)
    BY DEF CommitOrder, IInv, Holding
  <2>3. \A p \in req[r].products : product[p].version > 0 /\ product[p].version # MaxVersion
    BY <2>2, Bounds
  <2>4. \A s \in Request \ {r} : pc[s] = "commit" => req[r].products \cap req[s].products = {}
    BY DEF CommitOrder, IInv, Holding
  <2> QED BY <1>2, <2>1, <2>3, <2>4, ChangedIsTyped, UpdateKeeps DEF CommitOrder
<1> QED BY <1>1, <1>2 DEF CommitOrder

-------------------------------------------------------------------------------
(* The theorems. *)

LEMMA Initially == Init => IInv
<1> SUFFICES ASSUME Init PROVE IInv
  OBVIOUS
<1>1. MaxTenant \in Nat /\ MaxVersion \in Nat /\ None \notin User
  BY CatalogueAssumption
<1>2. 1 \in 1 .. MaxTenant + 1 /\ 0 \in 0 .. MaxVersion
  BY <1>1
<1>3. TypeOK
  BY <1>2, BlankIsTyped DEF Init, TypeOK, NoRow
<1>4. Rows = {}
  BY DEF Init, Rows
<1>5. \A p \in Product : ~(product[p].version > 0)
  BY DEF Init, NoRow
<1>6. ASSUME NEW r \in Request
      PROVE  Resolving(r) /\ FindsTenant(r) /\ ChoosesFirst(r) /\ Holding(r)
  BY DEF Init, Resolving, FindsTenant, ChoosesFirst, Holding
<1> QED BY <1>3, <1>4, <1>5, <1>6 DEF IInv, HasFirst, ProductsHaveTenants, ProductsStayVisible

LEMMA Step == ASSUME IInv, [Next]_vars PROVE IInv'
<1>1. ASSUME NEW r \in Request, Begin(r) PROVE IInv'
  BY <1>1, BeginKeeps
<1>2. ASSUME NEW r \in Request, Run(r) PROVE IInv'
  BY <1>2, ResolveTenantKeeps, RequireTenantKeeps, InsertTenantKeeps, CommitTenantKeeps,
     LookupKeeps, ReadKeeps, StoreKeeps, CheckSkuKeeps, CreateKeeps, ChangeKeeps, DeleteKeeps,
     RestoreKeeps, InvalidateKeeps, ReserveKeeps, ReleaseKeeps, CommitOrderKeeps DEF Run
<1>3. ASSUME NEW k \in Scope \X Key, Expire(k) PROVE IInv'
  BY <1>3, ExpireKeeps
<1>4. CASE UNCHANGED vars
  BY <1>4 DEF vars, IInv, TypeOK, HasFirst, ProductsHaveTenants, ProductsStayVisible, Rows,
              Resolving, FindsTenant, ChoosesFirst, Holding
<1> QED BY <1>1, <1>2, <1>3, <1>4 DEF Next

LEMMA Invariance == Spec => []IInv
<1> QED BY Initially, Step, PTL DEF Spec

\* What requests, tables and the cache hold: the versions and ids that the
\* model counts stay within their bounds, and a request that commits a tenant
\* or an order has read the rows it writes.
THEOREM CatalogueIsTyped == Spec => []TypeOK
<1>1. IInv => TypeOK
  BY DEF IInv
<1> QED BY <1>1, Invariance, PTL

\* Whatever the number of users, products and requests at once: a product is
\* in the tenant that every handler falls back to, unless a row of tenants
\* was committed after one with a greater id (dependencies/tenant.py:34-46).
THEOREM ProductsAreVisible == Spec => []ProductsStayVisible
<1>1. IInv => ProductsStayVisible
  BY DEF IInv
<1> QED BY <1>1, Invariance, PTL
===============================================================================
