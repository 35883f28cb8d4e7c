------------------------------- MODULE Catalogue -------------------------------
(***************************************************************************)
(* The catalogue as its readers see it: the tenant that a handler works    *)
(* in (dependencies/tenant.py), creating products (ProductService.create   *)
(* and bulk_create) and the cache in front of them (core/cache.py and the  *)
(* handlers of routers/v1/products.py).                                    *)
(*                                                                         *)
(* A handler and each of its dependencies is a plain function and runs in  *)
(* a thread with a copy of the request's context: the tenant that          *)
(* get_current_active_user sets is gone when the handler runs, and every   *)
(* handler starts without one.  What OrderStock models of the rows         *)
(* (columns, snapshots, locks of several rows) is one version number here. *)
(*                                                                         *)
(* overtaken only observes.  Operators named Op_Variant are faulty         *)
(* versions of Op.                                                         *)
(***************************************************************************)
EXTENDS Integers, FiniteSets

CONSTANTS
    User, FirstUser,   \* FirstUser has the smallest id
    Product,           \* SKUs
    Op,                \* what clients ask for
    Request,
    MaxTenant,         \* bound on the rows of tenants ever inserted
    MaxVersion,        \* bound on the changes of a product
    List,              \* the cache key of GET /products
    Public,            \* the scope of a handler without a tenant
    None

TenantId == 1 .. MaxTenant
Key == Product \cup {List}
Scope == TenantId \cup {Public}
Kind == {"read", "create", "bulk create", "change", "delete", "restore", "reserve", "release"}
Asked == [kind : Kind, user : User, key : Key \cup {None}, products : SUBSET Product]

ASSUME CatalogueAssumption ==
    /\ FirstUser \in User /\ None \notin User \cup TenantId
    /\ List \notin Product /\ Public \notin TenantId
    /\ MaxTenant \in Nat /\ MaxVersion \in Nat \ {0}
    /\ Op \subseteq Asked /\ \A op \in Op : op.kind = "read" => op.key \in Key

VARIABLES
    tenant,      \* the owner of each row of tenants, None if there is no such row
    nextTenant,  \* AUTO_INCREMENT of tenants
    product,     \* rows of products: their tenant, version 0 if there is no row
    cache,       \* Redis: what is stored under a key of a scope
    pc, req,     \* what a request does next and what it has read
    overtaken    \* a row of tenants was committed after one with a greater id

vars == <<tenant, nextTenant, product, cache, pc, req, overtaken>>

NoRow == [tenant |-> None, version |-> 0, deleted |-> FALSE]
NoEntry == [rows |-> {}, stored |-> FALSE]
Blank == [kind |-> "none", user |-> None, products |-> {}, key |-> None,
          owner |-> None, row |-> None, tenant |-> None, seen |-> {}]

Contents == SUBSET (Product \X ((1 .. MaxVersion) \cup {None}))
Body == [kind : Kind \cup {"none"}, user : User \cup {None}, products : SUBSET Product,
         key : Key \cup {None}, owner : User \cup {None}, row : TenantId \cup {None},
         tenant : TenantId \cup {None}, seen : Contents]

TypeOK ==
    /\ tenant \in [TenantId -> User \cup {None}]
    /\ nextTenant \in 1 .. MaxTenant + 1
    /\ product \in [Product -> [tenant : TenantId \cup {None}, version : 0 .. MaxVersion,
                                deleted : BOOLEAN]]
    /\ cache \in [Scope \X Key -> [rows : Contents, stored : BOOLEAN]]
    /\ pc \in [Request -> {"idle", "resolve", "insert tenant", "commit tenant", "lookup",
                           "context", "read", "store", "check", "write", "commit", "invalidate"}]
    /\ req \in [Request -> Body]
    /\ overtaken \in BOOLEAN

Init ==
    /\ tenant = [t \in TenantId |-> None]
    /\ nextTenant = 1
    /\ product = [p \in Product |-> NoRow]
    /\ cache = [k \in Scope \X Key |-> NoEntry]
    /\ pc = [r \in Request |-> "idle"]
    /\ req = [r \in Request |-> Blank]
    /\ overtaken = FALSE

-------------------------------------------------------------------------------
Goto(r, label) == pc' = [pc EXCEPT ![r] = label]
Close(r) == Goto(r, "idle") /\ req' = [req EXCEPT ![r] = Blank]

\* Also an exception before the commit: nothing of the transaction stays.
Refuse(r) == Close(r) /\ UNCHANGED <<tenant, nextTenant, product, cache, overtaken>>

Rows == {t \in TenantId : tenant[t] # None}
Owns(u) == \E t \in TenantId : tenant[t] = u

\* The tenant that get_required_tenant_id falls back to.
FirstOf_Newest(rows) == CHOOSE t \in rows : \A s \in rows : t >= s
FirstOf_OwnerId(rows) == tenant[CHOOSE t \in rows : \A s \in rows : t <= s]
FirstOf(rows) == CHOOSE t \in rows : \A s \in rows : t <= s

\* get_by_id and list_products, in tenant t.
Visible(p, t) == product[p].version > 0 /\ ~product[p].deleted /\ product[p].tenant = t
Content(k, t) ==
    {<<p, product[p].version>> : p \in {q \in Product : k \in {q, List} /\ Visible(q, t)}}

-------------------------------------------------------------------------------
(* The tenant of a request. *)

\* Every handler of products depends on get_current_active_user.
Begin(r) ==
    /\ pc[r] = "idle"
    /\ \E op \in Op :
        req' = [req EXCEPT ![r] = [Blank EXCEPT !.kind = op.kind, !.user = op.user,
                                                !.key = op.key, !.products = op.products]]
    /\ Goto(r, "resolve")
    /\ UNCHANGED <<tenant, nextTenant, product, cache, overtaken>>

\* A handler that reads looks in the cache before it has a tenant.
AfterResolve(r) == IF req[r].kind = "read" THEN "lookup" ELSE "context"

\* resolve_tenant_for_user: a user without a tenant is given one.  With a
\* header X-Tenant-ID it only checks, like for a user that has one.
ResolveTenant(r) ==
    /\ pc[r] = "resolve"
    /\ IF Owns(req[r].user)
       THEN /\ Goto(r, AfterResolve(r))
            /\ req' = [req EXCEPT ![r].user = None]
       ELSE /\ Goto(r, "insert tenant")
            /\ req' = [req EXCEPT ![r].owner = req[r].user]
    /\ UNCHANGED <<tenant, nextTenant, product, cache, overtaken>>

AfterContext(r) ==
    CASE req[r].kind = "read" -> "read"
      [] req[r].kind = "create" -> "check"
      [] OTHER -> "write"

\* get_required_tenant_id, in a session of its own.  It can create a row too,
\* but no handler of products gets here before its user has a tenant.
RequireTenant(r) ==
    /\ pc[r] = "context"
    /\ IF Rows = {}
       THEN /\ Goto(r, "insert tenant")
            /\ req' = [req EXCEPT ![r].owner = FirstUser]
       ELSE /\ Goto(r, AfterContext(r))
            /\ req' = [req EXCEPT ![r].tenant = FirstOf(Rows)]
    /\ UNCHANGED <<tenant, nextTenant, product, cache, overtaken>>

\* The name "Tenant <id>" is unique: an INSERT waits for another transaction
\* that holds it and fails if that commits.
InsertTenant(r) ==
    /\ pc[r] = "insert tenant"
    /\ \A s \in Request : ~(pc[s] = "commit tenant" /\ req[s].owner = req[r].owner)
    /\ \/ Owns(req[r].owner) /\ Refuse(r)
       \/ /\ ~Owns(req[r].owner) /\ nextTenant <= MaxTenant
          /\ nextTenant' = nextTenant + 1
          /\ req' = [req EXCEPT ![r].row = nextTenant]
          /\ Goto(r, "commit tenant")
          /\ UNCHANGED <<tenant, product, cache, overtaken>>

\* The handler that falls back keeps the row it has created; a dependency's
\* choice is lost.
CommitTenant(r) ==
    LET resolving == req[r].user # None
    IN /\ pc[r] = "commit tenant"
       /\ tenant' = [tenant EXCEPT ![req[r].row] = req[r].owner]
       /\ overtaken' = (overtaken \/ \E t \in Rows : t > req[r].row)
       /\ req' = [req EXCEPT ![r].tenant = IF resolving THEN None ELSE req[r].row,
                             ![r].user = None, ![r].owner = None, ![r].row = None]
       /\ Goto(r, IF resolving THEN AfterResolve(r) ELSE AfterContext(r))
       /\ UNCHANGED <<nextTenant, product, cache>>

-------------------------------------------------------------------------------
(* Reading through the cache. *)

\* cache_get, under a key that is computed before there is a tenant: what is
\* stored is the answer.  Redis may have nothing, or not answer.
Lookup(r) ==
    /\ pc[r] = "lookup"
    /\ \/ cache[<<Public, req[r].key>>].stored /\ Refuse(r)
       \/ /\ Goto(r, "context")
          /\ UNCHANGED <<tenant, nextTenant, product, cache, req, overtaken>>

\* A product that is not found is answered 404 and not cached.
Read(r) ==
    /\ pc[r] = "read"
    /\ LET rows == Content(req[r].key, req[r].tenant)
       IN \/ rows = {} /\ req[r].key # List /\ Refuse(r)
          \/ /\ rows # {} \/ req[r].key = List
             /\ req' = [req EXCEPT ![r].seen = rows]
             /\ Goto(r, "store")
             /\ UNCHANGED <<tenant, nextTenant, product, cache, overtaken>>

\* json.dumps(value, default=str): a product of a list is stored as its repr,
\* which tells the product and nothing of its row; a single product is stored
\* as its response.
Encoded(k, rows) == IF k = List THEN {<<row[1], None>> : row \in rows} ELSE rows

Store(r) ==
    LET k == req[r].key
    IN /\ pc[r] = "store"
       /\ \/ cache' = [cache EXCEPT ![<<Public, k>>] =
                          [rows |-> Encoded(k, req[r].seen), stored |-> TRUE]]
          \/ UNCHANGED cache   \* Redis does not answer
       /\ Close(r)
       /\ UNCHANGED <<tenant, nextTenant, product, overtaken>>

\* The time to live of an entry, CACHE_DEFAULT_TTL_SECONDS.
Expire(k) ==
    /\ cache[k].stored
    /\ cache' = [cache EXCEPT ![k] = NoEntry]
    /\ UNCHANGED <<tenant, nextTenant, product, pc, req, overtaken>>

-------------------------------------------------------------------------------
(* Writing. *)

Holds(s, p) == pc[s] = "commit" /\ p \in req[s].products
Free(r) == \A s \in Request \ {r}, p \in req[r].products : ~Holds(s, p)
Taken(ps) == \E p \in ps : product[p].version > 0

\* ProductService.create looks for the SKU first (409).
CheckSku(r) ==
    /\ pc[r] = "check"
    /\ \/ Taken(req[r].products) /\ Refuse(r)
       \/ /\ ~Taken(req[r].products)
          /\ Goto(r, "write")
          /\ UNCHANGED <<tenant, nextTenant, product, cache, req, overtaken>>

Created(r) ==
    [p \in Product |-> IF p \in req[r].products
                       THEN [tenant |-> req[r].tenant, version |-> 1, deleted |-> FALSE]
                       ELSE product[p]]

\* The unique SKU refuses the transaction with all of its rows.  bulk_create
\* leaves the cache alone.
Create(r) ==
    /\ pc[r] = "write" /\ req[r].kind \in {"create", "bulk create"}
    /\ \/ Taken(req[r].products) /\ Refuse(r)
       \/ /\ ~Taken(req[r].products)
          /\ product' = Created(r)
          /\ IF req[r].kind = "create" THEN Goto(r, "invalidate") /\ UNCHANGED req ELSE Close(r)
          /\ UNCHANGED <<tenant, nextTenant, cache, overtaken>>

AtBound(r) == \E p \in req[r].products : product[p].version = MaxVersion
Found(r) == {p \in req[r].products : Visible(p, req[r].tenant)}
Hidden(r) == Found(r) # req[r].products
Changed(r) ==
    [p \in Product |-> IF p \in req[r].products
                       THEN [product[p] EXCEPT !.version = @ + 1] ELSE product[p]]
Deleted(ps) ==
    [p \in Product |-> IF p \in ps THEN [product[p] EXCEPT !.deleted = TRUE] ELSE product[p]]

\* PATCH and PUT, also of several products (all or, with 404, none): the rows
\* are committed and then the cache is cleared.
Change(r) ==
    /\ pc[r] = "write" /\ req[r].kind = "change"
    /\ Free(r)
    /\ \/ (Hidden(r) \/ AtBound(r)) /\ Refuse(r)
       \/ /\ ~Hidden(r) /\ ~AtBound(r)
          /\ product' = Changed(r)
          /\ Goto(r, "invalidate")
          /\ UNCHANGED <<tenant, nextTenant, cache, req, overtaken>>

\* DELETE: a bulk deletion skips the products it does not find and clears the
\* cache of all; a deletion of one that is not found is answered 404.
Delete(r) ==
    /\ pc[r] = "write" /\ req[r].kind = "delete"
    /\ Free(r)
    /\ \/ Found(r) = {} /\ Refuse(r)
       \/ /\ product' = Deleted(Found(r))
          /\ Goto(r, "invalidate")
          /\ UNCHANGED <<tenant, nextTenant, cache, req, overtaken>>

\* restore_product does not touch the cache.
Restore(r) ==
    /\ pc[r] = "write" /\ req[r].kind = "restore"
    /\ Free(r)
    /\ \E p \in req[r].products :
        LET found == product[p].version > 0 /\ product[p].tenant = req[r].tenant /\ product[p].deleted
        IN \/ (~found \/ AtBound(r)) /\ Refuse(r)
           \/ /\ found /\ ~AtBound(r)
              /\ product' = [product EXCEPT ![p].deleted = FALSE, ![p].version = @ + 1]
              /\ Close(r)
              /\ UNCHANGED <<tenant, nextTenant, cache, overtaken>>

\* cache_delete and cache_delete_prefix, in the scope of the handler's tenant.
\* release_stock leaves the lists.
ClearedKeys(r) == IF req[r].kind = "release" THEN Found(r) ELSE req[r].products \cup {List}
Cleared(r) ==
    [k \in Scope \X Key |-> IF k[1] = req[r].tenant /\ k[2] \in ClearedKeys(r)
                            THEN NoEntry ELSE cache[k]]

Invalidate(r) ==
    /\ pc[r] = "invalidate"
    /\ \/ cache' = Cleared(r)
       \/ UNCHANGED cache   \* Redis does not answer
    /\ Close(r)
    /\ UNCHANGED <<tenant, nextTenant, product, overtaken>>

\* reserve_stock and release_stock lock the row and clear the cache before
\* the order is committed.
Reserve(r) ==
    /\ pc[r] = "write" /\ req[r].kind = "reserve"
    /\ Free(r)
    /\ \/ (Hidden(r) \/ AtBound(r)) /\ Refuse(r)
       \/ /\ ~Hidden(r) /\ ~AtBound(r)
          /\ \/ cache' = Cleared(r)
             \/ UNCHANGED cache
          /\ Goto(r, "commit")
          /\ UNCHANGED <<tenant, nextTenant, product, req, overtaken>>

\* A product that is not found is passed over.
Release(r) ==
    /\ pc[r] = "write" /\ req[r].kind = "release"
    /\ Free(r)
    /\ \/ AtBound(r) /\ Refuse(r)
       \/ /\ ~AtBound(r)
          /\ \/ cache' = Cleared(r)
             \/ UNCHANGED cache
          /\ req' = [req EXCEPT ![r].products = Found(r)]
          /\ Goto(r, "commit")
          /\ UNCHANGED <<tenant, nextTenant, product, overtaken>>

CommitOrder(r) ==
    /\ pc[r] = "commit"
    /\ \/ product' = Changed(r)
       \/ UNCHANGED product   \* the order is refused for another line
    /\ Close(r)
    /\ UNCHANGED <<tenant, nextTenant, cache, overtaken>>

-------------------------------------------------------------------------------
Run(r) ==
    \/ ResolveTenant(r) \/ RequireTenant(r) \/ InsertTenant(r) \/ CommitTenant(r)
    \/ Lookup(r) \/ Read(r) \/ Store(r)
    \/ CheckSku(r) \/ Create(r) \/ Change(r) \/ Delete(r) \/ Restore(r) \/ Invalidate(r)
    \/ Reserve(r) \/ Release(r) \/ CommitOrder(r)

Next ==
    \/ \E r \in Request : Begin(r) \/ Run(r)
    \/ \E k \in Scope \X Key : Expire(k)

Spec == Init /\ [][Next]_vars

-------------------------------------------------------------------------------
(* Properties. *)

\* Handlers choose their tenant one by one, from what is committed at that
\* moment, and the row a handler has created may not be the one the others
\* fall back to: every product is in the tenant that all of them look in, as
\* long as the rows of tenants are committed in the order of their ids
\* (dependencies/tenant.py:34-46, product_service.py:37, 51, 62).
ProductsStayVisible ==
    ~overtaken => \A p \in Product : product[p].version > 0 => product[p].tenant = FirstOf(Rows)

\* When no request is in progress, a product that a read would find in the
\* cache is the product as the database has it: "Cache-aside pattern"
\* (COMPLETION_REPORT.md:90), and the items of a list are ProductResponses
\* (routers/v1/products.py:31).  It is not: json.dumps stores the products of a
\* list as their reprs, a write clears the keys of a scope that no read fills,
\* and a slow reader may fill a key after the write (core/cache.py:10-14, 35;
\* product_service.py:181).
CachedProductsAreCurrent ==
    (\A r \in Request : pc[r] = "idle") =>
        \A k \in Key : \A row \in cache[<<Public, k>>].rows : row \in Content(k, FirstOf(Rows))
===============================================================================
