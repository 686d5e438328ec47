-------------------------------- MODULE Tenants --------------------------------
(***************************************************************************)
(* The tenants of the carrier connector and their users: two tables,       *)
(* written by requests of which every command is a step.  An update reads  *)
(* the row of a tenant, sets the fields it was given and saves all of it;  *)
(* so does the configuration written at the end of a creation.  gorm's     *)
(* Save inserts the row when its UPDATE has met none.                      *)
(*                                                                         *)
(* A command that fails ends its request, and so does a restart.  The      *)
(* routes name the tenant `id` and the handlers of users, keys and         *)
(* configuration look for `tenant_id`: of those only the addition of a     *)
(* user, which takes the tenant from its body, gets past the handler.      *)
(***************************************************************************)
EXTENDS Naturals

CONSTANTS Tenants,            \* bound: the ids creations come to draw
          Domains, Users,
          Operators,          \* requests being served
          Settings,           \* values a field can be given
          Defaults,           \* the value the configuration of a creation writes
          MaxChanges          \* bound on the updates and additions of users

ASSUME DefaultsIsSetting == Defaults \in Settings
ASSUME MaxChangesNat == MaxChanges \in Nat

VARIABLES tenantRow,          \* the row of each tenant
          membership,         \* how many rows tenant_users has of each pair
          request,            \* what each request runs next, and has read
          changes,            \* how many so far, for the bound
          wanted,             \* history: the rows as the requests mean them to be
          crossed,            \* history: tenants of which two requests overlapped
          doubled             \* history: pairs two requests added at a time

tenantTables == <<tenantRow, membership>>
tenantMarks  == <<wanted, crossed, doubled>>
tenantsVars  == <<tenantTables, request, changes, tenantMarks>>

Fields     == {"status", "metadata"}   \* stand for all but the id and the domain
NoTenant   == [domain |-> "none"]
Deleted    == [domain |-> "deleted"]
TenantRows == [domain : Domains, set : [Fields -> Settings]]

Resting == [at |-> "rest"]
TenantRequests ==
  {Resting}
  \cup [at : {"domain", "create"}, row : TenantRows]
  \cup [at : {"read"}, id : Tenants, field : Fields, value : Settings]
  \cup [at : {"save", "reinsert"}, id : Tenants, field : Fields, row : TenantRows]
  \cup [at : {"member", "add"}, pair : Tenants \X Users]

TenantsTypeOK ==
  /\ tenantRow \in [Tenants -> {NoTenant} \cup TenantRows]
  /\ membership \in [Tenants \X Users -> Nat]
  /\ request \in [Operators -> TenantRequests]
  /\ changes \in 0..MaxChanges
  /\ wanted \in [Tenants -> {NoTenant, Deleted} \cup TenantRows]
  /\ crossed \in SUBSET Tenants
  /\ doubled \in SUBSET (Tenants \X Users)

TenantsInit ==
  /\ tenantRow = [t \in Tenants |-> NoTenant]
  /\ membership = [m \in Tenants \X Users |-> 0]
  /\ request = [o \in Operators |-> Resting]
  /\ changes = 0
  /\ wanted = tenantRow
  /\ crossed = {}
  /\ doubled = {}

Runs(o, command) == request[o].at = command

Continue(o, next) == request' = [request EXCEPT ![o] = next]

Rest(o) == Continue(o, Resting)

Accept(o, first) ==
  /\ Runs(o, "rest")
  /\ Continue(o, first)
  /\ UNCHANGED <<tenantTables, tenantMarks>>

Counted == changes < MaxChanges /\ changes' = changes + 1

(* The row of another tenant has the domain. *)
Taken(domain, t) == \E u \in Tenants \ {t} : tenantRow[u].domain = domain

(* A request is going to save a row it has read of the tenant. *)
Saving(o, t) == request[o].at \in {"save", "reinsert"} /\ request[o].id = t

-----------------------------------------------------------------------------
(* CreateTenant: the domain is looked up, ... *)
BeginCreate(o, row) ==
  Accept(o, [at |-> "domain", row |-> row]) /\ UNCHANGED changes

GetTenantByDomain(o) ==
  /\ Runs(o, "domain")
  /\ IF \E t \in Tenants : tenantRow[t].domain = request[o].row.domain
       THEN Rest(o)
       ELSE Continue(o, [request[o] EXCEPT !.at = "create"])
  /\ UNCHANGED <<tenantTables, changes, tenantMarks>>

(* ... the row inserted under a new id, which the index refuses if the       *)
(* domain was taken in between, and the configuration is written as an       *)
(* update of the new row.                                                    *)
CreateTenant(o, t) ==
  /\ Runs(o, "create")
  /\ wanted[t] = NoTenant
  /\ ~Taken(request[o].row.domain, t)
  /\ tenantRow' = [tenantRow EXCEPT ![t] = request[o].row]
  /\ wanted' = [wanted EXCEPT ![t] = request[o].row]
  /\ Continue(o, [at |-> "read", id |-> t, field |-> "metadata", value |-> Defaults])
  /\ UNCHANGED <<membership, changes, crossed, doubled>>

-----------------------------------------------------------------------------
(* UpdateTenant.  A field that is not given stays as it was read. *)
BeginTenantUpdate(o, t, field, value) ==
  /\ Counted
  /\ Accept(o, [at |-> "read", id |-> t, field |-> field, value |-> value])

(* mutant: fields that are not given are set to their zero values *)
ApplyAll(row, field, value) == [row EXCEPT !.set = [f \in Fields |-> IF f = field THEN value ELSE Defaults]]

Apply(row, field, value) == [row EXCEPT !.set[field] = value]

(* GetTenant, and the field set in what it returned *)
GetTenant(o) ==
  LET job == request[o] IN
  /\ Runs(o, "read")
  /\ IF tenantRow[job.id] = NoTenant
       THEN Rest(o) /\ UNCHANGED crossed
       ELSE /\ Continue(o, [at |-> "save", id |-> job.id, field |-> job.field,
                            row |-> Apply(tenantRow[job.id], job.field, job.value)])
            /\ crossed' = IF \E p \in Operators : Saving(p, job.id)
                            THEN crossed \cup {job.id} ELSE crossed
  /\ UNCHANGED <<tenantTables, changes, wanted, doubled>>

(* What an update that has been written means the row to be *)
Want(o) ==
  LET job == request[o] IN
  wanted' = IF wanted[job.id] = Deleted THEN wanted
            ELSE [wanted EXCEPT ![job.id].set[job.field] = job.row.set[job.field]]

(* Save is an UPDATE, then an INSERT if no row was updated. *)
UpdateTenant(o) ==
  LET job == request[o] IN
  /\ Runs(o, "save")
  /\ IF tenantRow[job.id] # NoTenant
       THEN /\ tenantRow' = [tenantRow EXCEPT ![job.id] = job.row]
            /\ Want(o)
            /\ Rest(o)
       ELSE Continue(o, [job EXCEPT !.at = "reinsert"]) /\ UNCHANGED <<tenantRow, wanted>>
  /\ UNCHANGED <<membership, changes, crossed, doubled>>

Reinsert(o) ==
  LET job == request[o] IN
  /\ Runs(o, "reinsert")
  /\ ~Taken(job.row.domain, job.id)
  /\ tenantRow' = [tenantRow EXCEPT ![job.id] = job.row]
  /\ Want(o)
  /\ Rest(o)
  /\ UNCHANGED <<membership, changes, crossed, doubled>>

(* DeleteTenant is one command, and leaves the users of the tenant. *)
DeleteTenant(o, t) ==
  /\ Runs(o, "rest")
  /\ tenantRow[t] # NoTenant
  /\ tenantRow' = [tenantRow EXCEPT ![t] = NoTenant]
  /\ wanted' = [wanted EXCEPT ![t] = Deleted]
  /\ crossed' = IF \E p \in Operators : Saving(p, t) THEN crossed \cup {t} ELSE crossed
  /\ UNCHANGED <<membership, request, changes, doubled>>

-----------------------------------------------------------------------------
(* AddUserToTenant.  Nothing asks whether the tenant exists. *)
BeginAddUser(o, m) ==
  Counted /\ Accept(o, [at |-> "member", pair |-> m])

GetTenantUser(o) ==
  /\ Runs(o, "member")
  /\ IF membership[request[o].pair] > 0
       THEN Rest(o) /\ UNCHANGED doubled
       ELSE /\ Continue(o, [request[o] EXCEPT !.at = "add"])
            /\ doubled' = IF \E p \in Operators : Runs(p, "add") /\ request[p].pair = request[o].pair
                            THEN doubled \cup {request[o].pair} ELSE doubled
  /\ UNCHANGED <<tenantTables, changes, wanted, crossed>>

CreateTenantUser(o) ==
  /\ Runs(o, "add")
  /\ membership' = [membership EXCEPT ![request[o].pair] = @ + 1]
  /\ Rest(o)
  /\ UNCHANGED <<tenantRow, changes, tenantMarks>>

-----------------------------------------------------------------------------
(* A command fails, or the connector is started again. *)
RequestFails(o) ==
  ~Runs(o, "rest") /\ Rest(o) /\ UNCHANGED <<tenantTables, changes, tenantMarks>>

TenantsNext ==
  \E o \in Operators :
    \/ \E row \in TenantRows : BeginCreate(o, row)
    \/ GetTenantByDomain(o)
    \/ \E t \in Tenants : CreateTenant(o, t)
    \/ \E t \in Tenants, f \in Fields, v \in Settings : BeginTenantUpdate(o, t, f, v)
    \/ GetTenant(o) \/ UpdateTenant(o) \/ Reinsert(o)
    \/ \E t \in Tenants : DeleteTenant(o, t)
    \/ \E m \in Tenants \X Users : BeginAddUser(o, m)
    \/ GetTenantUser(o) \/ CreateTenantUser(o)
    \/ RequestFails(o)

TenantsSpec == TenantsInit /\ [][TenantsNext]_tenantsVars

-----------------------------------------------------------------------------
(* Every field of a tenant has the value last written to it, and a deleted   *)
(* tenant stays deleted, unless two requests for the tenant overlapped: then *)
(* a whole-row save undoes an update or brings the row back.                 *)
UpdatesHold ==
  \A t \in Tenants \ crossed : tenantRow[t] = IF wanted[t] = Deleted THEN NoTenant ELSE wanted[t]

(* A user is in a tenant once, unless two requests added it at a time: the   *)
(* table has no index that would refuse the second row.                      *)
UserOnce == \A m \in (Tenants \X Users) \ doubled : membership[m] <= 1
=============================================================================
