------------------------------ MODULE Tenancy ------------------------------
(***************************************************************************)
(* Companies with their branches, warehouses, users and roles:             *)
(* CompanyService.createCompany and createBranch, UsersService.createUser  *)
(* and createRole, InventoryService.createWarehouse.                       *)
(***************************************************************************)
EXTENDS Tables

CONSTANT Main   \* the code 'MAIN' of the first branch

ASSUME TenancyAssumption == Main \in Code

\* A company is its code, which is unique and never changes: its id and its
\* code name the same row.
Company(tenant) == Key("Company", tenant, Main)

CompanyDto   == [kind : {"Company"}, tenant : Tenant]
BranchDto    == [kind : {"Branch"}, tenant : Tenant, code : Code]
WarehouseDto == [kind : {"Warehouse"}, tenant : Tenant, code : AnyCode,
                 branch : SUBSET KeyOf("Branch")]
UserDto      == [kind : {"User"}, tenant : Tenant, email : Code \cup {Null},
                 branch : SUBSET KeyOf("Branch")]
Permission   == [table : {"Permission"}, tenant : {Null}, code : AnyCode]
RoleDto      == [kind : {"Role"}, tenant : Tenant, name : Code,
                 permissions : SUBSET Permission]

CreateCompany(d) ==
  LET company == Company(d.tenant)
      branch  == Key("Branch", d.tenant, Main)
  IN  <<Absent(company),
        Insert(company, {}),
        Insert(branch, {company}),
        Insert(Key("Warehouse", d.tenant, DefaultCode(Main)), {company, branch})>>

CreateBranch(d) ==
  LET company == Company(d.tenant)
      branch  == Key("Branch", d.tenant, d.code)
  IN  <<Present({company}),
        Absent(branch),
        Insert(branch, {company}),
        Insert(Key("Warehouse", d.tenant, DefaultCode(d.code)), {company, branch})>>

CreateWarehouse(d) ==
  IfGiven(d.branch)
    \o <<Insert(Key("Warehouse", d.tenant, d.code), {Company(d.tenant)} \cup d.branch)>>

\* The unique key (tenant, email) lets any number of users have no e-mail.
UserKey(r, d) == Key("User", d.tenant, IF d.email = Null THEN r ELSE d.email)

\* Mutant: nobody counts the users.
CreateUserUncounted(r, d) ==
  <<Present({Company(d.tenant)})>>
    \o IfGiven(d.branch)
    \o (IF d.email = Null THEN <<>> ELSE <<Absent(UserKey(r, d))>>)
    \o <<Insert(UserKey(r, d), {Company(d.tenant)} \cup d.branch)>>

\* The first user of a company.  The password is hashed before the insert.
CreateUser(r, d) ==
  <<Present({Company(d.tenant)}), Empty("User", d.tenant)>>
    \o IfGiven(d.branch)
    \o (IF d.email = Null THEN <<>> ELSE <<Absent(UserKey(r, d))>>)
    \o <<Insert(UserKey(r, d), {Company(d.tenant)} \cup d.branch)>>

\* Mutant: unknown permissions are noticed when the role is there.
CreateRoleTooEarly(d) ==
  LET role == Key("Role", d.tenant, d.name)
  IN  <<Present({Company(d.tenant)}), Absent(role), Insert(role, {Company(d.tenant)})>>
        \o IfGiven(d.permissions)

CreateRole(d) ==
  LET role == Key("Role", d.tenant, d.name)
  IN  <<Present({Company(d.tenant)}), Absent(role)>>
        \o IfGiven(d.permissions)
        \o <<Insert(role, {Company(d.tenant)} \cup d.permissions)>>
=============================================================================
