---------------------------- MODULE RoleCatalogue ----------------------------
(***************************************************************************)
(* The roles of accounts/roles.py: the permissions each is given, the      *)
(* critical actions each may approve, and how sync_roles turns them into   *)
(* the groups of the database.                                             *)
(*                                                                         *)
(* "app.verb_name" is the permission [app, verb, on].  A pattern of the    *)
(* catalogue is the set of permissions fnmatch finds for it, and a role    *)
(* holds a set of patterns, so that a pattern that finds nothing can still *)
(* be seen in it.  The names and descriptions of roles are left out.       *)
(***************************************************************************)
EXTENDS Naturals, FiniteSets

CONSTANTS
  Permissions,   \* auth_permission: what Django creates for the models
  NamesView      \* names that hold the word "view" ("view_kitchen_display")

ASSUME PermissionsAssumption ==
  \A p \in Permissions : DOMAIN p = {"app", "verb", "on"}

Writes == {"add", "change", "delete"}
Edits  == {"add", "change"}

Everything    == {Permissions}                                            \* "*"
App(a)        == {{p \in Permissions : p.app = a}}                        \* "a.*"
Views(a)      == {{p \in Permissions : p.app = a /\ p.verb = "view"}}     \* "a.view_*"
Viewing(a)    ==                                                          \* "a.*view*"
  {{p \in Permissions : p.app = a /\ (p.verb = "view" \/ p.on \in NamesView)}}
Each(a, V, O) == {{p \in Permissions : p = [app |-> a, verb |-> v, on |-> o]} : v \in V, o \in O}
May(a, verb, O) == Each(a, {verb}, O)
-----------------------------------------------------------------------------
(* Blocks several roles share *)
ReadOnlyAll ==
  May("core", "view", {"auditlog"})
    \cup UNION {Viewing(a) : a \in {"catalog", "cellar", "inventory", "operations", "crm", "hr", "reporting"}}

ServiceFloor ==
  Each("operations", {"view", "change"}, {"diningtable"})
    \cup Each("operations", {"view", "add", "change"}, {"order", "orderline"})
    \cup May("operations", "delete", {"orderline"})
    \cup May("operations", "can", {"open_table", "transfer_table", "split_bill", "merge_orders"})
    \cup May("operations", "view", {"reservation"})
    \cup May("catalog", "view", {"menuitem", "menucategory"})
    \cup May("cellar", "view", {"wine"}) \cup May("crm", "view", {"customer"})

Kitchen ==
  Each("operations", {"view", "change"}, {"prepticket", "prepticketline"})
    \cup May("operations", "can", {"bump_ticket", "view_kitchen_display"})
    \cup May("operations", "view", {"order", "orderline"})
    \cup May("catalog", "view", {"menuitem", "recipe", "recipeline", "allergen"})

ReadsReports ==
  Views("reporting") \cup May("reporting", "can", {"export_report"})
-----------------------------------------------------------------------------
(* The roles *)
RestaurantManager ==
  App("operations") \cup App("catalog") \cup App("crm") \cup App("reporting")
    \cup Views("hr") \cup Each("hr", Edits, {"shift"})
    \cup Views("inventory") \cup Views("cellar")
    \cup May("core", "view", {"auditlog"}) \cup Each("backups", {"add", "view"}, {"backuprecord"})

HeadSommelier ==
  App("cellar") \cup Each("catalog", Edits \cup {"view"}, {"menuitem"})
    \cup May("catalog", "view", {"menucategory"})
    \cup May("operations", "view", {"order", "orderline"})
    \cup Each("operations", {"view", "change"}, {"prepticket"})
    \cup May("operations", "can", {"view_wine_display", "bump_ticket"})
    \cup Views("inventory") \cup May("inventory", "add", {"wastageentry"})
    \cup May("crm", "view", {"customer"}) \cup ReadsReports

Sommelier ==
  Views("cellar") \cup Each("cellar", Edits, {"tastingnote", "bottleopening", "winepairing"})
    \cup May("cellar", "add", {"pouringrecord"})
    \cup May("cellar", "can", {"open_bottle", "pour_glass", "record_wine_fault"})
    \cup May("operations", "view", {"order"}) \cup Each("operations", Edits, {"orderline"})
    \cup Each("operations", {"view", "change"}, {"prepticket"})
    \cup May("operations", "can", {"view_wine_display"})
    \cup May("catalog", "view", {"menuitem"}) \cup May("crm", "view", {"customer"})

CellarMaster ==
  App("cellar") \cup Views("inventory")
    \cup May("inventory", "add", {"stockmovement", "wastageentry"})
    \cup Each("inventory", Edits, {"stockcount", "goodsreceipt"})

ExecutiveChef ==
  App("catalog") \cup Kitchen \cup Views("inventory")
    \cup Each("inventory", Edits, {"wastageentry"}) \cup May("inventory", "add", {"purchaserequest"})
    \cup ReadsReports \cup May("hr", "view", {"employee", "shift"})

KitchenStaff == Kitchen \cup May("inventory", "add", {"wastageentry"})

Busser ==
  Each("operations", {"view", "change"}, {"diningtable"})
    \cup May("operations", "view", {"order"}) \cup May("catalog", "view", {"menuitem"})

Bartender ==
  Each("operations", {"view", "change"}, {"prepticket", "prepticketline"})
    \cup May("operations", "can", {"view_bar_display", "view_wine_display", "bump_ticket"})
    \cup May("operations", "view", {"order", "orderline"}) \cup May("operations", "add", {"orderline"})
    \cup May("catalog", "view", {"menuitem"}) \cup May("cellar", "view", {"wine", "bottleopening"})
    \cup May("cellar", "add", {"pouringrecord"}) \cup May("cellar", "can", {"pour_glass"})
    \cup May("inventory", "add", {"wastageentry"})

Cashier ==
  Each("operations", {"view", "change"}, {"order"})
    \cup Each("operations", {"view", "add"}, {"payment"})
    \cup May("operations", "can", {"take_payment", "split_bill", "print_receipt"})
    \cup May("operations", "view", {"orderline", "diningtable"})
    \cup May("catalog", "view", {"menuitem"})
    \cup May("crm", "view", {"customer"}) \cup May("crm", "change", {"loyaltyaccount"})

Host ==
  Each("operations", Edits \cup {"view"}, {"reservation", "waitlistentry"})
    \cup Each("operations", {"view", "change"}, {"diningtable"})
    \cup May("operations", "can", {"seat_guest"})
    \cup Each("crm", Edits \cup {"view"}, {"customer"}) \cup May("catalog", "view", {"menuitem"})

Purchasing ==
  App("inventory") \cup Views("cellar") \cup Each("cellar", Edits, {"wine"})
    \cup Views("catalog") \cup ReadsReports

Warehouse ==
  Views("inventory") \cup Each("inventory", Edits, {"goodsreceipt", "stocktransfer", "stockcount"})
    \cup May("inventory", "add", {"stockmovement", "wastageentry"})
    \cup Views("cellar") \cup May("cellar", "change", {"winestoragelocation"})

Accounting ==
  UNION {Views(a) : a \in {"operations", "inventory", "cellar", "catalog"}}
    \cup May("crm", "view", {"customer"}) \cup App("reporting") \cup May("core", "view", {"auditlog"})

HumanResources ==
  App("hr") \cup App("training") \cup Views("reporting")
    \cup Each("accounts", Edits \cup {"view"}, {"user"})

Auditor ==
  ReadOnlyAll \cup May("backups", "view", {"backuprecord"}) \cup Views("aiservices")

Catalogue ==
  [owner |-> Everything, general_manager |-> Everything, sysadmin |-> Everything,
   restaurant_manager |-> RestaurantManager, head_sommelier |-> HeadSommelier,
   sommelier |-> Sommelier, cellar_master |-> CellarMaster, executive_chef |-> ExecutiveChef,
   kitchen_staff |-> KitchenStaff, waiter |-> ServiceFloor, busser |-> Busser,
   bartender |-> Bartender, cashier |-> Cashier, host |-> Host, purchasing |-> Purchasing,
   warehouse |-> Warehouse, accounting |-> Accounting, hr |-> HumanResources, auditor |-> Auditor]

RoleNames == DOMAIN Catalogue

\* RoleSpec.level: 0 is the highest.
Level ==
  [owner |-> 0, general_manager |-> 1, sysadmin |-> 1, restaurant_manager |-> 2, auditor |-> 2,
   head_sommelier |-> 3, executive_chef |-> 3, accounting |-> 3, hr |-> 3,
   sommelier |-> 4, cellar_master |-> 4, purchasing |-> 4, cashier |-> 5,
   kitchen_staff |-> 6, waiter |-> 6, bartender |-> 6, host |-> 6, warehouse |-> 6, busser |-> 7]

CriticalActions ==
  {"void_order", "refund_payment", "discount_over_limit", "comp_item", "stock_adjust",
   "waste_high_value", "price_override", "close_day", "restore_backup", "erase_customer_data",
   "apply_ai_change", "devstudio_merge"}

Approves(role) ==
  CASE role \in {"owner", "general_manager", "sysadmin"} -> CriticalActions
    [] role = "restaurant_manager" ->
         {"void_order", "refund_payment", "discount_over_limit", "comp_item", "price_override",
          "close_day", "waste_high_value"}
    [] role \in {"head_sommelier", "executive_chef"} -> {"waste_high_value"}
    [] role = "accounting" -> {"refund_payment", "close_day"}
    [] OTHER -> {}

StaffRoles     == {"owner", "general_manager", "sysadmin", "restaurant_manager"}   \* django_staff
DevStudioRoles == {"sysadmin", "owner"}
ReadOnlyRoles  == {"auditor"}
-----------------------------------------------------------------------------
\* _match_permissions; sync_roles writes the matches over a group's permissions.
Matched(role)   == UNION Catalogue[role]
Unmatched(role) == {} \in Catalogue[role]
SyncRoles(groups) ==
  [g \in DOMAIN groups \cup RoleNames |-> IF g \in RoleNames THEN Matched(g) ELSE groups[g]]

\* has_perm asks the groups; role_codes also counts the primary role.
HasPerm(groups, user, p) == user.superuser \/ \E g \in user.groups : p \in groups[g]
RolesOf(user)  == user.groups \cup ({user.primary} \cap RoleNames)
IsReadOnly(user) == ~user.superuser /\ RolesOf(user) \cap ReadOnlyRoles # {}

\* AuditedPermissionMixin.dispatch: a page for users who hold all of required
\* and, if it names roles, one of them.
Admits(groups, user, page, write) ==
  /\ ~(write /\ page.guarded /\ IsReadOnly(user))
  /\ \A p \in page.required : HasPerm(groups, user, p)
  /\ page.roles = {} \/ user.superuser \/ RolesOf(user) \cap page.roles # {}

\* The middlewares before it: an expired password opens a few pages only, and
\* a session opened with a PIN the pages of floor, kitchen and bar.
PasswordPages  == {<<"accounts", "password-change">>, <<"accounts", "password-change-done">>,
                   <<"accounts", "logout">>, <<"accounts", "login">>, <<"accounts", "pin-login">>,
                   <<"core", "set-language">>}
PinPages       == {"logout", "profile", "password-change", "password-change-done"}
PinNamespaces  == {"operations", "catalog", "cellar", "training", "core"}
PinCoreDenied  == {"settings", "feature-status"}
PinReaches(space, name) ==
  IF space = "accounts" THEN name \in PinPages
  ELSE space \in PinNamespaces /\ (space = "core" => name \notin PinCoreDenied)

Reaches(groups, user, session, page, write) ==
  /\ user.mustChange => <<page.space, page.name>> \in PasswordPages
  /\ session = "pin" => PinReaches(page.space, page.name)
  /\ Admits(groups, user, page, write)
=============================================================================
