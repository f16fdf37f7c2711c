--------------------------- MODULE MCRoleCatalogue ---------------------------
(* The permissions migrations create for the models of src/apps, and what  *)
(* the catalogue makes of them.  TLC evaluates the assumptions.            *)
EXTENDS RoleCatalogue, TLC

Models ==
  [accounts |-> {"user", "roleprofile", "approvalrequest", "loginattempt"},
   aiservices |-> {"aiconversation", "aimessage", "aicalllog", "providerpricing", "aibudget",
     "aisuggestion", "aiqualityfeedback"},
   auth |-> {"group", "permission"},
   backups |-> {"backuprecord", "restorerecord", "backupschedule"},
   caio |-> {"observationrun", "finding", "improvementtask", "releasenotedraft",
     "exportvalidationresult"},
   catalog |-> {"allergen", "dietarytag", "menucategory", "menuitem", "recipe", "recipeline",
     "pricerule", "menuengineeringsnapshot"},
   cellar |-> {"wineregion", "grapevariety", "wineproducer", "wine", "winegrapecomposition",
     "winestoragelocation", "storagereading", "bottlelot", "bottleopening", "pouringrecord",
     "winefault", "tastingnote", "winerating", "winepairing", "wineflight", "wineflightitem",
     "tastingevent", "tastingeventregistration", "wineclubtier", "wineclubmembership",
     "privatecellarclient", "privatecellarbottle", "wineduplicatealert"},
   core |-> {"auditlog", "appsetting", "featureflag"},
   crm |-> {"customer", "consentrecord", "dataerasurerequest", "loyaltyprogram",
     "loyaltyaccount", "loyaltytransaction", "campaign", "customervisitnote"},
   devstudio |-> {"devsession", "devaction", "devauditentry"},
   hr |-> {"employee", "shifttemplate", "shift", "shiftassignment", "leaverequest",
     "performancemetric", "employeetrainingrecord"},
   hsp |-> {"hsppolicyrule", "hspreviewrequest", "rightsreceipt"},
   inventory |-> {"unitofmeasure", "supplier", "warehouse", "stockitemcategory", "stockitem",
     "stocklot", "stockmovement", "purchaserequest", "purchaserequestline", "supplierquotation",
     "purchaseorder", "purchaseorderline", "goodsreceipt", "goodsreceiptline", "wastageentry",
     "stocktransfer", "stocktransferline", "stockcount", "stockcountline"},
   operations |-> {"floorsection", "diningtable", "reservation", "waitlistentry", "order",
     "orderline", "prepticket", "prepticketline", "paymentmethod", "payment", "refund",
     "businessday", "offlineoperation"},
   reporting |-> {"reportdefinition", "reportrun", "dailysalessnapshot", "salesforecast"},
   training |-> {"trainingmodule", "traininglesson", "lessonprogress"}]

\* Meta.permissions: "can_..." and the four that begin with "view_".
CustomPermissions ==
  [accounts |-> {"manage_roles", "view_audit_log", "use_devstudio", "approve_critical"},
   aiservices |-> {"use_cloud_ai", "configure_ai", "apply_ai_suggestion", "view_ai_costs"},
   backups |-> {"run_backup", "restore_backup", "configure_backup"},
   caio |-> {"run_caio", "review_caio_findings"},
   catalog |-> {"change_price", "manage_promotion"},
   cellar |-> {"open_bottle", "pour_glass", "record_wine_fault", "manage_cellar_layout",
     "view_cellar_valuation"},
   crm |-> {"export_customer_data", "erase_customer_data"},
   devstudio |-> {"open_devstudio", "apply_dev_change", "merge_dev_branch", "run_dev_commands"},
   hr |-> {"manage_payroll"},
   inventory |-> {"adjust_stock", "count_stock"},
   operations |-> {"open_table", "transfer_table", "seat_guest", "take_payment", "split_bill",
     "merge_orders", "void_order", "apply_discount", "comp_item", "print_receipt", "close_day",
     "bump_ticket", "view_kitchen_display", "view_bar_display", "view_wine_display"},
   reporting |-> {"export_report", "view_financial_report", "view_staff_report"}]
Extra == {<<"catalog", "menu_engineering">>, <<"crm", "customer_contact">>,
          <<"hr", "employee_sensitive">>, <<"inventory", "stock_valuation">>}

AllPermissions ==
  UNION {[app : {a}, verb : Writes \cup {"view"}, on : Models[a]] : a \in DOMAIN Models}
    \cup UNION {[app : {a}, verb : {"can"}, on : CustomPermissions[a]] : a \in DOMAIN CustomPermissions}
    \cup {[app |-> e[1], verb |-> "view", on |-> e[2]] : e \in Extra}
ViewNames ==
  {"view_audit_log", "view_ai_costs", "review_caio_findings", "view_cellar_valuation",
   "view_kitchen_display", "view_bar_display", "view_wine_display", "view_financial_report",
   "view_staff_report", "hspreviewrequest"}

Perm(a, v, o) == [app |-> a, verb |-> v, on |-> o]
Grants(role, a, v, o) == Perm(a, v, o) \in Matched(role)

\* Every pattern of the catalogue finds a permission (tests/test_rbac.py).
ASSUME PatternsMatch == \A role \in RoleNames : ~Unmatched(role)

\* The auditor may write nothing, and looks at every module of the business.
ASSUME AuditorReads ==
  /\ \A p \in Matched("auditor") : p.verb = "view" \/ p.on \in NamesView
  /\ \A a \in {"catalog", "cellar", "inventory", "operations", "crm", "hr", "reporting"} :
       \A m \in Models[a] : Grants("auditor", a, "view", m)

\* Synchronising again changes nothing, and groups the catalogue does not name
\* keep their permissions.
ASSUME SyncIsIdempotent ==
  LET before == [g \in {"waiter", "guild"} |-> {Perm("auth", "view", "group")}]
      once   == SyncRoles(before)
  IN SyncRoles(once) = once /\ once["guild"] = before["guild"]

\* Critical actions: someone may approve each; nobody below level 3 approves
\* any; those that reach beyond the restaurant's day, only the three roles that
\* run the house or the system.  Who takes payments does not approve refunds,
\* save the roles that may do everything and the restaurant manager.
ASSUME ApprovalsAreSenior ==
  /\ \A a \in CriticalActions : \E role \in RoleNames : a \in Approves(role)
  /\ \A role \in RoleNames : Approves(role) \subseteq CriticalActions
                               /\ (Approves(role) # {} => Level[role] <= 3)
  /\ \A role \in RoleNames \ {"owner", "general_manager", "sysadmin"} :
       Approves(role) \cap {"restore_backup", "erase_customer_data", "devstudio_merge"} = {}
  /\ \A role \in RoleNames : "refund_payment" \in Approves(role) =>
       role \in StaffRoles \/ ~Grants(role, "operations", "can", "take_payment")

\* Only who may do everything changes groups or rules (auth, hsp, compliance).
ASSUME FewGovern ==
  \A role \in RoleNames : Everything # Catalogue[role] =>
    \A p \in Matched(role) : p.app \notin {"auth", "hsp", "compliance", "devstudio", "caio"}

\* A user who must change the password can, however the session was opened, and
\* can do nothing else; a PIN session opens no page of administration.
AnOwner == [superuser |-> FALSE, groups |-> {"owner"}, primary |-> "owner", mustChange |-> FALSE]
Page(s, n) == [space |-> s, name |-> n, required |-> {}, roles |-> {}, guarded |-> TRUE]
SyncedGroups == SyncRoles(<< >>)
ASSUME SessionsAreNarrow ==
  /\ \A session \in {"pin", "password"} :
       LET u == [AnOwner EXCEPT !.mustChange = TRUE] IN
       /\ Reaches(SyncedGroups, u, session, Page("accounts", "password-change"), TRUE)
       /\ ~Reaches(SyncedGroups, u, session, Page("operations", "floor"), FALSE)
  /\ \A p \in {Page("core", "settings"), Page("accounts", "user-list"),
               Page("reporting", "report-list"), Page("backups", "backup-list")} :
       /\ Reaches(SyncedGroups, AnOwner, "password", p, FALSE)
       /\ ~Reaches(SyncedGroups, AnOwner, "pin", p, FALSE)
  /\ ~Reaches(SyncedGroups, [AnOwner EXCEPT !.groups = {"auditor"}, !.primary = "auditor"], "password",
              Page("cellar", "duplicate-scan"), TRUE)
-----------------------------------------------------------------------------
(* The staff: training by role, shifts, hours and leave. *)
SF == INSTANCE StaffFigures
Trained(n) == [id |-> n, module |-> IF n = 3 THEN "n" ELSE "m", sort |-> 5 - n]
Pupil(codes) == [id |-> "u", superuser |-> FALSE, roles |-> codes]

\* A mandatory module leaves the pending ones exactly when the last of its
\* lessons is done, in whatever order and however often lessons are completed;
\* one without lessons never does.
ASSUME TrainingEnds ==
  \A steps \in [1 .. 4 -> 1 .. 3] :
    LET lessons == {Trained(n) : n \in 1 .. 3}
        modules == {[id |-> c, published |-> TRUE, mandatory |-> TRUE, roles |-> {}] : c \in {"m", "n", "empty"}}
        after[n \in 0 .. 4] ==
          IF n = 0 THEN {} ELSE SF!CompleteLesson(Pupil({}), Trained(steps[n]), after[n - 1])
        home(n) == SF!TrainingHome(Pupil({}), modules, lessons, after[n]).pending
        done(n) == {steps[i] : i \in 1 .. n}
    IN \A n \in 0 .. 4 :
         /\ {m.id : m \in home(n)} = {"empty"} \cup (IF {1, 2} \subseteq done(n) THEN {} ELSE {"m"})
                                      \cup (IF 3 \in done(n) THEN {} ELSE {"n"})
         /\ n > 0 => home(n) \subseteq home(n - 1)

\* Following the next lesson from the first visits every lesson of a module once.
ASSUME LessonsAreChained ==
  LET lessons == {Trained(n) : n \in 1 .. 3}
      next(n) == SF!NextLesson([id |-> "m"], Trained(n), lessons)
  IN next(2) = {Trained(1)} /\ next(1) = {}

\* Nobody has more leave left than is due, a request made longer leaves no more,
\* and a leave through New Year is taken from the old year alone.
ASSUME LeaveIsUsedOnce ==
  \A s1, s2 \in {1, 9, 10}, d1, d2 \in 0 .. 3 :
    LET yearOf == [day \in 0 .. 13 |-> day \div 10]
        leave(n, s, d) == [id |-> n, employee |-> "e", type |-> "annual", status |-> "approved",
                           start |-> s, end |-> s + d]
        due == [id |-> "e", annual |-> 4]
        left(L, y) == SF!LeaveDaysRemaining(due, L, y, yearOf)
        both == {leave(1, s1, d1), leave(2, s2, d2)}
    IN /\ left(both, 0) \in 0 .. 4
       /\ left({leave(1, s1, d1), leave(2, s2, d2 + 1)}, 0) <= left(both, 0)
       /\ s1 < 10 => left({leave(1, s1, d1)}, 1) = 4

\* Working longer never pays less, and a break longer than the shift leaves nothing.
ASSUME HoursGrow ==
  \A from \in 0 .. 3, to \in {0, 30, 61, 480}, break \in {0, 30} :
    LET worked(end) == SF!WorkedHours([clockIn |-> from, clockOut |-> end], break) IN
    /\ worked(to) <= worked(to + 1)
    /\ to - from <= break => worked(to) = 0
    /\ worked(SF!NoTime) = 0
=============================================================================
