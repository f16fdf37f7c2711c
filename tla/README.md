# Wine House restaurant management: a verification development

Wine House is a Django application for a restaurant with a wine cellar
(`src/src/apps/*`). It is started by `src/launcher.py` as one process with a
threaded WSGI server over SQLite; PostgreSQL can be configured instead. The
modules here model its state machines, TLC checks them on small instances, and
TLAPS proves the main results for every value of the constants.

Paths below are relative to the repository root; application code is under
`src/apps/`.

## How the program runs, and what a step is

* **Services.** Every function that changes state across rows is one
  `@transaction.atomic` block in an app's `services.py`. SQLite connections use
  `transaction_mode IMMEDIATE` (`src/winehouse/settings/base.py:230-241`): the
  write lock is taken at BEGIN, so two services never overlap and **a service is
  one atomic action**.
* **Requests.** There is no `ATOMIC_REQUESTS`. The REST views call
  `get_object()` before the service opens its transaction, and the service then
  trusts the fields of that Python object. **A request is two actions**: load a
  copy, act on the copy. Other requests commit in between, so the copy may be
  stale. Rows that the service itself queries with `.filter()` are fresh.
* **Refusals** raise inside the transaction; all it wrote is rolled back. They
  are an action that only drops the copy.
* **Code without a transaction** (views, admin forms and actions, the login
  signals, AI calls, backup jobs, audit rows of a request) commits statement by
  statement: **each read or write is an action** where another may come between.
* **PostgreSQL** does not take a lock at BEGIN. Services that select a row and
  then lock it with `select_for_update` (the cellar) are two actions there.

`docs/known-limitations.md` (section 7) says that nothing of this is tested
under concurrency and that PostgreSQL is not part of the CI: exactly what a model
checker is for.

Models also carry *history variables* (marked `history:`): they record what
happened, no guard reads them, and properties use them to name the one way a
rule may fail ("unless a stale copy was written back"). Where such a condition
appears, the condition itself is the result: TLC and the proofs show there is no
other way.

## Inventory

| component | state | operations | interacts with | hard behaviour | what makes it correct |
|---|---|---|---|---|---|
| orders and tickets (`operations`) | order status, lines, payments, tickets, table and reservation status | open, add line, send, bump, split, pay, void; merge, discount, void line | tables, reservations, approvals, day end, loyalty | stale copies, several bills per table, tolerance of the debt test | bill = its lines; each line on one ticket; paid = covered; table follows its bills |
| business day (`operations`, `reporting`) | `BusinessDay`, `DailySalesSnapshot` | open, close | reads orders, payments, lines, reservations | work goes on over midnight and after the close; stale day | frozen tables agree, nothing sold twice, figures stay |
| reservations and tables (`operations`) | reservation window, status, tables; table status | create, edit, assign tables, seat, delete | orders | tested at assignment only, on a copy | no table promised twice at one time |
| inventory | lots, movements, receipts, purchase orders, counts, wastage | receive, consume, waste, post receipt, post count, edit lot | catalog, approvals | re-posting, stale count, plans over several lots | balance = movements; entered once; first expiry first; no overdraft |
| cellar | bottle lots, openings, pours, faults | open, pour, finish, fault, duplicate scan | order lines | select, then lock; rests too small for a glass | bottles and volume conserved; closed stays closed; oldest first |
| approvals (`accounts`) | requests and their status | ask, approve, reject, expire, apply | void, discount, restore | rolled back with the refusal; two reviewers | nothing beyond a right without a second person |
| login and roles (`accounts`) | failure counter, lock, groups, primary role | login, PIN, edit user, sync roles | audit | counter in a row that a form writes whole | locked after five; role = permissions |
| customers (`crm`) | consents, points and entries, erasure requests | edit, award, redeem, anonymise | orders, reservations | written back from old instances | erased stays erased; balance = entries, never negative |
| audit trail (`core`) | append-only rows in a hash chain, archives | record, verify, archive | everything | predecessor read before insert; archived by date | a chain nobody touched verifies; what leaves is archived |
| human sensitivity policy (`hsp`) | rules, review queue, receipts in a hash chain | evaluate, decide, record outcome | AI gateway | rules change during a call; queue filled twice | data leaves only when allowed; one chain of receipts |
| AI gateway (`aiservices`) | monthly budget, call log, conversations | ask a chain of providers, cancel | hsp, budget | budget read before and written after a slow call | spending is counted; what was sent is logged; calls end |
| backups | records, restore requests, archive files | create, verify, restore, rehearse, retain | approvals, database file | kills between steps, shared temporary files, restores of its own rows | a usable record has its archive; a restore has a way back |
| compliance | rule packs with seals | seed, edit, approve, answer | | statements without a transaction | deadlines only from approved rules |
| catalog, reporting, staff, training | master data, figures | CRUD, computed views | orders, stock | rounding, boundaries, empty sets | figures agree with each other and with their rows |
| AI officer, developer studio | findings, sessions | batch jobs, tooling | | none of their own | |
| launcher, settings | | start threads, choose the database | everything | fixes the grain of a step | |

PROJECT.json lists each component with its sources and its status, and under
`hazards` what is hard to test, at its line.

## Modules

| module | models | checked in |
|---|---|---|
| `BillLedger` | what the order services promise about money (abstract) | `MCOrders` |
| `Orders` | order life cycle, tickets, tables, payments, with stale copies | `MCOrders`, `MCDayEnd` |
| `DayEnd` | closing of days and live reports, composed with `Orders` | `MCDayEnd` |
| `Reservations` | bookings and their tables beside bills | `MCReservations` |
| `StockBook` | what the stock services promise (abstract) | `MCInventory` |
| `Inventory` | lots, movements, receipts, counts, wastage, the lot endpoint | `MCInventory` |
| `Cellar` | bottles and glasses on either database | `MCCellar` |
| `Accounts` | failed logins, the user form, roles | `MCApprovals` |
| `Approvals` | second approvals and what rests on them, composed with `Accounts` | `MCApprovals` |
| `Customers` | erasure and loyalty points beside stale handlers | `MCCustomers` |
| `AuditTrail` | audit rows, receipts, the archiving command | `MCAuditTrail` |
| `AiGateway` | a question, its policy, budget, providers and log | `MCAiGateway` |
| `Backups` | backup jobs over records and files | `MCBackups` |
| `RulePacks` | approval of legal rules and deadlines | `MCRulePacks` |
| `RoleCatalogue` | the roles of `roles.py`, `sync_roles`, page access | `MCRoleCatalogue` |
| `Figures` | rounding, quotients, sums of tables | with the next six |
| `Reports` | the tables of `reporting/reports.py` and who may read them | `MCDayEnd` |
| `MenuPrices` | price rules, recipe costs, the guest menu | `MCOrders` |
| `StockFigures` | cost, value, expiry, reorder, quotations, counts | `MCInventory` |
| `CellarFigures` | value, glasses, drink windows, climate, tastings, duplicate scan | `MCCellar` |
| `StaffFigures` | leave, shifts, hours, training | `MCRoleCatalogue` |
| `ProviderClients` | requests of one provider, models, costs, masking | `MCAiGateway` |

The theorems are in `X_proofs` for `Inventory`, `Cellar`, `Reservations`, `AuditTrail`
and `AiGateway`, in `DayEnd_proofs` for `Orders` and `DayEnd`, in `Safeguards_proofs` for
`Accounts`, `Approvals` and `Backups`, and in `Compliance_proofs` for `Customers` and
`RulePacks`. `MCX` holds the small instance of `X` and, for the functions, the claims TLC
evaluates.

An operator marked *mutant of X* is a plausible bug of `X`. It takes part in no
behaviour; replacing `X` by it must make the property named in PROJECT.json fail,
which shows that the property depends on the code.

### Orders

Row identifiers are constants; a row that does not exist has status `"none"` (or
belongs to `NoOrder`). `pos[r]` is the `Order` instance a terminal's request
holds, with the fields the services read from it: status, total, and whether its
table read "seated". `kds[s]` is the same for a kitchen screen's `PrepTicket`.

| action | code (`operations/services.py`) |
|---|---|
| `OpenOrder` | `open_order`; re-reads the table itself, no copy needed |
| `LoadOrder`, `LoadTicket` | `get_object()` in `OrderViewSet`, `PrepTicketViewSet.bump` |
| `AddLine` | `add_line`, with `recalculate()` and the table's step from seated to ordered |
| `SendToStations` | `send_to_stations`: one ticket per station and course of the lines not sent |
| `BumpTicket` | `bump_ticket`: next status or the one asked for; the last one served serves the order and table |
| `SplitOrderBySeat` | `split_order_by_seat`: a billed child per seat |
| `TakePayment` | `take_payment`: debt test with 0.01 tolerance, closing, table, reservation |
| `VoidOrder` | `void_order` by a user who may approve it |
| `FinishCleaning` | the table endpoint |
| `Refused` | `OperationsError` |

Amounts are abstract: `Total[S]` is what `recalculate()` computes for the set of
lines `S`, any function to the naturals that does not fall when a line is added.
An order stores it when `recalculate()` runs: `billed[o]` are the lines it ran on, so
that `total` and the other columns of an order are as old as that. A payment's sum is
kept, its method is not.
`BillLedger` has only bills, their lines, the amount owed and received. `Orders`
implements it with `billOf <- lineOrder`, `owed <- total`, `received <- paid`
under any overlap of requests: stale copies may spoil statuses, but never lose or
duplicate a charge, and a split never takes lines away from money received.

### DayEnd

`DayEnd` adds dates to `Orders`. `OrderService` is any step of `Orders`; the rows
it creates, the children of a split included, are opened today. `LoadDay`,
`CloseBusinessDay`, `RefuseClose` are `BusinessDayViewSet.close` and
`close_business_day` with `_write_daily_snapshot`; `GetOrOpenBusinessDay` is the
function of that name, `Midnight` the clock. Sums over orders are kept as the
function that is summed, so that a property can compare them bill by bill.

The reports sum different columns, and so do the operators:

| report | sums | model |
|---|---|---|
| net sales of the day (`operations/services.py:815`) | the orders' `grand_total` less tax | `NetSales` |
| sales by category (`services.py:862`), shown by `daily_sales` | the lines' `total_amount` | `LineTotals`, in `DailySales` |
| `product_sales` (`reporting/reports.py:232`) | `quantity * unit_price`, not rounded | `Turnover`, in `ProductSales` |
| `staff_performance` (`reports.py:748`) | the orders' `grand_total` | `StaffPerformance` |

`Subtotal`, `Service`, `Tax`, `LineTotals` and `Turnover` are functions of sets of
lines, as abstract as `Total`; `ColumnsAssumption` says how the code computes each
from the lines, rounding included. One consequence, which no property forbids: the
categories are with tax and the net sales without, so a share of the first in the
second can exceed one.

### Reservations

A clerk's request loads a reservation, then writes its row, its many-to-many
tables (a second statement of the serializer), or picks tables and assigns them:
`Assign` tests the window of the *loaded* reservation against fresh rows and
writes `RESERVED` over table rows that were read before the transaction. Bills open,
split, are paid and voided on the same tables as in `Orders`, reduced to counts.
`unchecked` and `overwritten` record what was written without the test.

### Inventory

A shelf is a stock item in a warehouse. `PostGoodsReceipt` is
`post_goods_receipt` with every `receive_stock` in it: lines find or create lots
by code, write movements and purchase order lines. `Plans` is
`select_lots_for_consumption`: all quantities to take that respect the order of
lots. `LoadCount`/`PostStockCount` are a clerk's stale `StockCount`;
`RecordWastage` the service; `EditLot` a PATCH of the generic lot endpoint.
`StockBook` has quantities on hand and the receipts entered; `Inventory`
implements it: a receipt enters once and whole, a count corrects all its shelves
in one step, no issue overdraws a shelf.

### Cellar

A transaction selects (`Select*`) and then locks (`OpenBottle`, `PourGlass`,
`PourFromNewBottle`, `RecordFault`, or `Refused`). On SQLite no other
transaction begins in between, on PostgreSQL it may; one run covers both.
`FinishBottle` and `FaultInOpening` lock what they were given, so they are one
step. The order of lots (`Before`) puts NULL dates first on SQLite and last on
PostgreSQL, as the databases do. Volumes are in units of 25 ml.

### Accounts and Approvals

A login loads the user row (`TryLogin`: the form's test of the lock, or the
terminal's of lock and PIN) and writes counter and lock of that instance back in a
second step, outside a transaction (`CountFailure`, `ClearCounter`:
`register_failed_login`, `register_successful_login`). Logins at several doors overlap,
and lose counts and locks of each other; `raced` records the users whose row was
written from a copy that had changed, until a login clears it. The user form writes
back the whole row it loaded, `failed_login_count` and `locked_until` included, then
clears the groups, adds one, and sets the primary role: four statements, with logins
between them. A desk thread loads a request
row and decides on it, finds it expired, or hands it to `apply_discount` or
`void_order`, which look at the status of that instance only and mark the request
applied; `crossed` records the requests written from an instance that was no longer
the row. `RoleCatalogue` gives what each role may approve:
`MCApprovals` takes it from there. A pattern such as `cellar.*` is the set of
permissions `fnmatch` finds among those Django creates for the models.

### Customers

A clerk's handler reads a customer, an order or booking that names one, a consent,
a note, an erasure request or a loyalty account, and writes all of it back later.
`anonymize_customer`, `award_points` and `redeem_points` are one action each, on
the instance the caller holds.

### AuditTrail

`Begin`, `Make` (dates the row), `ReadLast`, `Insert`: in a transaction the write
lock is held from `Begin` (SQLite), outside one only by the insert. `Count`,
`Archive`, `DeleteFirst`, `Delete` are `purge_audit_log`, which crashes at any
point. Rights receipts are chained the same way, always in a transaction.

### AiGateway

`Ask` evaluates the rules and builds the chain of providers; `FindReview` and
`FileReview` are the `get_or_create` of a review; `LoadBudget` reads the month's
budget, `Send`/`TryAgain`/`Fails`/`Answers` are the requests to one provider,
`Charge` writes the copy of the budget back with the cost added, `RecordOutcome`
issues the receipt. A log row or a receipt whose write raises is given up and the call
goes on (`Logged`, `Receipted`), as `_log_call` and the gateway swallow the exception;
`unlogged` and `unreceipted` record it. A call may be cancelled between its steps or
killed at any; administrators change rules and decide or let expire reviews meanwhile.
`ProviderClients` is what one provider does with one question.

### Backups

Jobs (requests and the scheduled command) go step by step through `create_backup`,
`verify_backup`, `restore_backup` and `apply_retention_policy`. They share rows,
archives named by the second they began, and the file a verification decrypts to.
An archive holds the database *as it was*, so a restore brings old rows back, its
own request and safety backup among them. A job may be killed, a write fail, a
file be damaged. The checkpoint before the copy of the database is taken to succeed:
`create_backup` ignores what `wal_checkpoint` returns (`backups/services.py:213`), and if
it were incomplete an archive would miss the last commits, its own row among them.

### RulePacks

Nothing but the change forms runs in a transaction, so the admin action
`activate` is one statement per step (`RetireRivals`, `ReadRules`,
`ActivatePack`), and so is `deadline_for` (`Ask`, `VerifyNext`, `FetchRule`).
Working days and months are computed on hours since a Monday.

## Runs

One run per question.

| run | instance | question |
|---|---|---|
| `orders_concurrent` | 2 orders, 2 lines (one with a seat), 2 tickets, a table with a reservation, 2 terminals and a screen, 2 requests in flight | what survives stale copies, and does the bill ledger hold? |
| `day_end` | 2 orders, 2 lines of fractional amounts, 2 dates, 2 managers at once, one order request at a time | do money and table rules hold when waiters do not overlap; do the reports agree, is no line sold twice, what is frozen final? |
| `reservations` | 2 bookings, 2 tables, 2 clerks, 3 overlapping or touching times, 3 requests | can tested bookings collide, can guests lose their table? |
| `inventory` | 2 shelves, 2 receipts of 2 lines, 2 counts, 2 clerks, 4 lots, one lot edit | balances, purchase orders, issue order and the stock book |
| `inventory_count_twice` (violated) | the same, 5 lots, no lot edits | is a count posted once? |
| `cellar` | 1 wine, 3 lots (one undated), 2 openings, 2 waiters, both databases | conservation, closed stays closed, oldest bottle first |
| `approvals` | 2 users, 1 request, 2 threads, 1 line and 1 bill, 2 doors, 3 wrong logins with a limit of 2, one role edit | who is locked out, can anything pass without a second person, or twice on one approval? |
| `customers` | 1 customer, 2 orders and a booking, 2 clerks, 2 erasure requests, 3 points | does anything an erasure clears come back, and do points add up? |
| `audit` | 2 writers, 2 archiving commands, 4 rows, 3 ticks, 1 fault | where can the chains break, and is what left archived? |
| `ai` | 3 questions, 2 at once, 2 providers, 1 retry, 1 rule change, 1 fault, 1 lost log row or receipt, limit of one answer | what leaves the house, what is spent and logged, does every question end? |
| `backups` | 2 jobs at once, 3 in all, 3 backups in 3 seconds, 1 spared by retention, 1 fault | do usable records have archives, restores a way back, jobs an end? |
| `rule_packs` | 2 versions of a regulation with 2 rules, 2 approvals, a form, an edit, a question | which rules can a deadline follow from, which version governs? |

**Bounds.** `MaxInFlight` limits requests or jobs in service, `PayBound` the
recorded payments of an order, `MaxLots`, `MaxOpenings`, `MaxRows`, `MaxRequests`,
`MaxBackups`, `MaxBills` and `MaxParts` rows created, `LastDay`, `MaxTime` and
`Seconds` the clock, `MaxEdits`, `MaxWrites` and `MaxChanges` writes that bypass a
service, `MaxFaults` kills and failures, `MaxLost` log rows and receipts whose write
fails, `Attempts` wrong logins, `MaxPoints` loyalty points. They are
guards, so a service that needs more rows simply stops: runs do not check
deadlock, because the system is reactive and a used-up bound is the only way to
stop.

Why they are enough: a stale read needs one copy and one other service that
commits meanwhile, so two requests show each pair; a fork of a chain needs two
writers, and a third row to follow; two orders make a split into parent and child
and two parties one after the other; two versions and two approvals make every
order of retire and activate; one customer with two papers makes an erasure half
seen; three questions at two in flight let a budget be used up by two of them and
met by the third; a restore that brings back a usable row needs three backups: one that
is finished, one taken after it, whose archive is restored, and the safety backup.
Two managers make a copy of a day from before its close. Prices differ so that lines
can be told apart, and in `day_end` no line is a whole number of hundredths and the
payments are those of the bills, to the hundredth; bottles of 250 ml and glasses of
150 ml leave a rest that is no glass, and pours of 75 ml leave one below and one
above a third of a glass.

Three runs have a state constraint, in their MC module, which drops states that add
nothing to the question. `SameDay`: two managers who work at once do so on one day, and
one of them holds it open. `Apart`: logins and approval requests touch no common
variable but the roles, so a behaviour has one or the other. `Explored`: the third backup
is a restore's that runs alone, and a fault meets two jobs that overlap or three that
do not. A behaviour that leaves a constraint is not followed further: `RunningEnds` is
checked for those that stay within it. The safety properties of these runs are proved
without any constraint.

Identifiers are symmetric where nothing distinguishes them; lots, openings, rows and
jobs are ordered or distinguished, so they are not.

**Fairness.** `AiGateway` assumes weak fairness of each thread's own next step
(`GoOn`), and `Backups` of each job's (`GoOn`). It is justified: threads of the
server are scheduled by the operating system, every HTTP request carries a timeout
(`providers/*.py`), retries are counted, the chain of providers is finite, and a
job's steps are file and SQLite operations that return or raise (the lock waits at
most 20 seconds). Beginning a call or a job, kills, cancellations, administrators
and the clock get no fairness. Under it `CallsEnd` and `RunningEnds` hold; kills
are named in both. No other liveness is claimed: nothing makes a guest pay or a
manager close a day.

**Functions.** Pure code (figures, prices, roles, clients) is written as operators
and the MC module of the component that uses it states claims as named `ASSUME`s,
which TLC evaluates for every input of a small space before the run: a claim that
fails stops the run.

| module | claims | about |
|---|---|---|
| `RoleCatalogue` | `PatternsMatch`, `AuditorReads`, `SyncIsIdempotent`, `ApprovalsAreSenior`, `FewGovern`, `SessionsAreNarrow` | every pattern finds a permission, who may read, write, approve and govern, and what a PIN or expired password opens |
| `ProviderClients` | `RequestsEnd`, `ModelsAreReal`, `BestModelIsSuggested`, `HealthIsReported`, `CostsGrow`, `LuhnCatchesOneDigit`, `MaskingIsComplete` | retries stop, models are named or listed, nothing a pattern catches is left in a masked text |
| `Reports`, `Figures` | `RoundingIsNear`, `AveragesLieBetween`, `MenuMatrixIsBalanced`, `ProfitAddsUp`, `SharesAddUp`, `CommissionIsPart`, `ForecastIsWithinSample`, `ExportsAreViewable`, `PeriodsAreForward` | tables agree with their totals and with each other; nobody exports what he may not view |
| `MenuPrices` | `LowestPriceWins`, `HoursWrapAround`, `CampaignsAreIntervals`, `PortionsAreCosted`, `GuestsReadWhatIsServed` | overlapping price rules, hours over midnight, recipe cost, the menu |
| `StockFigures` | `CostsAreAverages`, `SuggestionsSuffice`, `ExpiringAreWarned`, `OneBestQuotation`, `VariancesAreValued` | costs, orders and warnings |
| `CellarFigures` | `PathsEnd`, `RestsMakeNoBottle`, `ValuationIsTheSum`, `WindowsMoveForward`, `UrgentWinesComeFirst`, `NewestReadingDecides`, `ScansAgree`, `OneRegistrationEach` | cyclic paths, pooled rests, windows over the years, repeated scans |
| `StaffFigures` | `TrainingEnds`, `LessonsAreChained`, `LeaveIsUsedOnce`, `HoursGrow` | training, leave over New Year, hours |

## What is proved

All proofs hold for every number of rows, threads, users and every amount
function; the bounds of the runs appear in them only as arbitrary constants.
Every safety property of the passing runs is now also a theorem; a condition
that a theorem needs is a named hypothesis of its statement, and is one that the
instance of the run satisfies.

* **`DayEnd_proofs`, the orders**: `TypeCorrect`, `TotalsAlwaysMatch`,
  `LinesTicketedOnce`, `OpenNothingSent`, `OrdersImplementLedger`. The properties are
  not inductive alone. `IInv` adds that an order not created has no lines and no money
  (`NewOrdersBlank`: a split moves lines to new orders, a payment must not
  precede them), that a new ticket is empty (`NewTicketsBlank`), that a sent line
  is on an order (`SentLinesOrdered`), and about copies `CopiesOK`: an order that
  has left "open" never returns to it, so a copy that is not "open" is of an order
  that is not "open" now. This is why a stale copy cannot hide a sent line. The
  refinement is proved step by step (`LedgerStep`), and `TotalsMatchLines` then
  follows from the ledger alone (`LedgerKeepsTotals`).
  `PaidBillFinal` and `DebtCollectedOnce` hold for any overlap, too. For the first, a
  split is the one service that takes lines off a bill, and it asks for payments inside
  its transaction, so that a bill with payments (`PaymentMade`) is not split
  (`PaidNotSplit`); what else can be done to a paid bill is named in the property, one
  disjunct per late request. For the second, a payment is tested against the payments
  there are now and the total of the copy, and total and lines of a bill only grow
  once it has payments (`PaidCopies`, `PaidOnGrows`, from `MonotoneAssumption`), so that
  an old copy asks for too little rather than too much.
  `PaidCovered` and `TableHeld` are of requests that do not overlap (`OneRequest`:
  `MaxInFlight = 1`; with two they fail). A request alone holds a copy that still
  tells what the row is (`CopiesCurrent`), because every service ends its own request;
  counting requests needs finite sets of threads (`ThreadsAssumption`).
* **`DayEnd_proofs`, the days**: `DaySpec => Spec` (`DayImplementsOrders`), so the
  theorems on orders hold in the composition. `ReportAlwaysAddsUp`, for any overlap:
  the columns of an order were computed from the lines it has (`BilledAreLines`), so that
  `ColumnsAssumption` relates what one report takes from the order to what another takes
  from the lines. `FrozenForGood`, for any managers: a day is closed only from a copy
  that says it is not (`FrozenStays`), no copy made after the close says so, and a close
  from an older one sums up the orders of the same date, of which a paid one stays in
  the sum unless it was voided (`ForgetsVoided`). `NothingSoldTwice`
  needs no condition: an order keeps the date it was opened on, and the day that
  counts it is the day of that date.
* **`Inventory_proofs`**: `TypeCorrect`, `BalanceVerifiable`, `NoLotOverdrawn`,
  `PostedLinesStay`. Every service writes a movement with each change of a lot,
  and a plan takes at most what a lot has left; the two balance theorems are of
  the lots the lot endpoint left alone, which is where they fail.
  `OrdersCountDeliveries` holds where no receipt has two accepted lines for one order
  line (`OneLineEach`; with two it fails, see Findings): then what a posting adds to
  the order is the quantity of its lines. `ExpiringFirst` follows from what a plan is.
  `StockBookKept` is the refinement of `StockBook`. The quantity on hand of a shelf
  is a sum over a set of lots, so the proof first says what such a sum is: a finite
  set has one function on its subsets that starts at zero and takes members off one by
  one (`FoldExists`, `FoldsAgree`), hence any member may be taken off first
  (`SumRemove`), sums add up member by member (`SumAdds`), and whatever grows by each
  member is the sum (`SumIsUnique`). Each service then moves quantities lot by lot
  (`SharesMove`, `ShelfMoves`) as an entry, issue or correction of the book does
  (`ReceiptEnters`, `CountCorrects`, `WastageIssues`, `EditWrites`), and all other steps
  leave quantities alone. It needs that stock lies in created lots only (`EmptyStep`)
  and that `QuantityOf` is additive (`LinesAssumption`), which a sum of quantities is.
* **`Cellar_proofs`**: `TypeCorrect`, `VolumeConserved`, `BottlesConserved`,
  `ClosedStaysClosed`, on both databases; `OldestBottlesFirst` on SQLite. `IInv` adds
  that bottles are numbered without gaps (`OpenedInOrder`), that an opening not made is
  blank, and that what a transaction selected still fits the wine asked for when it
  gets the lock (`RequestsFit`). `VolumeConserved` assumes that bottles are closed as
  waste: closing one without drops the rest from the books. For `OldestBottlesFirst`,
  at most one transaction is under way on SQLite (`OneTransaction`), so what it selected
  is still the oldest bottle that holds enough when it pours (`StillOldest`).
* **`Reservations_proofs`**: `TypeCorrect`, `TestedNeverCollide`, `GuestsKeep`. A
  row that was deleted holds no tables (`DeletedHoldNothing`), so creating it again
  cannot collide, and the booking of seated guests exists (`GuestsExist`). With
  that, the test of `Assign` against fresh rows is enough: any write it does not
  see makes its booking `unchecked`.
* **`AuditTrail_proofs`**: `ReceiptChain`, `TypeCorrect`, `BreaksExplained`,
  `ArchiveComplete`. Whoever writes a receipt holds the lock, and what it has read is the
  last receipt (`ReceiptsLock`); receipts are numbered in order. For the audit rows the
  invariant is `Trail`: rows have their own numbers; a transaction that has read its
  predecessor still reads the same one, because it holds the lock (`AuditLock`); no row
  being written is old enough to be archived, no matter how long it takes, since no
  command looks beyond the retention (`Dated`); and what a command is about to delete
  is in a file, or was in one that a command of the same second opened again
  (`ArchivedFirst`). The log is a set of numbered rows: their order is their number.
* **`AiGateway_proofs`**: `TypeCorrect`, `DataStaysHome`, `EverySentLogged`,
  `BudgetFollows`. A chain is a function on positions, each the place of a provider in
  the order of its class, so that leaving out a provider keeps the places of the others
  and no sequence is filtered. A call under way either was let go by the decision it
  saw, or has nothing but local providers ahead of it (`OnItsWay`), whatever
  administrators change meanwhile. Only the provider waited for is neither in the log nor
  among the rows whose write failed (`LoggedOrAsking`). For the budget: no copy is above what the answers cost (`CopiesBehind`), without
  overlap one call holds it with the row's own value (`OneHolder`), and then nothing is
  lost (`NothingLost`) and the limit is passed by less than one answer (`LimitKept`).
* **`Safeguards_proofs`, accounts and approvals**: `NoEarlyLock` needs that no counter,
  not even the one in the row a login or a form is about to write back, exceeds the wrong
  logins there were (`CountsAreWrongLogins`), and that counter and lock are exact for
  every user nobody raced on (`ExactUnlessRaced`), which a copy that is not stale carries
  over; `ServesOnce` that a request nobody crossed is used from its own row, which says
  approved only before the first use (`UsedOnce`); `SecondPerson` that a request that is approved, or
  was when a thread loaded it, has a reviewer who is not its author
  (`ApprovedByAnother`), and that requests are numbered as they are filed. A
  decision from a stale row replaces one second person by another, never by the author.
* **`Safeguards_proofs`, backups**: `BackupsTypeCorrect`, `UsableAreArchived`,
  `NoRestoreWithoutWayBack`, `VerdictsAreRight`, from `BackupsInductive`. The invariant
  has two parts. `Grounds` holds always: a job has what its step needs (`JobsSound`),
  the name of a file tells its form (`FilesSound`), every copy of a record, in the
  database, an archive or a job, comes from a backup that began and copies of a second
  in which one backup began are of one record (`CopiesBegun`, `OneOrigin`), which one job
  makes (`OneMaker`), and a decrypted file is in part only with its reader at work or
  killed (`Partial`). `Unmixed` holds until a restore takes the database back under
  another job (`mixed`), for then a job works for a row that is not there: records are
  numbered without gaps (`Segments`), jobs hold rows of the database (`SameRow`), the
  file of a backup in the making is as far as its job (`MakersFile`), a settled row with
  a sum has its archive (`SettledSound`), what a verification has passed stays passed
  (`Passed`), and a restore about to copy has its safety backup (`WayBack`). Each
  conjunct is proved for three kinds of steps: those that make an archive (`Makes`),
  those that begin one (`Inserts`), and all others, of which one description is enough
  (`Going`: rows change their status at most, files are kept but for faults, jobs end or
  go on). `VerdictIsRight` asks for the recorded sum only where there is one: a backup
  killed before `finish` leaves a row without, and a verification of its file then
  rightly says verified. TLC checked the invariant on the instance of the run before it was
  proved.
* **`Compliance_proofs`, customers**: `TypeCorrect`, `ErasureHolds`, `NoAccountOwes`,
  `BalancesAddUp`. A request that names nobody was neither approved nor carried out, so
  an erasure is always of somebody (`RequestsNameSomebody`). `ErasureHolds` is about
  what `anonymize_customer` clears, not about what it leaves (see Findings). And no handler holds a
  balance below zero (`CopiesSound`), so none can be written back.
* **`Compliance_proofs`, rule packs**: `DeadlinesFollowRules`. A signed pack or copy has a
  seal somebody approved (`SealsApproved`), and a rule about to be read is the sealed
  one unless it was edited in between (`FetchesSealed`). That the date is right needs
  what `_add_business_days` computes, a recursive function given by `CHOOSE`: `Days` is a
  closed form of it, which satisfies its equations (`ArrivesCounts`), and nothing else
  does, since among the moments where two solutions differ none is nearest to the end
  (`CountingDown`). The days so counted are as many working days as the rule says, the
  last of them the deadline (`WorkingDaysCounted`). `OneVersionGoverns`: while approvals
  of a regulation do not overlap and no form sets a status, the approval between its
  two statements has left no version active but its own (`ApprovalsApart`).

**Assumptions on constants** are named in the modules and evaluated by TLC in every
run: amounts and prices are functions to the naturals (`TotalAssumption`,
`ProvidersAssumption`), a bill does not fall when a line is added
(`MonotoneAssumption`), the columns of orders and lines are computed from each other as
`recalculate()` and `OrderLine` do (`ColumnsAssumption`), quantities of receipt lines add up (`LinesAssumption`), expiry
dates are dates or none (`DatesAssumption`), shelves, packs and threads are finite
(`ShelvesAssumption`, `RulesAssumption`, `ThreadsAssumption`), seeded rules have values
and units (`RulesAssumption`), bounds are natural numbers (`BackupAssumption`,
`BoundsAssumption`, `TrailAssumption`), sentinels are no rows (`NoneAssumption`,
`NothingAssumption`, `SentinelAssumption`), sizes are positive (`WinesAssumption`).
The code justifies each: they say what type a column has, or what a sum is.

**How induction is done.** The library's induction theorems take an operator as a
parameter, which no installed prover instantiates. Where a proof needs induction it
takes the set of counterexamples and its least member (`LeastExists`), of numbers or of
sizes of finite sets (`SmallestExists`); the set is a plain set, so its members can be
reasoned about in first order.

**Model-checked only**: liveness (`CallsEnd`, `RunningEnds`), which needs `ENABLED` of the
fair steps; `CountPostedOnce`, which is violated; and the claims about functions, whose
modules use recursive operators. Sums over constants are function constants, so that no
recursion is needed in a module with theorems; the MC modules give them their values.

## Findings

`inventory_count_twice` is violated: two requests that loaded a count before either
posted it both post it (`inventory/services.py:262`), although
`tests/test_crm_inventory_services.py:449` says a count cannot be posted twice.

Further promises the code does not keep, met while modelling. They are in the
models, as a history condition of a property or a property that no run lists:

* **Orders.** The 0.01 tolerance applies again to every further payment of a paid
  order (`operations/services.py:586`, against `tests/test_operations.py:303`), so that
  cents add up: `CollectedOnce` bounds each payment, not their sum. The approval request of a refused discount or void is rolled
  back while its id is returned (`services.py:658`, against `docs/API.md:136`). A request
  that loaded an order before its payment adds a line and rewrites a paid total; a
  bump from an old ticket moves it backwards or revives a cancelled one; serving the
  last ticket of a paid order sets it to served again, next to the next guests.
* **Business day.** Orders opened after the close of their date reach no summary and
  no report (`services.py:775`, against the docstring at 764;
  `ClosedDayIsComplete`). Two managers who loaded a day before either closed it
  freeze it twice. The share of wine divides sales with tax by net sales without.
* **Reservations.** The conflict test runs only in `assign_tables` on a copy; every
  other write bypasses it. A PUT from an old copy inserts a deleted reservation
  again, DELETE removes the row although the model says it is only marked
  deleted; a cancelled booking leaves its tables reserved, a void leaves it seated.
* **Inventory.** Two receipt lines hold two copies of one order line; the second save
  overwrites the first count (`inventory/services.py:237`). On SQLite undated lots
  leave before dated ones (NULL sorts first), in stock and in the cellar. The lot
  endpoint changes a balance without a movement, although `docs/ARCHITECTURE.md` says
  it can always be verified from them. Reorder suggestions are cut by name before
  they are sorted by shortfall (406-409).
* **Cellar.** Spilt and thrown away wine counts as served, so a finished bottle
  always yields 100 % (`cellar/models.py:739`, against `docs/ARCHITECTURE.md:183`).
  A bottle is finished below a third of a glass (`services.py:217`); the document
  says half. On PostgreSQL a bottle may be refused while another lot holds one.
  `glasses_available` pools the rests of bottles and exceeds what the open-bottle page
  adds up. Two scans at once may file an alert twice (no unique constraint), and a
  sibling without a vintage is accused by a dated one but not the reverse.
* **Accounts.** Logins that overlap each write back the counter they loaded: of two wrong
  ones, one is not counted, and a right one clears a lock set meanwhile. Two desks
  that loaded a request before either decided it overwrite each other's decision, and
  two services that loaded one approval both use it. `has_perm` looks at groups only, `role_codes` also at the primary role:
  a role held through the latter alone approves but opens nothing. `assign_role`
  sets `is_staff` and nothing clears it. The admin form writes any request status.
* **Customers.** `anonymize_customer` leaves the loyalty account, the guest name of
  reservations and the waiting list (`docs/PRIVACY.md:86`), and tests an approval
  that no endpoint sets. `award_points` does not ask for the consent its docstring
  names. Redemptions test and write back the caller's instance: one of two is lost.
* **Audit trail.** Rows of requests without a transaction fork the chain
  and the verification reports tampering; rows archived by date break it in the
  middle; a second archive of one second truncates the first; rows removed from the
  end of the table are not noticed by the verification.
* **Backups.** A missing file does not mark a record corrupt, and retention spares
  three records, not three files (`docs/BACKUP_RESTORE.md` §5, §7). A restore
  replaces the rows of its own request and safety backup.
* **AI gateway.** A call whose log row cannot be written goes on without one
  (`aiservices/services.py:472-492`). Two calls may both file a review, and the next one then fails on two
  pending rows (`hsp/gateway.py:61`). Overlapping calls write back one budget and lose
  spending. Failed and cancelled calls get no receipt. `health_check` promises not
  to raise, but resolves the model outside its `try`: it raises when none is listed
  or configured. A rejected AI suggestion may have any status before.
* **Rule packs.** Two overlapping approvals leave two active versions
  (`rulepacks.py:85-95`); a crash between the two statements leaves none, which fails
  closed. A rule edited between the comparison of the seal and the query answers
  unapproved. The seed command adds a deleted rule to an approved version again,
  which breaks its seal.
* **Prices.** `PriceRule.requires_approval` and the categories of a rule are never asked
  by `effective_price`; hours past midnight belong to the weekday of the clock.
* **Reports and registers.** Totals of limited lists are those of the rows shown; the
  waste page shows one reason under the total of all. Leave over New Year counts
  in the year it starts, overlapping leave twice; a mandatory module without lessons is
  pending for ever; registrations are not tested against an event's capacity.

## Not modelled

* Generic CRUD writes other than those named above: most can set a field to
  anything, so no rule survives them. Admin forms of approval requests and reviews.
* Services without callers outside the tests: `merge_orders`, `void_line`; amounts of
  `apply_discount` (its approval is modelled), refunds and cash drawers; the waiting
  list; stock transfers and the purchase request life cycle.
* The AI officer (`caio`, one batch job over the call log), the developer studio (text,
  files and git commands), the scanners of `compliance`, seed data and the scripts that
  make documentation: one actor, nothing to interleave, correctness that
  is about text.
* Templates, serializers, migrations, the layout of exports, wording, prompts,
  cryptography, password rules and physical deletion of customers.
* Hazards left without a property for lack of an operation that meets them: cash part
  payments of an order voided later (`operations/services.py:792`), an order given
  wholly for free (611), merging a receipt into a lot of its code drops the expiry
  (`inventory/services.py:171`), document numbers sorted as text beyond 9999 (53).

## What could follow

1. Discounts, line voids and merging in `Orders`, once endpoints call them, with
   approvals; a drawer per business day.
2. Theorems on overlapping requests: for which pairs of services `PaidIsCovered` and
   `TableHeldWhileBillOpen`, proved for one request at a time, hold for two.
3. Proofs of claims about functions (rounding, shares, drink windows) whose modules can
   do without recursion.
4. Composition of `Reservations` with `Orders` at the level of bills instead of counts.
