--------------------------- MODULE CellarFigures ---------------------------
(***************************************************************************)
(* What the cellar shows and watches besides its bottle counts: paths of   *)
(* regions and locations, glasses and values, drink windows, climate,      *)
(* tasting events, and the scan for suspicious wines (cellar/models.py,    *)
(* services.py, views.py).  Rows are records; a table is a set of them, or *)
(* a sequence where its default ordering decides.  0 stands for a year or  *)
(* a price that is not set, as the code's tests of truth treat it.         *)
(***************************************************************************)
LOCAL INSTANCE Integers
LOCAL INSTANCE Sequences
LOCAL INSTANCE FiniteSetsExt
LOCAL INSTANCE SequencesExt
F == INSTANCE Figures

Nobody == "none"
\* The names from the root down to a node.  Nothing keeps a row from being its
\* own ancestor: the walk gives up after `limit` names.
PathWithin(limit, parent, node) ==
  LET up[left \in 0 .. limit, n \in DOMAIN parent \cup {Nobody}] ==
        IF left = 0 \/ n = Nobody THEN <<>> ELSE Append(up[left - 1, parent[n]], n)
  IN up[limit, node]
RegionPath(parent, node)   == PathWithin(10, parent, node)
LocationPath(parent, node) == PathWithin(8, parent, node)
-----------------------------------------------------------------------------
(* Bottles, glasses, money. *)
Live(rows)   == {r \in rows : ~r.deleted}
LotsOf(w, lots) == {l \in Live(lots) : l.wine = w.id}
Bottles(lots)       == F!SumOf(lots, LAMBDA l : l.remaining)
BottlesOnHand(w, lots) == Bottles(LotsOf(w, lots))
LotValue(l)         == l.remaining * l.cost
StockValue(w, lots) == F!SumOf(LotsOf(w, lots), LotValue)
IsBelowMinimum(w, lots) == w.minimum > 0 /\ BottlesOnHand(w, lots) < w.minimum
BottleMargin(w)     == F!Percent(w.bottlePrice - w.purchase, w.bottlePrice)

Glasses(w, ml) == ml \div (IF w.pour = 0 THEN 150 ELSE w.pour)
OpenOf(w, openings) == {o \in openings : o.wine = w.id /\ o.status = "open"}
\* The rests of all open bottles are put together before glasses are counted.
GlassesAvailable(w, openings)  == Glasses(w, F!SumOf(OpenOf(w, openings), LAMBDA o : o.left))
TheoreticalGlassesPerBottle(w) == Glasses(w, w.size)
GlassesRemaining(w, o) == Glasses(w, o.left)
GlassesPoured(w, o)    == Glasses(w, o.initial - o.left)
Yield(o) == F!Percent(o.initial - o.left, o.initial)
IsPastFreshness(o, now) == o.status = "open" /\ now > o.opened + o.freshness
HoursOpen(o, now) == (IF o.status = "open" THEN now ELSE o.closed) - o.opened
\* The page of open bottles adds up the glasses of each bottle instead.
OpenBottleList(wineOf, openings, now) ==
  LET open == {o \in openings : o.status = "open"} IN
  [stale   |-> {o \in open : IsPastFreshness(o, now)},
   glasses |-> F!SumOf(open, LAMBDA o : GlassesRemaining(wineOf[o.wine], o))]

\* Bottles of private clients are rows of another table and not counted here.
OpenShare(w, o) == [n |-> o.left * w.purchase, d |-> Max({1, o.initial})]
CellarValuation(wineOf, lots, openings) ==
  LET stored == {l \in Live(lots) : l.remaining > 0}
      open   == {o \in openings : o.status = "open"}
      cost   == F!SumOf(stored, LotValue)
      retail == F!SumOf(stored, LAMBDA l : l.remaining * wineOf[l.wine].bottlePrice)
      \* exact shares brought to one denominator, rounded once at the end
      common == FoldSet(LAMBDA o, d : d * OpenShare(wineOf[o.wine], o).d, 1, open)
      shares == F!SumOf(open, LAMBDA o : LET s == OpenShare(wineOf[o.wine], o) IN s.n * (common \div s.d))
  IN [bottles |-> Bottles(stored), cost |-> cost, retail |-> retail,
      open |-> F!HalfEven(shares, common), margin |-> retail - cost]
PrivateBottles(client, bottles) ==
  F!SumOf({b \in bottles : b.client = client /\ ~b.withdrawn}, LAMBDA b : b.quantity)
-----------------------------------------------------------------------------
(* When to drink, where it is kept. *)
DrinkWindowStatus(w, year) ==
  CASE w.from = 0 /\ w.until = 0           -> "unknown"
    [] w.from # 0 /\ year < w.from         -> "too_young"
    [] w.until # 0 /\ year > w.until       -> "past_peak"
    [] w.peak # 0 /\ year = w.peak         -> "peak"
    [] w.until # 0 /\ w.until - year <= 1  -> "drink_soon"
    [] OTHER                               -> "ready"

Urgency == <<"past_peak", "drink_soon", "peak">>
Watched == 500     \* wines looked at, in the order of the wine list
\* Wines in stock to drink now, the most urgent first, of those the most bottles.
DrinkWindowAlerts(wines, lots, year, limit) ==
  LET shelf == SelectSeq(wines, LAMBDA w : ~w.deleted /\ w.active)
      row(w) == [wine |-> w.id, status |-> DrinkWindowStatus(w, year),
                 bottles |-> BottlesOnHand(w, lots), value |-> StockValue(w, lots)]
      rows == {row(shelf[i]) : i \in 1 .. Min({Watched, Len(shelf)})}
      due  == {r \in rows : r.bottles > 0 /\ \E u \in DOMAIN Urgency : Urgency[u] = r.status}
      rank(r) == CHOOSE u \in DOMAIN Urgency : Urgency[u] = r.status
      sooner(r, s) == rank(r) < rank(s) \/ (rank(r) = rank(s) /\ r.bottles > s.bottles)
      sorted == SetToSortSeq(due, sooner)
  IN SubSeq(sorted, 1, Min({limit, Len(sorted)}))

OccupancyPercent(location, lots) ==
  F!Percent(Bottles({l \in Live(lots) : l.location = location.code}), location.capacity)
LatestReading(location, readings) ==
  LET own == {r \in readings : r.location = location.code} IN
  {r \in own : \A s \in own : s.at <= r.at}
Off(value, target, tolerance) == value > target + tolerance \/ value < target - tolerance
Unmeasured == -1
HasAlert(location, r) ==
  \/ Off(r.temperature, location.temperature, location.temperatureTolerance)
  \/ r.humidity # Unmeasured /\ Off(r.humidity, location.humidity, location.humidityTolerance)
StorageList(locations, readings) ==
  {[location |-> l.code, alert |-> \E r \in LatestReading(l, readings) : HasAlert(l, r)] :
     l \in {l \in locations : l.active}}
-----------------------------------------------------------------------------
(* Tastings. *)
NormalizedScore(score, scale) == F!Percent(score, scale)
\* One pairing for each dish on the menu, any number for words.
MayPair(pairings, wine, dish) == dish = Nobody \/ \A p \in pairings : p.wine # wine \/ p.dish # dish
TotalPour(flight) == Len(flight.wines) * flight.pour
SeatsTaken(event, registrations) ==
  F!SumOf({r \in registrations : r.event = event.id /\ ~r.cancelled}, LAMBDA r : r.guests)
SeatsAvailable(event, registrations) == Max({0, event.capacity - SeatsTaken(event, registrations)})
\* A guest is registered once for an event; the seats left are not asked.
Register(registrations, r) ==
  IF \E s \in registrations : s.event = r.event /\ s.customer = r.customer THEN registrations
  ELSE registrations \cup {r}
-----------------------------------------------------------------------------
(* Suspicious wines. *)
Compared  == 50    \* siblings a wine is compared with
Threshold == 92    \* percent
NoWine == 0
\* ratio gives in percent how alike two names are, once normalised.
BarcodeClash(wines, w) ==
  LET clashes == SelectSeq(wines, LAMBDA v : v.barcode = w.barcode /\ v.id # w.id /\ ~v.deleted) IN
  IF w.barcode = "" \/ clashes = <<>> THEN {} ELSE {Head(clashes)}
Siblings(wines, w) ==
  LET all == SelectSeq(wines, LAMBDA v : /\ v.producer = w.producer /\ v.id # w.id /\ ~v.deleted
                                         /\ v.vintage \in {0, w.vintage}) IN
  Range(SubSeq(all, 1, Min({Compared, Len(all)})))
Implausible(w, year) == w.vintage # 0 /\ (w.vintage > year \/ w.vintage < year - 120)
BelowCost(w) == w.bottlePrice # 0 /\ w.purchase # 0 /\ w.bottlePrice < w.purchase

Found(w, other, reason, confidence) ==
  [wine |-> w.id, other |-> other, reason |-> reason, confidence |-> confidence]
Suspicions(wines, w, year, ratio) ==
  UNION {
    {Found(w, v.id, "same_barcode", 99) : v \in BarcodeClash(wines, w)},
    {Found(w, v.id, "similar_name", ratio[w.name, v.name]) :
       v \in {v \in Siblings(wines, w) : ratio[w.name, v.name] >= Threshold}},
    IF Implausible(w, year) THEN {Found(w, NoWine, "implausible_vintage", 85)} ELSE {},
    IF BelowCost(w) THEN {Found(w, NoWine, "price_anomaly", 90)} ELSE {}}

Key(a) == <<a.wine, a.other, a.reason>>
\* An alert that is there already keeps the status a reviewer gave it.
UpsertAlerts(alerts, found) ==
  LET renewed(a) == CHOOSE f \in found : Key(f) = Key(a)
      known(x, S) == \E y \in S : Key(x) = Key(y) IN
  {[a EXCEPT !.confidence = IF known(a, found) THEN renewed(a).confidence ELSE @] : a \in alerts}
  \cup {[wine |-> f.wine, other |-> f.other, reason |-> f.reason, confidence |-> f.confidence,
         status |-> "open"] : f \in {f \in found : ~known(f, alerts)}}
DetectDuplicates(alerts, wines, year, ratio) ==
  LET scanned == {w \in Range(wines) : ~w.deleted /\ w.active} IN
  UpsertAlerts(alerts, UNION {Suspicions(wines, w, year, ratio) : w \in scanned})
AlertList(alerts) == {a \in alerts : a.status = "open"}
-----------------------------------------------------------------------------
(* Pages and their permissions. *)
ListFilter(wines, lots, f) ==
  {w \in wines : /\ ~w.deleted
                 /\ f.type = "" \/ w.type = f.type
                 /\ f.byGlass => w.byGlass
                 /\ f.lowStock => IsBelowMinimum(w, lots)}
PermissionOf(page) ==
  CASE page = "wines" -> "cellar.view_wine" [] page = "open_bottles" -> "cellar.view_bottleopening"
    [] page = "storage" -> "cellar.view_winestoragelocation"
    [] page = "valuation" -> "cellar.can_view_cellar_valuation"
    [] page = "duplicates" -> "cellar.view_wineduplicatealert"
    [] page = "open_bottle" -> "cellar.can_open_bottle" [] page = "pour_glass" -> "cellar.can_pour_glass"
\* A wine's page shows costs to those who may see the valuation.
MayOpen(user, page) == user.superuser \/ PermissionOf(page) \in user.permissions
\* The scan of the duplicates page: posted by one who may see it, or nothing.
RunDuplicateScan(user, method, alerts, wines, year, ratio) ==
  IF method = "POST" /\ MayOpen(user, "duplicates") THEN DetectDuplicates(alerts, wines, year, ratio) ELSE alerts
=============================================================================
