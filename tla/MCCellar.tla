------------------------------ MODULE MCCellar ------------------------------
(* One wine by the glass in three lots, the second without a date: 250 ml  *)
(* bottles and 150 ml glasses, so that a bottle ends with a rest.  Before  *)
(* the run TLC evaluates the claims about the figures and alerts below.    *)
EXTENDS Cellar, Sequences, TLC
LOCAL INSTANCE SequencesExt
CF == INSTANCE CellarFigures

CONSTANTS w

MCBottleSize == w :> 10
MCGlassPour  == w :> 6
MCWineOf     == [l \in Lots |-> w]
MCReceived   == (1 :> 1) @@ (2 :> 1) @@ (3 :> 2)
MCBestBefore == (1 :> 9) @@ (2 :> NoDate) @@ (3 :> 5)
Sym == Permutations(Terminals)
-----------------------------------------------------------------------------
\* The path of a region ends with it and is never longer than its limit, even
\* where a region was made its own ancestor, and starts at a root otherwise.
Regions == {"a", "b", "c"}
ASSUME PathsEnd ==
  \A parent \in [Regions -> Regions \cup {CF!Nobody}], r \in Regions :
    LET path == CF!RegionPath(parent, r) IN
    /\ path # <<>> /\ path[Len(path)] = r /\ Len(path) <= 10
    /\ \A i \in 2 .. Len(path) : parent[path[i]] = path[i - 1]
    /\ parent[path[1]] = CF!Nobody \/ Len(path) = 10

\* The glasses shown for a wine put the rests of its bottles together: they
\* exceed what the bottles give one by one, but by less than one a bottle.
Bottle(n, rest) == [id |-> n, wine |-> "w", left |-> rest, initial |-> 750, status |-> "open",
                    opened |-> 0, closed |-> 0, freshness |-> 48]
Vintage(pour) == [id |-> "w", pour |-> pour, size |-> 750, purchase |-> 333, bottlePrice |-> 1000, minimum |-> 2]
ASSUME RestsMakeNoBottle ==
  \A rests \in [1 .. 3 -> {0, 50, 149, 150, 299, 750}], pour \in {0, 100} :
    LET v == Vintage(pour)
        open == {Bottle(n, rests[n]) : n \in 1 .. 3}
        pooled == CF!GlassesAvailable(v, open)
        single == CF!OpenBottleList("w" :> v, open, 1).glasses
    IN /\ single <= pooled /\ pooled < single + 3
       /\ \A o \in open : CF!TheoreticalGlassesPerBottle(v) -
                            (CF!GlassesPoured(v, o) + CF!GlassesRemaining(v, o)) \in {0, 1}

\* The cellar is worth the sum of its wines at cost, and its open bottles no
\* more than they cost closed; deleted lots count nowhere.
ASSUME ValuationIsTheSum ==
  \A kept \in [1 .. 3 -> 0 .. 2], gone \in SUBSET (1 .. 3), ml \in {0, 1, 375, 750} :
    LET wineOf == "v" :> [Vintage(0) EXCEPT !.id = "v"] @@ "w" :> Vintage(0)
        lots == {[id |-> n, wine |-> IF n = 3 THEN "w" ELSE "v", remaining |-> kept[n], cost |-> 100 + n,
                  deleted |-> n \in gone, location |-> "A"] : n \in 1 .. 3}
        open == {Bottle(1, ml), Bottle(2, 750 - ml)}
        value == CF!CellarValuation(wineOf, lots, open)
    IN /\ value.cost = CF!StockValue(wineOf["v"], lots) + CF!StockValue(wineOf["w"], lots)
       /\ value.bottles = CF!BottlesOnHand(wineOf["v"], lots) + CF!BottlesOnHand(wineOf["w"], lots)
       /\ value.open = 333

\* With the years a window only moves on: a wine past its peak stays so, none
\* becomes too young again, and no wine is ready outside its window.
ASSUME WindowsMoveForward ==
  \A v \in [from : {0, 3, 5}, until : {0, 4, 6}, peak : {0, 2, 4, 6}] :
    LET stage(y) == LET s == CF!DrinkWindowStatus(v, y) IN
          IF s = "too_young" THEN 1 ELSE IF s = "past_peak" THEN 3 ELSE 2
    IN \A y \in 1 .. 7 : \A z \in y .. 8 :
         /\ stage(y) <= stage(z)
         /\ (v.from # 0 \/ v.until # 0) =>
              (stage(y) = 2 <=> v.from <= y /\ (v.until # 0 => y <= v.until))
         /\ CF!DrinkWindowStatus(v, y) = "drink_soon" => stage(y + 2) = 3

\* The warnings are of wines in stock, past peak before those to drink soon
\* before those at their peak, and shortening the list drops the last ones.
Shelved(n, u) == [id |-> n, deleted |-> FALSE, active |-> n # 4, from |-> 1, until |-> u, peak |-> 5]
ASSUME UrgentWinesComeFirst ==
  \A u \in [1 .. 4 -> {4, 5, 6, 9}], kept \in [1 .. 4 -> {0, 1, 3}] :
    LET wines == [n \in 1 .. 4 |-> Shelved(n, u[n])]
        lots == {[id |-> n, wine |-> n, remaining |-> kept[n], cost |-> 1, deleted |-> FALSE] : n \in 1 .. 4}
        all == CF!DrinkWindowAlerts(wines, lots, 5, 50)
    IN /\ \A i \in DOMAIN all : all[i].bottles > 0 /\ all[i].wine # 4
       /\ \A i, j \in DOMAIN all : i < j =>
            /\ all[j].status = "past_peak" => all[i].status = "past_peak"
            /\ all[i].status = "peak" => all[j].status = "peak"
       /\ \A n \in 1 .. 3 : u[n] < 9 /\ kept[n] > 0 => \E i \in DOMAIN all : all[i].wine = n

\* A reading at the edge of its tolerance is no alert, and the page judges the
\* newest reading whatever came before.
Cellarage(code) == [code |-> code, active |-> TRUE, temperature |-> 130, temperatureTolerance |-> 20,
                    humidity |-> 70, humidityTolerance |-> 10]
ASSUME NewestReadingDecides ==
  \A temps \in [1 .. 2 -> {109, 110, 130, 150, 151}], humid \in [1 .. 2 -> {CF!Unmeasured, 59, 60, 80, 81}] :
    LET readings == {[location |-> "A", at |-> n, temperature |-> temps[n], humidity |-> humid[n]] : n \in 1 .. 2}
    IN CF!StorageList({Cellarage("A"), Cellarage("B")}, readings) =
         {[location |-> "A", alert |-> temps[2] \in {109, 151} \/ humid[2] \in {59, 81}],
          [location |-> "B", alert |-> FALSE]}

\* A second scan of the same wines adds and reopens nothing; a scan removes no
\* alert, two equal wines accuse each other, and one wine of a year accuses a
\* sibling without a year but not the reverse.
Label(n, name, vintage, barcode, price) ==
  [id |-> n, producer |-> "p", name |-> name, vintage |-> vintage, barcode |-> barcode,
   bottlePrice |-> price, purchase |-> 5, deleted |-> FALSE, active |-> TRUE]
Alike == [pair \in {"x", "y"} \X {"x", "y"} |-> IF pair[1] = pair[2] THEN 100 ELSE 50]
ASSUME ScansAgree ==
  \A vintages \in [1 .. 3 -> {0, 1890, 2020, 2030}], names \in [1 .. 3 -> {"x", "y"}], barcodes \in [1 .. 3 -> {"", "7"}] :
    LET wines == [n \in 1 .. 3 |-> Label(n, names[n], vintages[n], barcodes[n], n + 3)]
        first == CF!DetectDuplicates({}, wines, 2026, Alike)
        reviewed == {[a EXCEPT !.status = IF a.reason = "price_anomaly" THEN "dismissed" ELSE @] : a \in first}
        accuses(a, b) == \E x \in first : x.wine = a /\ x.other = b /\ x.reason = "similar_name"
    IN /\ CF!DetectDuplicates(reviewed, wines, 2026, Alike) = reviewed
       /\ \A gone \in 1 .. 3 :
            LET fewer == [wines EXCEPT ![gone].deleted = TRUE] IN
            first \subseteq CF!DetectDuplicates(first, fewer, 2026, Alike)
       /\ Cardinality({CF!Key(a) : a \in first}) = Cardinality(first)
       /\ \A a, b \in 1 .. 3 : a # b /\ names[a] = names[b] =>
            /\ accuses(a, b) <=> vintages[b] \in {0, vintages[a]}
            /\ vintages[a] = vintages[b] => accuses(a, b) /\ accuses(b, a)

\* Seats shown are never below none, though guests may be registered beyond
\* the capacity; one guest holds one registration.
Guest(c, n) == [event |-> "e", customer |-> c, guests |-> n, cancelled |-> FALSE]
ASSUME OneRegistrationEach ==
  \A n, m \in 1 .. 3 :
    LET booked == CF!Register(CF!Register(CF!Register({}, Guest("c", n)), Guest("d", m)), Guest("c", m))
        event == [id |-> "e", capacity |-> 4]
    IN /\ CF!SeatsTaken(event, booked) = n + m
       /\ CF!SeatsAvailable(event, booked) + CF!SeatsTaken(event, booked) \in {4, n + m}
=============================================================================
