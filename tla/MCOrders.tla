------------------------------ MODULE MCOrders ------------------------------
(* Small instances of Orders: lines at prices 2, 1 and 2 hundredths, on    *)
(* two seats and one shared, for two stations or none.                     *)
EXTENDS Orders, FiniteSetsExt, TLC
MP == INSTANCE MenuPrices

CONSTANTS l1, l2, l3, kitchen, bar

Price     == (l1 :> 2) @@ (l2 :> 1) @@ (l3 :> 2)
MCTotal   == [S \in SUBSET Lines |-> MapThenSumSet(LAMBDA l : Price[l], S)]
MCSeat    == [l \in Lines |-> IF l = l1 THEN 1 ELSE IF l = l3 THEN 2 ELSE NoSeat]
MCStation == [l \in Lines |-> IF l = l1 THEN kitchen ELSE IF l = l2 THEN bar ELSE NoStation]
Rows      == Permutations(Orders) \cup Permutations(Tickets) \cup Permutations(Terminals)
               \cup Permutations(Screens)
-----------------------------------------------------------------------------
Rule(n, type, value, from, to, hours, days) ==
  [id |-> n, items |-> {"i"}, type |-> type, value |-> value, active |-> TRUE, startsOn |-> from, endsOn |-> to,
   startsAt |-> hours[1], endsAt |-> hours[2], weekdays |-> days]
Types == {"percent_off", "amount_off", "fixed_price"}
Dish == [id |-> "i", price |-> 333, tax |-> 10, cost |-> 100, manual |-> FALSE]
Always == <<MP!Unset, MP!Unset>>

\* Whatever campaigns overlap, the guest pays the lowest of their prices: never
\* below nothing, never more than the menu says, and no other rule makes a
\* dish dearer.
ASSUME LowestPriceWins ==
  \A t1, t2 \in Types, v1, v2 \in {0, 1, 50, 99, 150, 400} :
    LET one == Rule(1, t1, v1, MP!Unset, MP!Unset, Always, {})
        two == Rule(2, t2, v2, MP!Unset, MP!Unset, Always, {})
        both == MP!EffectivePrice(Dish, {one, two}, 1, 1)
    IN /\ both \in 0 .. Dish.price
       /\ both = Min({MP!EffectivePrice(Dish, {one}, 1, 1), MP!EffectivePrice(Dish, {two}, 1, 1)})
       /\ (v1 >= 100 /\ t1 = "percent_off") => both = 0

\* Hours through midnight apply to exactly the minutes the same hours turned
\* round leave out, bar the two ends; a happy hour of one weekday that runs past
\* midnight does not apply after it, but before dawn of its own day.
Minute == {0, 60, 120, 121, 720, 1319, 1320, 1439}
ASSUME HoursWrapAround ==
  /\ \A m \in Minute, s, e \in Minute : s < e =>
       LET day == Rule(1, "fixed_price", 1, MP!Unset, MP!Unset, <<s, e>>, {})
           night == [day EXCEPT !.startsAt = e, !.endsAt = s]
       IN /\ MP!AppliesAt(day, 1, m) \/ MP!AppliesAt(night, 1, m)
          /\ MP!AppliesAt(day, 1, m) /\ MP!AppliesAt(night, 1, m) <=> m \in {s, e}
  /\ LET friday == Rule(1, "fixed_price", 1, MP!Unset, MP!Unset, <<1320, 120>>, {4}) IN
     /\ MP!AppliesAt(friday, 4, 1320) /\ ~MP!AppliesAt(friday, 5, 60) /\ MP!AppliesAt(friday, 4, 60)

\* A rule applies on an unbroken run of days, both ends included.
ASSUME CampaignsAreIntervals ==
  \A from, to \in {MP!Unset} \cup 2 .. 6 :
    LET r == Rule(1, "amount_off", 1, from, to, Always, {}) IN
    \A d \in 1 .. 7 : MP!AppliesAt(r, d, 0) <=> (from = MP!Unset \/ from <= d) /\ (to = MP!Unset \/ d <= to)

\* A portion never costs less than its share of the ingredients to the
\* rounding, waste only adds, optional lines are free, and a cost entered by
\* hand stays; shares of cost and margin make up the price.
Recipe(q, c, optional, waste, portions) ==
  [item |-> "i", waste |-> waste, portions |-> portions,
   lines |-> {[id |-> n, quantity |-> q[n], cost |-> c[n], optional |-> optional = n] : n \in 1 .. 2}]
ASSUME PortionsAreCosted ==
  \A q, c \in [1 .. 2 -> {0, 3333, 10000}], optional \in 0 .. 2, waste \in {0, 7}, portions \in {0, 100, 400} :
    LET r == Recipe(q, c, optional, waste, portions)
        plain == Recipe(q, c, optional, 0, portions)
        dish == MP!RecalculateCost(Dish, {r})
        held == MP!RecalculateCost([Dish EXCEPT !.manual = TRUE], {r})
    IN /\ MP!TotalCost(plain) <= dish.cost /\ held.cost = Dish.cost
       /\ optional # 0 => dish.cost = MP!TotalCost([r EXCEPT !.lines = {x \in @ : x.id # optional}])
       /\ (MP!MarginPercent(dish) + MP!FoodCostPercent(dish) - 10000) \in -1 .. 1

\* A guest reads only what can be ordered, and a dish stands in one section.
Course(n, above, on) == [id |-> n, parent |-> above, active |-> on, qr |-> TRUE]
ASSUME GuestsReadWhatIsServed ==
  \A on \in [1 .. 3 -> BOOLEAN], at \in [1 .. 2 -> {"a", "b", "c"}], there \in [1 .. 2 -> BOOLEAN] :
    LET categories == {Course("a", MP!Root, on[1]), Course("b", "a", on[2]), Course("c", MP!Root, on[3])}
        items == {[id |-> n, category |-> at[n], deleted |-> FALSE, active |-> TRUE, available |-> there[n],
                   qr |-> TRUE] : n \in 1 .. 2}
        menu == MP!QrMenu(categories, items)
    IN /\ \A s \in menu : s.items # {} /\ \A i \in s.items : MP!MayOrder(i)
       /\ \A s, t \in menu : s # t => s.items \cap t.items = {}
       /\ \A i \in items : (MP!OnSale(i) /\ \A n \in 1 .. 3 : on[n]) => \E s \in menu : i \in s.items
=============================================================================
