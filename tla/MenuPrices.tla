---------------------------- MODULE MenuPrices ----------------------------
(***************************************************************************)
(* Prices and costs of the menu (catalog/models.py), the price an order    *)
(* line takes from it (operations/services.py), and the menu guests read.  *)
(* Money is in kuruş, percentages are whole, an amount of a recipe is in   *)
(* 1/10000 of its unit and a unit cost in 1/10000.  Time is a day, whose   *)
(* weekday is its remainder by 7, and a minute of it.                      *)
(***************************************************************************)
LOCAL INSTANCE Integers
LOCAL INSTANCE FiniteSetsExt
F == INSTANCE Figures

Unset == -1
Between(start, n, end) == (start = Unset \/ start <= n) /\ (end = Unset \/ n <= end)
\* Opening hours past midnight, as 22:00 to 02:00, belong to the weekday of the
\* clock, not to the evening they began on; one hour alone limits nothing.
InHours(rule, minute) ==
  LET s == rule.startsAt  e == rule.endsAt IN
  \/ s = Unset \/ e = Unset
  \/ s <= e /\ s <= minute /\ minute <= e
  \/ s > e /\ (minute >= s \/ minute <= e)
AppliesAt(rule, day, minute) ==
  /\ rule.active
  /\ Between(rule.startsOn, day, rule.endsOn)
  /\ rule.weekdays = {} \/ day % 7 \in rule.weekdays
  /\ InHours(rule, minute)

Apply(rule, price) ==
  LET result == CASE rule.type = "percent_off" -> F!HalfEven(price * (100 - rule.value), 100)
                  [] rule.type = "amount_off"  -> price - rule.value
                  [] rule.type = "fixed_price" -> rule.value
  IN Max({0, result})
\* The lowest price of the rules on the item itself.  Rules on its category,
\* and whether a rule needs an approval, are not asked.
EffectivePrice(item, rules, day, minute) ==
  Min({item.price} \cup
      {Apply(r, item.price) : r \in {r \in rules : item.id \in r.items /\ AppliesAt(r, day, minute)}})
PriceWithTax(item) == F!HalfEven(item.price * (100 + item.tax), 100)

\* A price of 0 of a wine counts as none.
LinePrice(item, wine, unit, rules, day, minute) ==
  LET own == CASE unit = "glass" -> wine.glass [] unit = "bottle" -> wine.bottle [] OTHER -> 0 IN
  IF own # 0 THEN own ELSE EffectivePrice(item, rules, day, minute)
-----------------------------------------------------------------------------
(* What a portion costs. *)
LineCost(line) == IF line.optional THEN 0 ELSE F!HalfEven(line.quantity * line.cost, 10000)
\* portions are in 1/100; none counts as one
TotalCost(recipe) ==
  LET portions == IF recipe.portions = 0 THEN 100 ELSE recipe.portions IN
  F!HalfEven(F!SumOf(recipe.lines, LineCost) * (100 + recipe.waste), 100 * portions)
\* A cost entered by hand, or without a recipe, stays.
RecalculateCost(item, recipes) ==
  LET own == {r \in recipes : r.item = item.id} IN
  IF item.manual \/ own = {} THEN item ELSE [item EXCEPT !.cost = TotalCost(F!One(own))]
Margin(item)          == item.price - item.cost
MarginPercent(item)   == F!Percent(Margin(item), item.price)
FoodCostPercent(item) == F!Percent(item.cost, item.price)
-----------------------------------------------------------------------------
(* The menu a guest reads at a table, and the lists of the staff. *)
Shown(category) == category.active /\ category.qr
Root == "root"
Section(category, categories) ==
  {category.id} \cup {c.id : c \in {c \in categories : c.parent = category.id /\ Shown(c)}}
OnSale(item) == ~item.deleted /\ item.active /\ item.available
\* A section without items is left out, and only categories below a shown root
\* and one level under it are looked at.
QrMenu(categories, items) ==
  LET dishes(c) == {i \in items : OnSale(i) /\ i.qr /\ i.category \in Section(c, categories)} IN
  {[category |-> c.id, items |-> dishes(c)] :
     c \in {c \in categories : Shown(c) /\ c.parent = Root /\ dishes(c) # {}}}
ItemList(items, f) ==
  {i \in items : /\ ~i.deleted
                 /\ f.category = "" \/ i.category = f.category
                 /\ f.type = "" \/ i.type = f.type
                 /\ f.available => i.active /\ i.available}
MayOrder(item) == item.active /\ item.available
===========================================================================
