---------------------------- MODULE MCCustomers ----------------------------
(* Two clerks about one customer: an order, a bill split off, a booking. *)
EXTENDS Customers, TLC
Sym == Permutations(Clerks) \cup Permutations(Requests) \cup Permutations(Papers \ Bookings)
=============================================================================
