--------------------------- MODULE MCReservations ---------------------------
(* Two like tables, two clerks, three overlapping or touching hours. *)
EXTENDS Reservations, TLC
SeatsOf == [t \in Tables |-> 4]
Sym == Permutations(Clerks) \cup Permutations(Bookings) \cup Permutations(Tables)
=============================================================================
