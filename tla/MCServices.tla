----------------------------- MODULE MCServices -----------------------------
(***************************************************************************)
(* The services on small instances: the values whose shape a configuration *)
(* cannot write.                                                           *)
(***************************************************************************)
EXTENDS Services, TLC

Mix(ops, orders, keys, calls) == [ops |-> ops, orders |-> orders, keys |-> keys, calls |-> calls]

\* How bookings are placed and broadcast: with a key and a failure; by the sweep, of which a failure
\* leaves the rest; searched again; asked for by the client, beside another client's call and beside
\* the sweep.
SixMixes == {Mix({"now", "fail", "stop"}, 2, {"k1"}, {"c1", "c2"}),
             Mix({"later", "fail"}, 2, {"none"}, {"c1", "s1"}),
             Mix({"now", "later", "again", "stop"}, 1, {"none"}, {"c1", "c2", "s1"}),
             Mix({"later", "again", "fail", "stop"}, 1, {"none"}, {"c1", "s1", "s2"}),
             Mix({"now", "again", "ask", "stop"}, 1, {"none"}, {"c1", "c2"}),
             Mix({"later", "again", "ask", "stop"}, 1, {"none"}, {"c1", "s1"})}

Order(mode, n, unit, size) == [mode |-> mode, load |-> [n |-> n, unit |-> unit], size |-> size]

NineTons   == [t \in {"t1"} |-> 9000]
ThirtyTwo  == [t \in {"t1"} |-> "32ft"]
SomeOrders == {Order("part_load", 5, "tons", "any"), Order("part_load", 45, "quintal", "32ft"),
               Order("truck", 4000, "kg", "any")}

\* Whole trucks and a shared one, in a city and between cities; a drop in a zone with a rate of
\* its own, in and out of traffic; a share of a truck.
Ask(category, transport, distance, express, zone, traffic, capacity) ==
    [category |-> category, transport |-> transport, distance |-> distance, express |-> express,
     zone |-> zone, traffic |-> traffic, capacity |-> capacity]

SomeAsks ==
    {Ask(c, t, 301, e, "none", 0, 100) :
        c \in {"3_wheeler", "14ft", "part"}, t \in {"intra", "inter"}, e \in BOOLEAN}
    \union {Ask("small", t, d, e, "kerala", traffic, 100) :
        t \in {"intra", "inter"}, d \in {20, 1100}, e \in BOOLEAN, traffic \in {0, 140}}
    \union {Ask("part", "inter", 301, FALSE, "none", 0, 40)}

OtherRates == {[charge |-> [threshold |-> 500000, low |-> 8, high |-> 6],
                advance |-> <<<<2000000000, [flat |-> 0, percent |-> 30]>>>>,
                sla |-> <<<<500, 20>>, <<2000000000, 90>>>>,
                surcharge |-> 25, factor |-> 50, fuel |-> 10, toll |-> 70000]}

Symmetry == Permutations(Trucks) \union Permutations(Crew) \union Permutations(Hands)
=============================================================================
