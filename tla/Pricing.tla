------------------------------- MODULE Pricing -------------------------------
(***************************************************************************)
(* The price of a booking: quoted while the client fills in the form,      *)
(* computed again when the booking is made, and the delivery time that     *)
(* goes with it fixed when a driver has won the trip.  Between the three   *)
(* the administrator may save other rates and the trucks around the pickup *)
(* may come and go.  Money is in paise, shares are in percent, rounding is *)
(* to the paisa as in round2.                                              *)
(***************************************************************************)
EXTENDS Integers, Sequences

CONSTANTS
    Requests,      \* what a client may ask for, see Request
    Saved          \* the configurations an administrator saves, see Config

VARIABLES
    config,        \* pricing_config.config
    crowded,       \* more than NEARBY_SURGE_THRESHOLD_TRUCKS trucks are near the pickup
    quote,         \* the last quote, with what it was computed from
    booking,       \* the booking made after it
    hours          \* trips.expected_delivery_hours, in hundredths; -1 before there is a trip

vars == <<config, crowded, quote, booking, hours>>

None == [at |-> "none"]
\* traffic is the ratio, in percent, of the time in traffic to the time without; 0 if unknown.
Request(category, transport, distance, express, zone, traffic, capacity) ==
    [category |-> category, transport |-> transport, distance |-> distance, express |-> express,
     zone |-> zone, traffic |-> traffic, capacity |-> capacity]
\* A tier is <<upper bound, value>>; the last one is open.
Config(charge, advance, sla, surcharge, factor, fuel, toll) ==
    [charge |-> charge, advance |-> advance, sla |-> sla, surcharge |-> surcharge,
     factor |-> factor, fuel |-> fuel, toll |-> toll]
Open == 2000000000

\* The configuration the migration leaves, with the defaults of what it leaves out.
Default == Config([threshold |-> 1000000, low |-> 7, high |-> 5],
                  <<<<500000, [flat |-> 100000, percent |-> 0]>>, <<1000000, [flat |-> 200000, percent |-> 0]>>,
                    <<Open, [flat |-> 0, percent |-> 80]>>>>,
                  <<<<300, 36>>, <<1000, 48>>, <<Open, 120>>>>, 20, 60, 15, 50000)
-----------------------------------------------------------------------------
Least(a, b)      == IF a < b THEN a ELSE b
Most(a, b)       == IF a > b THEN a ELSE b
Percent(x, p)    == (x * p + 50) \div 100                     \* round2 of a share
\* The first tier x does not exceed, or else the last one.
Tier(tiers, x)   == tiers[CHOOSE i \in 1..Len(tiers) :
                             /\ i = Len(tiers) \/ x <= tiers[i][1]
                             /\ \A j \in 1..i-1 : x > tiers[j][1]][2]

\* The rate card in rupees: the floor, and the rate per km of each distance band.
Bands == <<25, 50, 100, 300, 1000, 1500, 2000, Open>>
Card(key) ==
    CASE key = "3_wheeler"  -> [floor |-> 400,  rates |-> <<35, 27, 32, 17, 12, 12, 12, 12>>, kerala |-> 22]
      [] key = "pickup_8ft" -> [floor |-> 900,  rates |-> <<65, 37, 47, 26, 15, 15, 15, 15>>, kerala |-> 26]
      [] key = "14ft"       -> [floor |-> 1700, rates |-> <<110, 68, 88, 33, 20, 20, 20, 20>>, kerala |-> 29]
TypeKey(category) ==                                          \* resolveVehicleTypeKey
    CASE category = "3_wheeler" -> "3_wheeler"
      [] category = "small"     -> "pickup_8ft"
      [] OTHER                  -> "14ft"

\* computeVehicleFare: a region's rate if the drop is in one, else the rate of the band, and
\* never less than the floor.
RatePerKm(r) ==
    LET card == Card(TypeKey(r.category)) IN
    IF r.zone = "kerala" THEN card.kerala
    ELSE Tier([i \in 1..Len(Bands) |-> <<Bands[i], card.rates[i]>>], r.distance)
Fare(r) ==
    LET floor == 100 * Card(TypeKey(r.category)).floor
        raw   == 100 * r.distance * RatePerKm(r) IN
    [base |-> floor, rest |-> Most(0, raw - floor)]

TrafficPercent(r) ==                                          \* getTrafficMultiplier
    IF r.traffic = 0 THEN 100
    ELSE Tier(<<<<110, 100>>, <<130, 115>>, <<160, 130>>, <<Open, 150>>>>, r.traffic)
SupplyPercent(crowd) == IF crowd THEN 105 ELSE 100
\* What follows is by the rates saved at the time.
ServiceCharge(rates, x) ==                                    \* computeServiceCharge
    Percent(x, IF x <= rates.charge.threshold THEN rates.charge.low ELSE rates.charge.high)
AdvanceAmount(rates, x) ==                                    \* computeAdvanceAmount
    LET tier == Tier(rates.advance, x) IN
    Least(x, IF tier.percent > 0 THEN Percent(x, tier.percent) ELSE tier.flat)
DeliveryHours(rates, km) == Tier(rates.sla, km)               \* getExpectedDeliveryHours

\* Express is for intra-city bookings of a whole truck.
ExpressActive(r) == r.express /\ r.transport # "inter" /\ r.category # "part"

\* What a fare of its own kind costs before surcharges: fuel and toll between cities, a share
\* of a truck's cost for a part load.
Subtotal(rates, r) ==
    LET fare == Fare(r).base + Fare(r).rest IN
    CASE r.category = "part"  -> Percent(100 * r.distance * 40, r.capacity)
      [] r.category # "part" /\ r.transport = "inter" -> fare + Percent(fare, rates.fuel) + rates.toll
      [] OTHER                -> fare

\* PricingModel.estimate: the lines of the breakdown, by the rates saved and the trucks around.
Estimate(rates, crowd, r) ==
    LET subtotal == Subtotal(rates, r)
        traffic  == Percent(subtotal, TrafficPercent(r) - 100)
        supply   == Percent(subtotal, SupplyPercent(crowd) - 100)
        adjusted == subtotal + traffic + supply
        fee      == ServiceCharge(rates, adjusted)
        express  == IF ExpressActive(r) THEN Percent(adjusted + fee, rates.surcharge) ELSE 0
    IN [subtotal |-> subtotal, traffic |-> traffic, supply |-> supply, fee |-> fee, express |-> express,
        total |-> adjusted + fee + express,
        hours |-> IF ExpressActive(r) THEN DeliveryHours(rates, r.distance) * rates.factor
                  ELSE DeliveryHours(rates, r.distance) * 100]
-----------------------------------------------------------------------------
TypeOK ==
    /\ config \in Saved \union {Default}
    /\ crowded \in BOOLEAN
    /\ quote = None \/ quote.request \in Requests
    /\ booking = None \/ /\ booking.amount \in Nat /\ booking.fee \in Nat
                         /\ booking.advance \in 0..booking.amount
    /\ hours \in Nat \union {-1}

Init ==
    /\ config = Default /\ crowded = FALSE
    /\ quote = None /\ booking = None /\ hours = -1

\* quoteBooking.
Quote(r) ==
    /\ booking = None
    /\ r.express => r.transport = "intra"
    /\ quote' = [at |-> "quoted", request |-> r, config |-> config, crowded |-> crowded,
                 price |-> Estimate(config, crowded, r)]
    /\ UNCHANGED <<config, crowded, booking, hours>>

\* Bug: the zone of the drop is not handed on either.
BookedAsNowhere(r) == [r EXCEPT !.capacity = 100, !.zone = "none"]
\* What createBooking hands to estimate: a part load's share of the truck is not among it.
BookedAs(r) == [r EXCEPT !.capacity = 100]

\* createBooking; the amount may come with the request, as the client has seen it.
Book(given) ==
    LET r == quote.request  e == Estimate(config, crowded, BookedAs(r)) IN
    /\ quote # None /\ booking = None
    /\ booking' = [at |-> "booked", config |-> config, crowded |-> crowded, given |-> given,
                   amount |-> IF given THEN quote.price.total ELSE e.total, fee |-> e.fee,
                   express |-> r.transport = "intra" /\ r.express, surcharge |-> e.express,
                   advance |-> 0]
    /\ UNCHANGED <<config, crowded, quote, hours>>

\* Bug: whether the client had asked for express is not looked at.
FixShortTime ==
    LET base == DeliveryHours(config, quote.request.distance) IN
    /\ booking # None /\ hours = -1
    /\ hours' = base * config.factor
    /\ UNCHANGED <<config, crowded, quote, booking>>
\* finalizeDriverRequest fixes the delivery time of the trip.
FixDeliveryTime ==
    LET base == DeliveryHours(config, quote.request.distance) IN
    /\ booking # None /\ hours = -1
    /\ hours' = IF booking.express THEN base * config.factor ELSE base * 100
    /\ UNCHANGED <<config, crowded, quote, booking>>

\* payBooking in advance: the share is the one of the rates saved by then.
PayAdvance ==
    /\ booking # None /\ booking.advance = 0
    /\ booking' = [booking EXCEPT !.advance = AdvanceAmount(config, booking.amount)]
    /\ UNCHANGED <<config, crowded, quote, hours>>

\* updatePricingConfig replaces the whole row.
UpdateConfig(c) ==
    /\ c # config /\ config' = c
    /\ UNCHANGED <<crowded, quote, booking, hours>>

\* Trucks come to the pickup or leave it.
TrucksMove == crowded' = ~crowded /\ UNCHANGED <<config, quote, booking, hours>>

Next ==
    \/ \E r \in Requests : Quote(r)
    \/ \E given \in BOOLEAN : Book(given)
    \/ FixDeliveryTime \/ PayAdvance \/ TrucksMove
    \/ \E c \in Saved \union {Default} : UpdateConfig(c)

Spec == Init /\ [][Next]_vars
-----------------------------------------------------------------------------
\* A booking costs what was quoted for it, and carries the fee of that quote, when neither the
\* rates nor the trucks have changed in between ("the same PricingModel.estimate() call
\* createBooking makes internally", quoteBooking); only a part load's share is lost on the way.
QuoteHonoured ==
    (booking # None /\ quote.request.capacity = 100
        /\ booking.config = quote.config /\ booking.crowded = quote.crowded) =>
    /\ booking.amount = quote.price.total
    /\ booking.fee = quote.price.fee

\* The delivery time of a trip is that of rates that were saved at some time, the short one
\* exactly if the client pays for express delivery, unless it is a part load
\* (PricingModel.estimate, createBooking, finalizeDriverRequest).
ExpressPaidFor ==
    (hours # -1 /\ quote.request.category # "part") =>
    \E c \in Saved \union {Default} :
        hours = Tier(c.sla, quote.request.distance) * (IF booking.surcharge > 0 THEN c.factor ELSE 100)
=============================================================================
