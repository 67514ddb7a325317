------------------------------ MODULE Discovery ----------------------------
(***************************************************************************)
(* What a customer looking for a provider is shown: the free slots of a    *)
(* schedule (libs/domain/slot-computation/src/index.ts, fed by             *)
(* libs/services/availability/src/availability-service.ts) and the cards   *)
(* of a search in their order (libs/domain/ranking/src/index.ts,           *)
(* apps/api/src/discovery.ts).                                             *)
(*                                                                         *)
(* Pure operators on a question q: about a schedule, or about a search     *)
(* among some providers.  Oracles asks them.  Times are whole ticks; a     *)
(* score is in thousandths, rounded down, where the code has a double.     *)
(***************************************************************************)
EXTENDS Integers, Sequences, FiniteSets, SequencesExt

CONSTANTS
    DayLength,       \* ticks in a day (1440 minutes)
    WeekLength,      \* days in a week
    Buffer,          \* travel buffer, ticks
    Threshold,       \* newProviderReviewThreshold
    Completions,     \* numbers of completed bookings
    CompletionWorth  \* what each of them counts for: 1 - exp(-n / 10)

ASSUME DaysAreDays == DayLength \in Nat \ {0} /\ WeekLength \in Nat \ {0}
ASSUME BufferIsTime == Buffer \in Nat
ASSUME ThresholdIsPositive == Threshold \in Nat \ {0}
ASSUME WorthGrows ==
    /\ Completions \subseteq Nat
    /\ CompletionWorth \in [Completions -> Nat]
    /\ \A m, n \in Completions : m <= n => CompletionWorth[m] <= CompletionWorth[n]

NoNumber == -1  \* null, or a parameter that is not there

---------------------------------------------------------------------------
(* Lists.                                                                  *)

\* What a loop keeps that passes over all others.
Kept(s, Test(_)) ==
    FlattenSeq([i \in DOMAIN s |-> IF Test(s[i]) THEN <<s[i]>> ELSE << >>])

\* The elements of a set in an order, ties in any.
InOrder(S, Before(_, _)) ==
    CHOOSE s \in SetToSeqs(S) : \A i, j \in DOMAIN s : i < j => ~Before(s[j], s[i])

---------------------------------------------------------------------------
(* The slots of a schedule.                                                *)

Slot(start, duration) == [start |-> start, end |-> start + duration]

Earlier(a, b) ==
    \/ a.weekday < b.weekday
    \/ a.weekday = b.weekday /\ a.start < b.start

\* listWeekly: ORDER BY weekday, start_minute.
ListWeekly(rules) == InOrder(rules, Earlier)

\* A block closes the day, an extra replaces its weekly hours.
WindowsForDay(q, day) ==
    LET today == Kept(q.exceptions, LAMBDA x : x.day = day)
        extras == Kept(today, LAMBDA x : x.kind = "extra")
        weekly == Kept(ListWeekly(q.weekly), LAMBDA r : r.weekday = day % WeekLength)
    IN IF \E i \in DOMAIN today : today[i].kind = "block" THEN << >>
       ELSE IF extras # << >> THEN extras
       ELSE weekly

\* The times a query gives, or what the route puts in their place.
FromOf(q) == IF q.query.from = NoNumber THEN q.now ELSE q.query.from
ToOf(q) == IF q.query.to = NoNumber THEN FromOf(q) + q.query.ahead ELSE q.query.to

\* startOfDayUtc of both.
FirstDay(q) == FromOf(q) \div DayLength
LastDay(q) == ToOf(q) \div DayLength

\* The window w of a day.  An extra may begin before its day or end after it.
Opening(day, w) ==
    [start |-> day * DayLength + w.start, end |-> day * DayLength + w.end]

\* The windows from the first day asked about to the last.
Openings(q) ==
    LET OfDay(day) == LET windows == WindowsForDay(q, day)
                      IN [i \in DOMAIN windows |-> Opening(day, windows[i])]
    IN FlattenSeq([i \in 1..(LastDay(q) - FirstDay(q) + 1) |-> OfDay(FirstDay(q) + i - 1)])

\* Mutation: the grid of a window that is open starts now.
GridFromNow(q, w) ==
    LET first == IF q.now > w.start THEN q.now ELSE w.start
    IN [i \in 1..((w.end - first) \div q.duration) |->
          Slot(first + (i - 1) * q.duration, q.duration)]

\* A window is cut into slots from its start; a rest too short is not offered.
Grid(q, w) ==
    [i \in 1..((w.end - w.start) \div q.duration) |->
       Slot(w.start + (i - 1) * q.duration, q.duration)]

\* blockedRange: the buffer and the band of the distance, on both sides.
Pad(occ) == Buffer + occ.band

\* Mutation: what only touches overlaps.
Touches(slot, occ) ==
    slot.start <= occ.end + Pad(occ) /\ slot.end >= occ.start - Pad(occ)

Overlaps(slot, occ) ==
    slot.start < occ.end + Pad(occ) /\ slot.end > occ.start - Pad(occ)

Free(q, slot) ==
    slot.start >= q.now /\ \A occ \in q.occupied : ~Overlaps(slot, occ)

ComputeSlots(q) ==
    LET windows == Openings(q)
    IN Kept(FlattenSeq([i \in DOMAIN windows |-> Grid(q, windows[i])]),
            LAMBDA slot : Free(q, slot))

\* occupancyConflicts: what starts on the day a provider wants to block.
OccupancyConflicts(occupied, day) ==
    {occ \in occupied : occ.start \div DayLength = day}

---------------------------------------------------------------------------
(* The order of the cards.                                                 *)

Thousand == 1000

Clamp(x) == IF x < 0 THEN 0 ELSE IF x > Thousand THEN Thousand ELSE x

WeekHours == 24 * 7

\* Mutation: no slot at all counts as a slot right now.
HoursAheadOfNull(p) == IF p.next = NoNumber THEN 0 ELSE p.next

\* Hours to the next slot; a week when there is none.
HoursAhead(p) == IF p.next = NoNumber THEN WeekHours ELSE p.next

RatingAvg(p) == IF p.count < 1 THEN NoNumber ELSE (p.sum * Thousand) \div p.count

OrZero(x) == IF x = NoNumber THEN 0 ELSE x

Prior == 3500

\* A provider with few reviews is taken to have the prior.
RatingSignal(p) ==
    LET avg == IF p.count < Threshold THEN Prior ELSE RatingAvg(p)
        confidence == Clamp((p.count * Thousand) \div Threshold)
    IN ((avg \div 5) * (Thousand + confidence)) \div (2 * Thousand)

CompletionSignal(p) == CompletionWorth[p.completions]

\* scoreCandidate, with all four weights 1.
Score(p) ==
    Clamp(Thousand - (p.km * Thousand) \div 15)
      + Clamp(Thousand - (HoursAhead(p) * Thousand) \div WeekHours)
      + RatingSignal(p) + CompletionSignal(p)

ByScore(a, b) == Score(a) > Score(b) \/ (Score(a) = Score(b) /\ a.id < b.id)

\* defaultDistanceThenRating.
ByDistance(a, b) ==
    LET rated(p) == OrZero(RatingAvg(p))
    IN \/ a.km < b.km
       \/ a.km = b.km /\ rated(a) > rated(b)
       \/ a.km = b.km /\ rated(a) = rated(b) /\ a.id < b.id

\* The filters of composeDiscovery: some slot on the day, headline ?? 0,
\* headline ?? Infinity, average ?? 0.
Matches(p, f) ==
    /\ f.day # NoNumber => f.day \in p.days
    /\ f.service # NoNumber => f.service \in p.services
    /\ f.minPrice # NoNumber => OrZero(p.price) >= f.minPrice
    /\ f.maxPrice # NoNumber => (p.price # NoNumber /\ p.price <= f.maxPrice)
    /\ f.minRating # NoNumber => OrZero(RatingAvg(p)) >= f.minRating

\* listInRadius: who is public, has a place and a radius, and travels that far.
Reaches(p) == p.public /\ p.radius # NoNumber /\ p.km <= p.radius

Nearer(a, b) == a.km < b.km \/ (a.km = b.km /\ a.id < b.id)

ListInRadius(rows) == InOrder({p \in rows : Reaches(p)}, Nearer)

\* composeDiscovery: the ranker's answer, or the default order when it fails or
\* takes rankingTimeoutMs.
Cards(q) ==
    LET kept == Kept(ListInRadius(q.rows), LAMBDA p : Matches(p, q.filters))
    IN CASE q.ranker = "deterministic" -> InOrder(Range(kept), ByScore)
         [] q.ranker = "stub" -> Reverse(kept)
         [] OTHER -> InOrder(Range(kept), ByDistance)

\* The state a search is answered with: out_of_area only when nobody travels to
\* the customer, whatever the filters leave of those who do.
StateOf(q) ==
    IF ListInRadius(q.rows) = << >> THEN "out_of_area"
    ELSE IF Cards(q) = << >> THEN "no_matches"
    ELSE "ok"

---------------------------------------------------------------------------
(* What is promised of them.                                               *)

\* The hours a provider is open, said without the code's order of cases.
OpenHours(q, day) ==
    LET today(kind) == {i \in DOMAIN q.exceptions :
                          q.exceptions[i].day = day /\ q.exceptions[i].kind = kind}
    IN IF today("block") # {} THEN {}
       ELSE IF today("extra") # {} THEN {q.exceptions[i] : i \in today("extra")}
       ELSE {r \in q.weekly : r.weekday = day % WeekLength}

\* When, from the first of some days to the last.
OpenTimes(q, first, last) ==
    UNION {{Opening(day, w) : w \in OpenHours(q, day)} : day \in first..last}

\* A slot on the grid of an opening.
Fits(q, slot, w) ==
    /\ slot.start >= w.start
    /\ slot.end <= w.end
    /\ (slot.start - w.start) % q.duration = 0

\* Nothing that is taken, with its buffer and its band, reaches into it.
Undisturbed(q, slot) ==
    \A occ \in q.occupied : \/ slot.end + Buffer + occ.band <= occ.start
                            \/ slot.start >= occ.end + Buffer + occ.band

\* Everything of a schedule that could be offered.
FreeGrid(q) ==
    UNION { {slot \in {Slot(t, q.duration) : t \in w.start..w.end} :
                Fits(q, slot, w) /\ slot.start >= q.now /\ Undisturbed(q, slot)} :
            w \in OpenTimes(q, FirstDay(q), LastDay(q)) }

\* One ends before the other begins.
Apart(a, b) == a.end <= b.start

\* No two windows overlap or come in the wrong order.
WindowsAscend(q) ==
    \A i, j \in DOMAIN Openings(q) : i < j => Apart(Openings(q)[i], Openings(q)[j])

\* As good as the other in everything the score looks at.  One whose few
\* reviews count as the prior is only outdone by one who is above it.
NoWorse(a, b) ==
    /\ a.km <= b.km
    /\ b.next # NoNumber => (a.next # NoNumber /\ a.next <= b.next)
    /\ a.completions >= b.completions
    /\ a.count >= b.count
    /\ RatingAvg(a) >= (IF b.count < Threshold /\ a.count >= Threshold
                        THEN Prior ELSE RatingAvg(b))
=============================================================================
