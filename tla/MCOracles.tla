----------------------------- MODULE MCOracles -----------------------------
(* The booking machine around one slot that starts at 4; days of eight     *)
(* ticks and weeks of two days; up to three providers to a search.         *)
EXTENDS Oracles

MCClocks == 0..6
MCDeadlines == {-1, 2, 4}   \* -1: NoDeadline

Rule(weekday, start, end) == [weekday |-> weekday, start |-> start, end |-> end]

\* Nothing; a window that ends with the day; two that meet; two that cross.
MCPatterns ==
    { {}, {Rule(0, 1, 8)}, {Rule(0, 0, 3), Rule(0, 3, 7), Rule(1, 2, 5)},
      {Rule(1, 0, 5), Rule(1, 3, 8)} }

\* One that begins the day before, one that ends the day after.
MCExtraHours == {[start |-> -2, end |-> 3], [start |-> 5, end |-> 10]}

MCOccupancies ==
    { [start |-> 3, end |-> 5, band |-> 0], [start |-> 11, end |-> 12, band |-> 2],
      [start |-> 7, end |-> 9, band |-> 1] }

MCArguments == {S \in SUBSET MCOccupancies : Cardinality(S) <= 2}

Query(from, to, ahead) == [from |-> from, to |-> to, ahead |-> ahead]

\* What a card and a profile ask; a service's slots from a given day on; a
\* provider's own slots, of today and of some days.
MCQueries == { Query(-1, -1, 9), Query(3, -1, 9), Query(-1, -1, 0), Query(3, 20, 0) }

\* In thousandths.
MCCompletions == {0, 10}
MCCompletionWorth == [n \in MCCompletions |-> IF n = 0 THEN 0 ELSE 632]

MCDurations == {1, 2, 3}

\* Newcomers and established ones, near and far, busy and free.
MCProviders ==
    { [id |-> i, km |-> k, next |-> n, sum |-> r[1], count |-> r[2],
       completions |-> c, price |-> 50, services |-> {1}, public |-> TRUE,
       radius |-> 15, days |-> IF n = -1 THEN {} ELSE {n \div 24, 5}] :
         i \in {1, 2}, k \in {0, 7, 20}, n \in {-1, 0, 84, 200},
         r \in {<<0, 0>>, <<1, 1>>, <<10, 2>>, <<3, 3>>, <<15, 3>>}, c \in {0, 10} }
    \cup { [id |-> i, km |-> 3, next |-> 5, sum |-> 0, count |-> 0,
            completions |-> 0, price |-> p, services |-> {}, public |-> l,
            radius |-> r, days |-> {0}] :
              i \in {1, 2}, p \in {-1, 50}, l \in BOOLEAN, r \in {-1, 2, 3} }

Filter(service, day, minPrice, maxPrice, minRating) ==
    [service |-> service, day |-> day, minPrice |-> minPrice, maxPrice |-> maxPrice,
     minRating |-> minRating]

\* Any two of them with different ids, and some more.
MCSearches ==
    {rows \in {{a, b} : a, b \in MCProviders} : Cardinality({p.id : p \in rows}) = 2}
    \cup {{}}
    \cup {{a, b, [b EXCEPT !.id = 3]} :
             a \in {p \in MCProviders : p.id = 1 /\ p.km = 7 /\ p.next = 84},
             b \in {p \in MCProviders : p.id = 2 /\ p.km \in {3, 7}}}

MCFilters ==
    { Filter(-1, -1, -1, -1, -1), Filter(1, -1, -1, -1, 3000),
      Filter(-1, 3, 50, 50, -1) }
=============================================================================
