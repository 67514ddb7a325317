------------------------------- MODULE Oracles -----------------------------
(***************************************************************************)
(* The pure functions of the system put side by side: a question about the *)
(* booking machine (DesignTable, with its two properties) or about what a  *)
(* customer looking for a provider is shown (Discovery), the free slots of *)
(* a schedule or the cards of a search.  A behaviour stays with one        *)
(* question; about a schedule, which time and the provider change.         *)
(*                                                                         *)
(* The occupied times are an argument of computeSlots.  Its tests give it  *)
(* some; AvailabilityService.slots has [] for a default, and no route      *)
(* passes anything else: what is served is the case of an empty set.       *)
(***************************************************************************)
EXTENDS DesignTable, Discovery

CONSTANTS
    LastTick,        \* bound: the clock stops here
    Durations,       \* service durations
    Patterns,        \* sets of weekly rules [weekday, start, end]
    ExtraHours,      \* windows of an extra exception
    Occupancies,     \* occupied times [start, end, band]
    Arguments,       \* sets of them that computeSlots is asked with
    Queries,         \* [from, to, ahead]: the times a query gives, or NoNumber,
                     \* and discoveryWindowDays in ticks, or 0
    MaxExceptions,   \* bound
    Searches,        \* sets of rows a search runs over
    Filters          \* its filters

ASSUME DurationsArePositive == Durations \subseteq Nat \ {0}
ASSUME RulesAreWindows ==
    \A rules \in Patterns :
        /\ IsFiniteSet(rules)
        /\ \A r \in rules : r.weekday \in Int /\ r.start \in Int /\ r.end \in Int
ASSUME ExtrasAreWindows == \A w \in ExtraHours : w.start \in Int /\ w.end \in Int
ASSUME OccupanciesAreTimes ==
    \A occ \in Occupancies : occ.start \in Int /\ occ.end \in Int /\ occ.band \in Int
ASSUME ArgumentsAreOccupied == Arguments \subseteq SUBSET Occupancies
ASSUME QueriesAreTimes ==
    \A y \in Queries : y.from \in Int /\ y.to \in Int /\ y.ahead \in Nat
ASSUME RowsAreProviders ==
    \A rows \in Searches :
        /\ IsFiniteSet(rows)
        /\ \A a, b \in rows : a.id = b.id => a = b
        /\ \A p \in rows : /\ p.id \in Int /\ p.km \in Nat
                            /\ p.next \in Nat \cup {NoNumber}
                            /\ p.sum \in Nat /\ p.count \in Nat /\ p.completions \in Completions

---------------------------------------------------------------------------
(* What is asked.                                                          *)

ScheduleQuestions ==
    [about : {"schedule"}, now : {0}, duration : Durations, weekly : Patterns,
     exceptions : {<< >>}, occupied : Arguments, query : Queries]

SearchQuestions ==
    [about : {"search"}, rows : Searches, filters : Filters,
     ranker : {"deterministic", "stub", "late"}]

About(what) == "about" \in DOMAIN question /\ question.about = what
AboutSchedule == About("schedule")
AboutSearch == About("search")

AskAnything == Ask \/ question \in ScheduleQuestions \cup SearchQuestions

TimePasses ==
    /\ AboutSchedule
    /\ question.now < LastTick
    /\ question' = [question EXCEPT !.now = @ + 1]

\* replaceWeekly, in one transaction.
ReplaceRules(rules) ==
    /\ AboutSchedule
    /\ question' = [question EXCEPT !.weekly = rules]

\* addException: the conflicts are those with the occupied times the client
\* sends along, if it sends any.
AddBlock(day, sent) ==
    /\ AboutSchedule
    /\ Len(question.exceptions) < MaxExceptions
    /\ OccupancyConflicts(sent, day) = {}
    /\ question' = [question EXCEPT !.exceptions = Append(@, [day |-> day, kind |-> "block"])]

AddExtra(day, window) ==
    /\ AboutSchedule
    /\ Len(question.exceptions) < MaxExceptions
    /\ question' = [question EXCEPT !.exceptions =
                      Append(@, [day |-> day, kind |-> "extra",
                                 start |-> window.start, end |-> window.end])]

ScheduleChanges ==
    \/ TimePasses
    \/ \E rules \in Patterns : ReplaceRules(rules)
    \/ \E day \in 0..(LastTick \div DayLength) :
          \/ \E sent \in Arguments : AddBlock(day, sent)
          \/ \E window \in ExtraHours : AddExtra(day, window)

OracleNext == Advance \/ ScheduleChanges

OracleSpec == AskAnything /\ [][OracleNext]_question

---------------------------------------------------------------------------
(* Properties.                                                             *)

\* For the occupied times it is passed, computeSlots answers with the whole free
\* grid of the open hours of the days asked about and nothing else: a slot that
\* just fits the buffer, the end of a window or this very moment is there, one
\* that is a tick short is not.  The first, which search cards call the next
\* slot, is the earliest unless windows cross.  It says nothing of bookings:
\* nobody passes them, so what is served is the whole open grid, taken or not
\* (computeSlots).
SlotsAreTheFreeGrid ==
    AboutSchedule =>
      LET slots == ComputeSlots(question)
      IN /\ Range(slots) = FreeGrid(question)
         /\ WindowsAscend(question) =>
              \A i, j \in DOMAIN slots : i < j => Apart(slots[i], slots[j])

\* Time passing adds no slot but those of the days that come into view: the grid
\* a customer has seen is still the grid when the request comes in
\* (computeSlots).
NoSlotComesBackStep ==
    AboutSchedule /\ question' = [question EXCEPT !.now = question'.now]
    => \A slot \in Range(ComputeSlots(question')) \ Range(ComputeSlots(question)) :
         \E w \in OpenTimes(question, LastDay(question) + 1, LastDay(question')) :
            Fits(question, slot, w)

\* The same of every step, as a property of the behaviour (computeSlots).
NoSlotComesBack == [][NoSlotComesBackStep]_question

\* Every provider that comes to the customer and matches has one card, whichever
\* ranker answered or did not, a search without cards says which of the two is
\* the reason, and no provider is shown below one that is worse in everything
\* (composeDiscovery, scoreCandidate).
CardsFollowMerit ==
    AboutSearch =>
      LET cards == Cards(question)
      IN /\ Range(cards) =
              {p \in question.rows : Reaches(p) /\ Matches(p, question.filters)}
         /\ StateOf(question) = "ok" <=> cards # << >>
         /\ StateOf(question) = "out_of_area" <=> \A p \in question.rows : ~Reaches(p)
         /\ Len(cards) = Cardinality(Range(cards))
         /\ question.ranker = "deterministic" =>
              \A i, j \in DOMAIN cards :
                i < j /\ NoWorse(cards[j], cards[i]) => Score(cards[i]) = Score(cards[j])
=============================================================================
