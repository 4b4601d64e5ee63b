------------------------------- MODULE Cron -------------------------------
(* The recurrence arithmetic of schedule/cron.rs and cron_field.rs: what a     *)
(* five-field expression means, its next and its previous instant, and the     *)
(* shortest interval the cadence guard compares with the deployment's minimum. *)
(* An instant is a number of half minutes (a clock reading need not fall on a  *)
(* minute); a day is a number of days since 1 March of the year 2000, and the  *)
(* calendar is the proleptic Gregorian one of chrono.                          *)
(*                                                                             *)
(* An item of a field is what remains of its text after the decimal numbers    *)
(* are read: a star or a range, and the step.                                  *)
EXTENDS Integers, Sequences, FiniteSets, FiniteSetsExt

CONSTANTS
  Exprs,        \* expressions: records of sequences of items
  Starts,       \* days on which a walk begins
  Steps         \* firings walked

VARIABLES
  text,         \* the expression as written
  expr,         \* the expression as parsed
  clock,        \* an instant, the last firing once fired > 0
  fired

vars == <<text, expr, clock, fired>>

MaxSearchDays == 366 * 8 + 1
Sample == 32
HalfDay == 2 * 24 * 60
Reference == 306 * HalfDay          \* 2001-01-01, a Monday
None == -1

----------------------------------------------------------------------------
(* The calendar                                                             *)

Civil(day) ==
  LET doe == day % 146097
      yoe == (doe - doe \div 1460 + doe \div 36524 - doe \div 146096) \div 365
      doy == doe - (365 * yoe + yoe \div 4 - yoe \div 100)
      mp == (5 * doy + 2) \div 153
  IN [d |-> doy - (153 * mp + 2) \div 5 + 1,
      m |-> IF mp < 10 THEN mp + 3 ELSE mp - 9,
      dow |-> (day + 3) % 7]

----------------------------------------------------------------------------
(* Fields                                                                   *)

Star == [lo |-> 0, hi |-> 0, star |-> TRUE, step |-> 1]
Span(a, b) == [lo |-> a, hi |-> b, star |-> FALSE, step |-> 1]
Every(item, n) == [item EXCEPT !.step = n]

Domain == [minute |-> 0..59, hour |-> 0..23, dom |-> 1..31, month |-> 1..12, dow |-> 0..6]

\* An item is refused when a bound is outside the domain, the range descends, or
\* the step is zero or longer than the domain.
ItemOK(item, D) ==
  /\ item.step \in 1..Cardinality(D)
  /\ item.star \/ (item.lo \in D /\ item.hi \in D /\ item.lo <= item.hi)

ItemValues(item, D) ==
  LET lo == IF item.star THEN Min(D) ELSE item.lo
      hi == IF item.star THEN Max(D) ELSE item.hi
  IN {v \in lo..hi : (v - lo) % item.step = 0}

ParseOK(x) == \A f \in DOMAIN Domain : \A i \in DOMAIN x[f] : ItemOK(x[f][i], Domain[f])

\* The value set, and whether the author narrowed the field: a step on a star
\* does, and a plain star next to other items does not undo their restriction.
ParseField(items, D) ==
  [values |-> UNION {ItemValues(items[i], D) : i \in DOMAIN items},
   restricted |-> \E i \in DOMAIN items : ~items[i].star \/ items[i].step > 1]

Parse(x) == [f \in DOMAIN Domain |-> ParseField(x[f], Domain[f])]

----------------------------------------------------------------------------
(* Matching and searching                                                   *)

DayMatches(x, day) ==
  LET c == Civil(day)
      dom == c.d \in x.dom.values
      dow == c.dow \in x.dow.values
  IN /\ c.m \in x.month.values
     /\ CASE x.dom.restricted /\ x.dow.restricted -> dom \/ dow
          [] x.dom.restricted /\ ~x.dow.restricted -> dom
          [] ~x.dom.restricted /\ x.dow.restricted -> dow
          [] OTHER -> TRUE

Times(x) == {2 * (60 * h + m) : h \in x.hour.values, m \in x.minute.values}

\* The first offset from `from` on whose day matches, looking in direction dir;
\* MaxSearchDays when there is none within the horizon.
FirstDay(x, start, dir, from) ==
  LET hit(k) == k = MaxSearchDays \/ DayMatches(x, start + dir * k)
  IN CHOOSE k \in from..MaxSearchDays : hit(k) /\ \A j \in from..k - 1 : ~hit(j)

\* The instants of the expression on a matching day.
On(x, day) == {day * HalfDay + u : u \in Times(x)}

\* What a search ends with: the chosen one of `good` on the day k days away.
Arrive(k, good, pick(_)) == IF k >= MaxSearchDays THEN None ELSE pick(good)

\* next_after: the days in order, the times of a day in order. Only the first
\* day can hold instants that are already past.
NextAfter(x, after) ==
  LET start == after \div HalfDay
      k == FirstDay(x, start, 1, IF \A t \in On(x, start) : t <= after THEN 1 ELSE 0)
  IN Arrive(k, {t \in On(x, start + k) : t > after}, Min)

\* Mutant: an instant is not its own predecessor.
PreviousStrict(x, at) ==
  LET start == at \div HalfDay
      k == FirstDay(x, start, -1, IF \A t \in On(x, start) : t >= at THEN 1 ELSE 0)
  IN Arrive(k, {t \in On(x, start - k) : t < at}, Max)

PreviousOrEqual(x, at) ==
  LET start == at \div HalfDay
      k == FirstDay(x, start, -1, IF \A t \in On(x, start) : t > at THEN 1 ELSE 0)
  IN Arrive(k, {t \in On(x, start - k) : t <= at}, Max)

\* One sampled firing: from acc.at to the next, keeping the smallest gap.
Measure(x, acc) ==
  LET next == IF acc.at = None THEN None ELSE NextAfter(x, acc.at) IN
  IF next = None THEN [acc EXCEPT !.at = None]
  ELSE [at |-> next, gap |-> IF acc.gap = None THEN next - acc.at ELSE Min({acc.gap, next - acc.at})]

\* min_interval_secs, in half minutes: the smallest of the first Sample gaps
\* after the first firing past the reference.
MinInterval(x) ==
  FoldSet(LAMBDA k, acc : Measure(x, acc),
          [at |-> NextAfter(x, Reference), gap |-> None], 1..Sample).gap

----------------------------------------------------------------------------
(* A clock that walks the instants of an expression                         *)

Init ==
  /\ text \in {x \in Exprs : ParseOK(x)}
  /\ expr = Parse(text)
  /\ clock \in {d * HalfDay + o : d \in Starts, o \in {0, 1, HalfDay - 1}}
  /\ fired = 0

Fire ==
  /\ fired < Steps /\ clock # None
  /\ clock' = NextAfter(expr, clock)
  /\ fired' = fired + 1
  /\ UNCHANGED <<text, expr>>

Next == Fire
Spec == Init /\ [][Next]_vars

----------------------------------------------------------------------------
(* Properties                                                               *)

TypeOK ==
  /\ text \in Exprs
  /\ \A f \in DOMAIN Domain : expr[f].values # {} /\ expr[f].values \subseteq Domain[f]
  /\ clock \in Nat \cup {None} /\ fired \in 0..Steps

\* The forward search and the backward search agree: the instant the dashboard
\* announces as next is the one the clock finds as the most recent slot when it
\* arrives, and until then the clock finds the slot before it. So no slot is
\* lost or fired twice between decision.rs's due_slot and next_after.
SearchesAgree ==
  clock # None =>
    LET next == NextAfter(expr, clock) IN
    next # None =>
      /\ PreviousOrEqual(expr, next) = next
      /\ PreviousOrEqual(expr, next + 1) = next
      /\ PreviousOrEqual(expr, next - 1) = PreviousOrEqual(expr, clock)

\* A day the calendar can never give: the month never has that day, and no
\* weekday is asked for.
NeverFires ==
  /\ expr.dom.restricted /\ ~expr.dow.restricted
  /\ \A m \in expr.month.values, d \in expr.dom.values :
       d > (CASE m = 2 -> 29 [] m \in {4, 6, 9, 11} -> 30 [] OTHER -> 31)

\* The horizon is exact: an expression is reported as one that can never fire
\* only when it cannot, from every start, the eight-year gap between the leap
\* days of 2096 and 2104 included.
HorizonIsEnough == clock # None => (NextAfter(expr, clock) = None <=> NeverFires)

\* The standard rule for days, stated on its own from the text: a day fires in a
\* listed month if one of the restricted day fields has it, or if neither is
\* restricted. A field is unrestricted when it is written as a plain star.
DayRule ==
  LET plain(f) == \A i \in DOMAIN text[f] : text[f][i] = Star
      in(f, v) == \E i \in DOMAIN text[f] :
                    \/ text[f][i].star /\ (v - Min(Domain[f])) % text[f][i].step = 0
                    \/ /\ ~text[f][i].star /\ v \in text[f][i].lo..text[f][i].hi
                       /\ (v - text[f][i].lo) % text[f][i].step = 0
      fires(c) == /\ in("month", c.m)
                  /\ \/ plain("dom") /\ plain("dow")
                     \/ ~plain("dom") /\ in("dom", c.d)
                     \/ ~plain("dow") /\ in("dow", c.dow)
  IN clock # None =>
       \A day \in (clock \div HalfDay)..(clock \div HalfDay + 8) : DayMatches(expr, day) <=> fires(Civil(day))

\* The cadence guard is sound for a daily expression that fires no more often
\* than the sample is long: no two consecutive firings are closer than what
\* min_interval_secs reports. (Beyond that the sample can miss the tightest
\* gap, see the README.)
GuardIsSound ==
  LET daily == \A f \in {"dom", "month", "dow"} : ~expr[f].restricted IN
  daily /\ Cardinality(Times(expr)) <= Sample /\ fired > 0
    => NextAfter(expr, clock) - clock >= MinInterval(expr)

\* What holds of every expression of the instance, wherever the clock stands.
CronSafe == TypeOK /\ SearchesAgree /\ HorizonIsEnough /\ DayRule /\ GuardIsSound
=============================================================================
