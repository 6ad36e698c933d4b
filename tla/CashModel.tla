------------------------------ MODULE CashModel ------------------------------
(***************************************************************************)
(* The cash model: internal/guidance/model.go.  Validate decides which     *)
(* forecasts may be stored or approved, Calculate derives the funding      *)
(* outlook of a stored forecast up to a chosen end date.                   *)
(*                                                                         *)
(* Dates are days (ISO dates compare like them as strings), a text field   *)
(* is whether it is filled in, and amounts are two's complement integers   *)
(* from -Half to Half - 1, in which Calculate's sums would wrap around.    *)
(* The behaviour is an editor saving schedules and looking at them.        *)
(***************************************************************************)
EXTENDS Integers, SequencesExt

CONSTANTS
  Days,                \* an interval of days
  Half,                \* 2^63
  MaxAmount,           \* 100000000000000 minor units
  MaxMovements,        \* 5000
  MovementIds,         \* what can identify a movement
  SourceRefs,          \* what can identify a source record
  Candidates,          \* the movements an editor may add
  Schedules,           \* the empty schedules an editor may start from
  None                 \* an empty string, a nil pointer

Word == -Half .. Half - 1

Movement == [id        : MovementIds \cup {None},
             date      : Days,
             kind      : {"receipt", "payment", "financing", "other"},
             amount    : Word,
             certainty : {"estimated", "contracted", "committed", "conditional", "proposed"},
             growth    : BOOLEAN,
             evidence  : BOOLEAN,
             source    : SourceRefs \cup {None},
             original  : (Word \X Days) \cup {None},
             adjusted  : BOOLEAN]

Schedule == [described   : BOOLEAN,     \* names, labels, funding dates and requested amounts pass
             asOf        : Days,
             horizon     : Days,
             opening     : Word \cup {None},
             restricted  : Word,
             buffer      : Word,
             substantiated : BOOLEAN,   \* complete, opening evidence and assumptions given
             movements   : Seq(Movement)]

(* 5,002 amounts of 10^14 are less than 2^63.                              *)
ASSUME CashAssumption ==
  /\ Days \subseteq Nat /\ \A a, b \in Days : a .. b \subseteq Days
  /\ Half \in Nat /\ MaxAmount \in Nat /\ MaxMovements \in Nat
  /\ (MaxMovements + 2) * MaxAmount < Half
  /\ Candidates \subseteq Movement /\ Schedules \subseteq Schedule
  /\ None \notin MovementIds /\ None \notin SourceRefs \cup Word \cup Days \cup (Word \X Days)

VARIABLES
  schedule,            \* the forecast as last saved
  end                  \* the end of the outlook, "" (None) for the horizon

vars == <<schedule, end>>

-----------------------------------------------------------------------------
(***************************************************************************)
(* Validate.                                                               *)
(***************************************************************************)

(* What a word keeps of an integer.                                        *)
Wrap(n) == ((n + Half) % (2 * Half)) - Half

Larger(a, b) == IF a >= b THEN a ELSE b

InLimits(n) == 0 <= n /\ n <= MaxAmount

(* The most negative integer is its own negation, so it is its own largest *)
(* magnitude and out of the limits.                                        *)
OpeningInLimits(o) == o # None => InLimits(Larger(o, Wrap(-o)))

ValidCertainty(m) ==
  IF m.kind = "financing"
  THEN m.certainty \in {"committed", "conditional", "proposed"}
  ELSE m.certainty \in {"contracted", "estimated"}

ValidMovement(f, m) ==
  /\ m.id # None
  /\ m.date \in f.asOf .. f.horizon
  /\ 0 < m.amount /\ m.amount <= MaxAmount
  /\ m.kind \in {"receipt", "payment", "financing"}
  /\ ValidCertainty(m)
  /\ m.original # None /\ m.original # <<m.amount, m.date>> => m.adjusted

ApprovableUnevidenced(f) == f.opening # None /\ f.substantiated

Approvable(f) ==
  /\ f.opening # None /\ f.substantiated
  /\ \A i \in DOMAIN f.movements :
       LET m == f.movements[i]
       IN m.kind = "financing" /\ m.certainty = "committed" => m.evidence

Validate(f, approving) ==
  /\ f.described
  /\ f.asOf <= f.horizon
  /\ InLimits(f.restricted) /\ InLimits(f.buffer) /\ OpeningInLimits(f.opening)
  /\ f.opening # None => f.restricted <= Larger(f.opening, 0)
  /\ Len(f.movements) <= MaxMovements
  /\ \A i \in DOMAIN f.movements : ValidMovement(f, f.movements[i])
  /\ \A i, j \in DOMAIN f.movements : i # j =>
       /\ f.movements[i].id # f.movements[j].id
       /\ f.movements[i].source # None => f.movements[i].source # f.movements[j].source
  /\ approving => Approvable(f)

-----------------------------------------------------------------------------
(***************************************************************************)
(* Calculate.                                                              *)
(***************************************************************************)

(* An outlook ends inside the forecast.                                    *)
Clamp(f, e) ==
  LET capped == IF e = None \/ e > f.horizon THEN f.horizon ELSE e
  IN Larger(capped, f.asOf)

CountedWithoutEvidence(m) == m.kind # "financing" \/ m.certainty = "committed"

(* Financing counts only when it is committed with evidence.               *)
Counted(m) == m.kind # "financing" \/ (m.certainty = "committed" /\ m.evidence)

Signed(m) == IF m.kind = "payment" THEN -m.amount ELSE m.amount

Flow(f) == [i \in DOMAIN f.movements |-> Signed(f.movements[i])]

Amounts(f) == [i \in DOMAIN f.movements |-> f.movements[i].amount]

(* The positions of the movements an outlook up to e includes.             *)
DueBeforeEnd(f, e) == {i \in DOMAIN f.movements : f.movements[i].date < e}

Due(f, e) == {i \in DOMAIN f.movements : f.movements[i].date <= e}

DueCounted(f, e) == {i \in Due(f, e) : Counted(f.movements[i])}

(* The map "net": a sum for the as-of day, for the end, and for each day   *)
(* with a counted movement.                                                *)
Net(f, e) ==
  [d \in {f.asOf, e} \cup {f.movements[i].date : i \in DueCounted(f, e)} |->
     Wrap(SumFunctionOnSet(Flow(f), {i \in DueCounted(f, e) : f.movements[i].date = d}))]

WithPointSummedGaps(v, f, d, cash) ==
  LET gap == Larger(0, Wrap(f.buffer - cash))
  IN [v EXCEPT !.cashEnd = cash,
               !.need = @ + gap,
               !.breach = IF gap > 0 /\ @ = None THEN d ELSE @,
               !.negative = IF cash < 0 /\ @ = None THEN d ELSE @,
               !.points = Append(@, <<d, cash, gap>>)]

WithPointLastGap(v, f, d, cash) ==
  LET gap == Larger(0, Wrap(f.buffer - cash))
  IN [v EXCEPT !.cashEnd = cash,
               !.need = gap,
               !.breach = IF gap > 0 /\ @ = None THEN d ELSE @,
               !.negative = IF cash < 0 /\ @ = None THEN d ELSE @,
               !.points = Append(@, <<d, cash, gap>>)]

(* One point of the outlook: the cash after a day, and what is missing to  *)
(* the buffer.  need is the largest gap so far.                            *)
WithPoint(v, f, d, cash) ==
  LET gap == Larger(0, Wrap(f.buffer - cash))
  IN [v EXCEPT !.cashEnd = cash,
               !.need = Larger(@, gap),
               !.breach = IF gap > 0 /\ @ = None THEN d ELSE @,
               !.negative = IF cash < 0 /\ @ = None THEN d ELSE @,
               !.points = Append(@, <<d, cash, gap>>)]

Empty == [cashEnd |-> 0, need |-> 0, breach |-> None, negative |-> None, points |-> <<>>]

(* The first point is the cash at the start of the as-of day, before what  *)
(* is received or paid on it; the others follow the dates of Net in order. *)
Walk(f, e) ==
  LET walk[d \in f.asOf - 1 .. e] ==
        IF d < f.asOf
        THEN WithPoint(Empty, f, f.asOf, Wrap(f.opening - f.restricted))
        ELSE LET v == walk[d - 1]
             IN IF d \in DOMAIN Net(f, e)
                THEN WithPoint(v, f, d, Wrap(v.cashEnd + Net(f, e)[d]))
                ELSE v
  IN walk

Points(f, e) == Walk(f, e)[e]

Total(f, S) == Wrap(SumFunctionOnSet(Amounts(f), S))

Calculate(f, chosen) ==
  LET e == Clamp(f, chosen)
      Of(kind) == {i \in Due(f, e) : f.movements[i].kind = kind}
  IN [view      |-> Points(f, e),
      payments  |-> Total(f, Of("payment")),
      growth    |-> Total(f, {i \in Of("payment") : f.movements[i].growth}),
      financing |-> Total(f, Of("financing") \cap DueCounted(f, e)),
      proposed  |-> Total(f, Of("financing") \ DueCounted(f, e))]

(* Opening cash that is not given makes the outlook unknown.               *)
Known(f) == f.opening # None

-----------------------------------------------------------------------------

Init ==
  /\ schedule \in {f \in Schedules : Validate(f, FALSE)}
  /\ end \in Days \cup {None}

AddUnchecked(m) ==
  /\ Len(schedule.movements) < MaxMovements
  /\ schedule' = [schedule EXCEPT !.movements = Append(@, m)]
  /\ UNCHANGED end

(* The editor adds a movement and saves; an invalid forecast is refused.   *)
AddMovement(m) ==
  LET f == [schedule EXCEPT !.movements = Append(@, m)]
  IN /\ Validate(f, FALSE)
     /\ schedule' = f
     /\ UNCHANGED end

(* The reader looks at another horizon.                                    *)
ChooseEnd(e) == end' = e /\ UNCHANGED schedule

Next ==
  \/ \E m \in Candidates : AddMovement(m)
  \/ \E e \in Days \cup {None} : ChooseEnd(e)

Spec == Init /\ [][Next]_vars

-----------------------------------------------------------------------------
(***************************************************************************)
(* The outlook as it is defined (in exact integers), and its properties.   *)
(***************************************************************************)

(* What is stored has the shape of a forecast and passed Validate.         *)
TypeOK ==
  /\ schedule \in Schedule /\ Validate(schedule, FALSE)
  /\ end \in Days \cup {None}

Outlook == Points(schedule, Clamp(schedule, end))

Span == schedule.asOf .. Clamp(schedule, end)

StartCash == schedule.opening - schedule.restricted

(* The cash after day d, from every counted movement up to it.             *)
CashOn(d) ==
  StartCash + SumFunctionOnSet(Flow(schedule), {i \in DOMAIN schedule.movements :
                                                  /\ Counted(schedule.movements[i])
                                                  /\ schedule.movements[i].date <= d})

FirstDay(S) == IF S = {} THEN None ELSE Min(S)

(* "Funding need is the maximum cumulative liquidity shortfall" (README):  *)
(* the incremental loop over the days that have movements finds the need,  *)
(* the first breach of the buffer, the first day of negative cash and the  *)
(* final cash that the definition over every day of the span gives, and    *)
(* no sum wraps around for amounts Validate accepts.                       *)
OutlookMatchesDefinition ==
  Known(schedule) =>
    LET outlook == Outlook
        cash == [d \in Span |-> CashOn(d)]
        positions == {StartCash} \cup {cash[d] : d \in Span}
        firstBelow(level) ==
          IF StartCash < level THEN schedule.asOf ELSE FirstDay({d \in Span : cash[d] < level})
    IN /\ outlook.need = Max({0} \cup {schedule.buffer - x : x \in positions})
       /\ outlook.breach = firstBelow(schedule.buffer)
       /\ outlook.negative = firstBelow(0)
       /\ outlook.cashEnd = cash[Clamp(schedule, end)]

(* The need is exactly what is missing: with that much more opening cash   *)
(* there is no need left, and with one unit less there still is.           *)
NeedIsExact ==
  Known(schedule) =>
    LET need == Outlook.need
        NeedWith(extra) ==
          Points([schedule EXCEPT !.opening = @ + extra], Clamp(schedule, end)).need
    IN need > 0 => NeedWith(need) = 0 /\ NeedWith(need - 1) = 1

(* A forecast that may be approved counts all of its committed financing:  *)
(* what the outlook sets aside as proposed was never called committed.     *)
ApprovedCountsCommitted ==
  Validate(schedule, TRUE) =>
    Calculate(schedule, end).proposed =
      SumFunctionOnSet(Amounts(schedule),
                       {i \in DOMAIN schedule.movements :
                          /\ schedule.movements[i].kind = "financing"
                          /\ schedule.movements[i].certainty \in {"conditional", "proposed"}
                          /\ schedule.movements[i].date <= Clamp(schedule, end)})

(* Looking a day further ahead never makes the need smaller, and never     *)
(* moves the first breach to a later day or away.                          *)
LongerOutlookNeedsMore ==
  Known(schedule) =>
    LET near == Outlook
        far == Points(schedule, Clamp(schedule, Clamp(schedule, end) + 1))
    IN /\ near.need <= far.need
       /\ near.breach # None => far.breach = near.breach

Firm(m) == m.kind = "financing" => m.certainty = "committed" /\ m.evidence

Listing(order) ==
  [schedule EXCEPT !.movements = [k \in DOMAIN order |-> schedule.movements[order[k]]]]

(* Promised money changes nothing: without the financing that is not       *)
(* committed or has no evidence, every point of the outlook is the same,   *)
(* and the rest may be listed in any order.                                *)
PromisesExcluded ==
  Known(schedule) =>
    LET firm == {i \in DOMAIN schedule.movements : Firm(schedule.movements[i])}
    IN \A order \in Bijection(1 .. Cardinality(firm), firm) :
         Points(Listing(order), Clamp(schedule, end)) = Outlook
=============================================================================
