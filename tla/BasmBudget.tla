----------------------------- MODULE BasmBudget -----------------------------
(***************************************************************************)
(* The size limits of BASM responses: the estimate the service makes       *)
(* before it reads (checkResponseSize), the budget the handler adds up     *)
(* before it encodes (responseBudget), and the height range of a request.  *)
(* Go's integers wrap: a limit and a height have Half values, a word has   *)
(* twice as many bits (uint32 and uint64 in the code).                     *)
(***************************************************************************)
EXTENDS Integers

CONSTANTS Half,      \* 2 ^ 32: how many values a limit or a height has
          Values,    \* sizes and lengths that are added
          Counts,    \* repetitions
          Topics,    \* topic lengths in bytes
          MaxSteps   \* bound: additions to one budget

Word == Half * Half
Wrap(x) == x % Word

BudgetAssumption ==
    /\ Half \in Nat /\ Half > 1 /\ MaxSteps \in Nat
    /\ Values \subseteq 0..(Word - 1)
    /\ Counts \subseteq 0..(Word - 1)
    /\ Topics \subseteq 1..(Half - 1)

VARIABLES limit, size, ok,   \* responseBudget
          exact,             \* the sum of what was added, without a bound
          steps,
          answer             \* the last question asked of the other checks

budgetVars == <<limit, size, ok, exact, steps, answer>>

----------------------------------------------------------------------------
(* responseBudget                                                          *)

Budget == [size |-> size, ok |-> ok]

add(b, value) ==
    IF ~b.ok THEN b
    ELSE IF value > Wrap(limit - b.size) THEN [b EXCEPT !.ok = FALSE]
    ELSE [b EXCEPT !.size = Wrap(b.size + value)]

AddProduct(b, count, each) == add(b, Wrap(count * each))

addRepeated(b, count, each) ==
    IF ~b.ok THEN b
    ELSE IF count > 0 /\ each > Wrap(limit - b.size) \div count THEN [b EXCEPT !.ok = FALSE]
    ELSE add(b, Wrap(count * each))

addString(b, length) ==
    IF \/ ~b.ok
       \/ Wrap(limit - b.size) < 2
       \/ length > Wrap(limit - b.size - 2) \div 6
    THEN [b EXCEPT !.ok = FALSE]
    ELSE add(b, Wrap(length * 6 + 2))

addLiteralString(b, length) == add(b, Wrap(length + 2))

\* checkResponseSize of the service.
checkResponseSize(base, perItem, count) ==
    ~(base > limit \/ (perItem # 0 /\ count > Wrap(limit - base) \div perItem))

\* ValidateRange, with the count it returns: -1 stands for an error.
CountRange(from, to, max) ==
    IF max = 0 \/ from > to THEN -1
    ELSE LET count == Wrap(to - from + 1) IN IF count > max THEN -1 ELSE count

----------------------------------------------------------------------------
(* What the two sides reserve for a response about a topic of t bytes with *)
(* n items; p is the length of the encoded path of a proof.                *)

ServiceEstimate(kind, t, n, p) ==
    IF kind = "tip" THEN 400 + t * 6
    ELSE IF kind = "range" THEN 64 + t * 6 + n * (400 + t * 6)
    ELSE IF kind = "list" THEN 192 + t * 6 + n * 128
    ELSE p * 2 + n * 67 + t * 6 + 256

HandlerEstimate(kind, t, n, p) ==
    IF kind = "tip" THEN 96 + (t * 6 + 2) + 66 * 2 + 86
    ELSE IF kind = "range" THEN 48 + (t * 6 + 2) + n * (132 + (t * 6 + 2) + 66 * 3)
    ELSE IF kind = "list" THEN 112 + (t * 6 + 2) + 66 + n * 128
    ELSE 112 + (t * 6 + 2) + n * 67 + (p * 2 + 2)

----------------------------------------------------------------------------
NoAnswer == [what |-> "none"]

BudgetInit ==
    /\ limit \in 0..(Half - 1)
    /\ size = 0 /\ ok = TRUE /\ exact = 0 /\ steps = 0
    /\ answer = NoAnswer

Spend(b, amount) ==
    /\ steps < MaxSteps /\ answer = NoAnswer
    /\ size' = b.size /\ ok' = b.ok
    /\ exact' = exact + amount
    /\ steps' = steps + 1
    /\ UNCHANGED <<limit, answer>>

Add(v)            == Spend(add(Budget, v), v)
AddRepeated(c, v) == Spend(addRepeated(Budget, c, v), c * v)
AddString(l)      == Spend(addString(Budget, l), l * 6 + 2)
AddLiteral(l)     == l + 2 < Word /\ Spend(addLiteralString(Budget, l), l + 2)

Ask(a) == /\ answer = NoAnswer /\ steps = 0
          /\ answer' = a
          /\ UNCHANGED <<limit, size, ok, exact, steps>>

AskSize(base, perItem, count) ==
    Ask([what |-> "size", yes |-> checkResponseSize(base, perItem, count),
         exact |-> base + perItem * count])

AskRange(from, to) ==
    Ask([what |-> "range", count |-> CountRange(from, to, limit), from |-> from, to |-> to])

AskResponse(kind, t, n, p) ==
    Ask([what |-> "response", service |-> ServiceEstimate(kind, t, n, p),
         handler |-> HandlerEstimate(kind, t, n, p)])

BudgetNext ==
    \/ \E v \in Values : Add(v) \/ AddString(v) \/ AddLiteral(v)
    \/ \E v \in Values, c \in Counts : AddRepeated(c, v)
    \/ \E b \in Values, v \in Values, c \in Counts : AskSize(b, v, c)
    \/ \E from, to \in 0..(Half - 1) : AskRange(from, to)
    \/ \E kind \in {"tip", "range", "list", "proof"}, t \in Topics, n \in Counts, p \in Values :
          AskResponse(kind, t, n, p)

BudgetSpec == BudgetInit /\ [][BudgetNext]_budgetVars

----------------------------------------------------------------------------
\* The budget and the estimates are words, and a budget that is not exceeded
\* is within its limit.
BudgetTypeOK ==
    /\ limit \in 0..(Half - 1)
    /\ size \in 0..(Word - 1)
    /\ ok => size <= limit
    /\ steps \in 0..MaxSteps

\* The budget is exceeded exactly when the sum of everything added exceeds
\* the limit: no product or sum wraps around on the way (responseBudget).
BudgetIsExact == ok <=> exact <= limit

\* The service's own estimate is accepted exactly when it fits
\* (checkResponseSize, "without overflowing multiplication").
EstimateIsExact ==
    answer.what = "size" => (answer.yes <=> answer.exact <= limit)

\* An accepted range has as many heights as it spans, at least one, and not
\* more than the limit, over the whole span of heights (ValidateRange).
RangeIsExact ==
    answer.what = "range" =>
        IF answer.from <= answer.to /\ answer.to - answer.from + 1 <= limit
        THEN answer.count = answer.to - answer.from + 1
        ELSE answer.count = -1

\* A tip, range, list or proof that the service was willing to read for a
\* limit is never refused by the handler for the same limit.
HandlerReservesNoMore ==
    answer.what = "response" => answer.handler <= answer.service

\* responseBudget is exceeded exactly when the sum of everything added exceeds the
\* limit, checkResponseSize accepts exactly the sizes that fit and ValidateRange
\* counts the heights of a range exactly: no product or sum wraps on the way.  A
\* tip, range, list or proof that the service was willing to read for a limit is
\* not refused by the handler's estimate for the same limit.
LimitsAreExact ==
    BudgetTypeOK /\ BudgetIsExact /\ EstimateIsExact /\ RangeIsExact /\ HandlerReservesNoMore

=============================================================================
