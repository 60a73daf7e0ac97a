---------------------------- MODULE MCRunAdvisory ----------------------------
(* Small instances of RunAdvisory. *)
EXTENDS RunAdvisory

Cand(symbol, context, gamma) ==
  [symbol |-> symbol, profile |-> "squeeze", context |-> context,
   gamma |-> gamma, ivRank |-> 20, vrp |-> -2, price |-> 10000,
   callWall |-> 10500, putWall |-> 9500, skew |-> 0]

Known == Cand("S", "CONTEXT_PASS", 160)
Blind == Cand("S", "CONTEXT_INCOMPLETE", None)
Other == Cand("T", "CONTEXT_PASS", 120)

SomeBoards == {<<>>, <<Blind>>, <<Known, Other>>, <<Blind, Other>>}

P(id, symbol, debit, pmp) ==
  [id |-> id, symbol |-> symbol, structure |-> "BULL_CALL_SPREAD", short |-> 10500,
   width |-> 500, debit |-> debit, pmp |-> pmp, profit |-> 500 - debit,
   loss |-> debit, gate |-> pmp # None]

\* A primary, one with an alternate, a watch expression, one that is not viable.
SomeChains ==
  {<<P(1, "S", 150, 45)>>, <<P(1, "S", 150, 45), P(2, "S", 160, 46), P(3, "T", 245, 44)>>,
   <<P(4, "S", 150, None), P(3, "T", 150, 45)>>}

Note(kind, broken, complete, old, sheets) ==
  [kind |-> kind, broken |-> broken, complete |-> complete, old |-> old,
   sheets |-> sheets]

Leg(symbol, exp, strike, type, family) ==
  [symbol |-> symbol, exp |-> exp, strike |-> strike, type |-> type, family |-> family]

\* A call spread with a trade on another day, one that is backed, a row without a
\* strike, and a roll that a trade of a put spread backs.
Sheets ==
  [flow |-> <<Leg("S", 1, 145, "C", "call spread"), Leg("S", 1, 155, "C", "call spread"),
              Leg("T", 1, 95, "P", "put spread"), Leg("T", 1, 90, "P", "put spread"),
              Leg("T", 1, None, "P", "put spread"), Leg("S", 2, 145, "C", "call spread"),
              Leg("S", 1, 90, "P", "put roll"), Leg("S", 1, 85, "P", "put roll")>>,
   unusual |-> <<Leg("S", 2, 155, "C", "call spread"), Leg("T", 1, 90, "P", None),
                 Leg("S", 1, 85, "P", "put spread")>>]

Fresh == Note("json", FALSE, TRUE, FALSE, None)
Stale == Note("json", FALSE, TRUE, TRUE, None)
Short == Note("json", FALSE, FALSE, FALSE, None)
Empty == Note("csv", TRUE, FALSE, FALSE, None)
Prose == Note("book", FALSE, TRUE, FALSE, Sheets)
Cut == Note("book", TRUE, FALSE, FALSE, None)

SomeNotes ==
  {<<>>, <<Prose, Short>>, <<Short>>, <<Short, Fresh>>, <<Stale, Fresh>>, <<Cut, Fresh>>,
   <<Empty, Fresh>>}

SomeOverrides == {[status |-> TRUE, state |-> FALSE], [status |-> FALSE, state |-> TRUE]}

Parse(review, unsure, has) == [review |-> review, unsure |-> unsure, has |-> has]

SomePrivate ==
  [s \in Sources |->
     IF s = "macro_note"
     THEN {Parse(FALSE, FALSE, {"theme", "summary", "call_wall", "put_wall", "zero_gamma"}),
           Parse(FALSE, TRUE, {"theme", "trigger", "move"}), Parse(TRUE, TRUE, {})}
     ELSE {Parse(FALSE, TRUE, {"bullets", "symbols"})}]

Spy(date, price, gamma, hedge, put) ==
  [date |-> date, price |-> price, gamma |-> gamma, hedge |-> hedge, put |-> put,
   call |-> 70000]

\* A row without a date is the last one.
SomeSpy ==
  {<<>>, <<Spy(2, 60000, 120, 61000, 58000), Spy(1, 60000, 90, None, 59000)>>,
   <<Spy(None, 60000, 90, None, 58000), Spy(2, 60000, 120, None, 59000)>>,
   <<Spy(1, 60000, 90, None, 59000), Spy(2, None, 130, None, 58000)>>}
=============================================================================
