--------------------------- MODULE MCContextIntake ---------------------------
(* Small instances of ContextIntake: yesterday is 1, the session is 2. *)
EXTENDS ContextIntake

TwoDays == {1, 2}

R(symbol, date, gamma) == [symbol |-> symbol, date |-> date, gamma |-> gamma]

File(name, suffix, cols, rows) ==
  [name |-> name, suffix |-> suffix, cols |-> cols, rows |-> rows]

Full == {"symbol", "gamma", "volume", "levels", "vol"}

Squeeze == File("squeeze", "xlsx", Full, <<R("S", 1, 7), R(None, 1, 9)>>)
SqueezeAgain == File("squeeze", "xlsx", {"symbol", "gamma", "volume"}, <<R("S", 1, 5), R("T", 1, None)>>)
Vrp == File("vrp", "xlsx", Full \ {"gamma"}, <<R("S", 1, None), R("T", 1, None)>>)
ReverseVrp == File("reverse_vrp", "xlsx", Full, <<R("T", 1, 3)>>)
Odd == File("other", "xlsx", {"symbol", "vol"}, <<R("S", 2, 2)>>)
Spx == File("spx", "xlsx", {"market"}, <<R(None, 1, 4)>>)
SpxAgain == File("spx", "xlsx", {"market"}, <<R(None, 1, 4), R(None, Blank, 6)>>)
Note == File("morning_regime", "xls", {}, <<>>)
Weekly == File("weekly", "csv", {"profile", "symbol"}, <<R("S", 2, 1), R("T", Blank, None)>>)
Unmatched == File("squeeze", "xlsx", {"levels"}, <<>>)

SomePackets == {<<"a", "b", "a">>, <<"b", "a", "c">>}

SomeStagings ==
  {[p \in {"a", "b", "c"} |-> CASE p = "a" -> Squeeze [] p = "b" -> Vrp [] p = "c" -> Spx],
   [p \in {"a", "b", "c"} |-> CASE p = "a" -> ReverseVrp [] p = "b" -> Odd [] p = "c" -> Note],
   [p \in {"a", "b", "c"} |-> CASE p = "a" -> Weekly [] p = "b" -> None [] p = "c" -> Spx]}

SomeExports == {SqueezeAgain, Squeeze, Unmatched, SpxAgain}

SpyBook(cols, rows) == File("spy", "xlsx", cols, rows)
History(day, rows) == [day |-> day, file |-> File("SPY_history", "csv", {"market"}, rows)]

NoFolder == [scanners |-> <<>>, spy |-> None]

Tree(weekly, history, old, new) ==
  [weekly |-> weekly, history |-> history, sessions |-> <<old, new>>]

SomeTrees ==
  {Tree(<<Weekly>>, <<History(Blank, <<R(None, 2, 8), R(None, Blank, 8)>>)>>,
        NoFolder, [scanners |-> <<Squeeze, Unmatched>>, spy |-> SpyBook({"market"}, <<R(None, 2, 4)>>)]),
   Tree(<<Weekly>>, <<>>, NoFolder,
        [scanners |-> <<Vrp>>, spy |-> SpyBook({"market"}, <<R(None, Blank, 4), R(None, 1, 3)>>)]),
   Tree(<<>>, <<History(1, <<R(None, Blank, 5)>>), History(2, <<R(None, Blank, 1), R(None, 2, 2)>>)>>,
        [scanners |-> <<Squeeze>>, spy |-> None], NoFolder),
   Tree(<<>>, <<>>, NoFolder, [scanners |-> <<ReverseVrp>>, spy |-> SpyBook({"market", "cut"}, <<>>)]),
   Tree(<<>>, <<>>, NoFolder, [scanners |-> <<>>, spy |-> SpyBook({}, <<>>)])}

SomeSamples ==
  {None, [profiled |-> FALSE, rows |-> WeeklyRows(Weekly, "processed", 1)]}
=============================================================================
