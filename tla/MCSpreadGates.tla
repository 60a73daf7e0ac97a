--------------------------- MODULE MCSpreadGates ---------------------------
(* Small instances of SpreadGates. *)
EXTENDS SpreadGates

Q(type, strike, bid, ask, delta, pmp) ==
  [leg |-> [type |-> type, strike |-> strike], bid |-> bid, ask |-> ask,
   delta |-> delta, pmp |-> pmp]

\* A bull call of 1.50 on 5.00, whose expected value at 30% is exactly 0, with
\* deltas and vendor numbers in and at the edge of a bucket, or missing.
Calls(delta, pmp) ==
  {Q("call", 42000, 380, 400, 55, None), Q("call", 42500, 250, 260, delta, pmp)}

\* A bull put credit of 1.60 on 5.00, and the bear put the other way.
Puts(delta) ==
  {Q("put", 42000, 90, 100, -20, None), Q("put", 42500, 260, 280, delta, None)}

\* A bull put credit of 3.40 on 10.00: good odds, and a loss above every cap.
WidePuts ==
  {Q("put", 42000, 90, 100, -20, None), Q("put", 43000, 440, 460, -30, None)}

\* A debit as wide as the strikes, with a vendor's number outside the table, and
\* a quote too wide to use.
Crossed ==
  {Q("call", 42000, 545, 550, 55, None), Q("call", 42500, 50, 52, 35, 95),
   Q("call", 43000, 20, 40, 30, None)}

SomeBoards ==
  {Calls(30, None), Calls(None, 34), Calls(None, None),
   Puts(-30), WidePuts, Crossed}

=============================================================================
