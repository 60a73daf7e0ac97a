-------------------------- MODULE MCPaperTransport --------------------------
(* Small instances of PaperTransport. *)
EXTENDS PaperTransport, TLC

CONSTANTS a, b, t1, t2, p1, p2, r1, r2

R(x, t, ready, shape) ==
  [payload |-> x, terms |-> t, ready |-> ready, shape |-> shape]

\* One payload that the builder may price anew, alone or twice in the file.
RaceFiles == {<<R(a, t, TRUE, "sound")>> : t \in {t1, t2}}
             \cup {<<R(a, t1, TRUE, "sound"), R(a, t2, TRUE, "sound")>>}

\* No row, a row that is not ready, and a sendable row behind one of each shape.
BatchFiles ==
  {<<>>, <<R(b, t1, FALSE, "blocked"), R(a, t1, TRUE, "sound")>>}
  \cup {<<R(b, t1, TRUE, s), R(a, t1, TRUE, "sound")>> : s \in Shapes}

\* No row, a WATCH row, or a sendable payload twice.
EnvFiles == {<<>>, <<R(a, t1, TRUE, "watch")>>,
             <<R(a, t1, TRUE, "sound"), R(a, t1, TRUE, "sound")>>}

RunSymmetry == Permutations({p1, p2})

=============================================================================
