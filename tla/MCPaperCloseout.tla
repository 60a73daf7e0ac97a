-------------------------- MODULE MCPaperCloseout --------------------------
(* Small instances of PaperCloseout. *)
EXTENDS PaperCloseout, TLC

CONSTANTS x, y, p1, p2, l, s

\* Two payloads with the same legs, such as one spread approved on two days.
Long == [z \in Payload |-> l]
Short == [z \in Payload |-> s]
One == [z \in Payload |-> 1]

AllSound == {[z \in Payload |-> "sound"]}

\* Besides, a payload of a structure the close command skips, before or after
\* one whose request does not build.
MixedShapes ==
  AllSound \cup {z :> "unsupported" @@ w :> "unbuildable" :
                   <<z, w>> \in {<<x, y>>, <<y, x>>}}

\* A negative --limit takes every row.
NoLimit == {-1}

CloserSymmetry == Permutations({p1, p2})

PayloadSymmetry == Permutations({x, y})

=============================================================================
