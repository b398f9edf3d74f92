--------------------------- MODULE SampleHistory ---------------------------
(* HistoryBuffer: the ring buffer behind every graph.  A value that is not   *)
(* finite is NotFinite.                                                      *)
EXTENDS Naturals, Sequences

CONSTANT NotFinite

Push(values, capacity, value) ==
  IF capacity = 0 \/ value = NotFinite THEN values
  ELSE IF Len(values) = capacity THEN Append(Tail(values), value)
  ELSE Append(values, value)

=============================================================================
