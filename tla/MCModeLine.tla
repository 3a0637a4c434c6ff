--------------------------- MODULE MCModeLine ---------------------------
(* Small instances of ModeLine for TLC. *)
EXTENDS ModeLine, TLC

\* The wide mask matches the narrow one.
Overlap == {<<"wide", "narrow">>}

Line(letters, length) == [letters |-> letters, length |-> length]

\* Every line of three letters, so that each letter meets every other one; and longer
\* lines of letters that work on the same thing, beyond mode_limit for op.
MCLines ==
    <<Line(Special \cup Flags, 3), Line({"o", "h", "v"}, 4), Line({"o"}, 7),
      Line({"b"}, 4), Line({"k", "l"}, 4)>>
========================================================================
