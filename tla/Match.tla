------------------------------- MODULE Match -------------------------------
(***************************************************************************)
(* match() and collapse() of src/match.c.  The loop of match is a state    *)
(* machine, one step a turn; Matches says what a mask means.  Positions    *)
(* count from 1; one past the end is the terminating zero.                 *)
(***************************************************************************)
EXTENDS Naturals, SequencesExt

CONSTANTS
    Chars,              \* the characters of a string
    Masks, Names,       \* the arguments
    Lower,              \* ToLowerTab, for the letters that are not lower case
    MATCH_MAX_CALLS

VARIABLES
    mask, name,         \* the arguments
    at,                 \* the local variables
    calls,
    result,             \* what match returned: "yes", "no", or "none" as yet
    back                \* the places of the mask that the turn has scanned back over

vars == <<mask, name, at, calls, result, back>>

Zero == "NUL"
Escape == "\\"

ASSUME MatchAssumption ==
    /\ Masks \subseteq Seq(Chars) /\ Names \subseteq Seq(Chars)
    /\ Zero \notin Chars
    /\ MATCH_MAX_CALLS \in Nat

At(s, i) == IF i \in DOMAIN s THEN s[i] ELSE Zero

ToLower(c) == IF c \in DOMAIN Lower THEN Lower[c] ELSE c

\* m and n are where the comparison is, ma and na where it starts again, after the last
\* * of the mask.  quote is 2 at a character that a backslash precedes.
Locals == [m : Nat, n : Nat, ma : Nat, na : Nat, wild : BOOLEAN, quote : 0..2]

Init ==
    /\ mask \in Masks /\ name \in Names
    /\ at = [m |-> 1, n |-> 1, ma |-> 1, na |-> 1, wild |-> FALSE, quote |-> 0]
    /\ calls = 0 /\ result = "none" /\ back = {}

---------------------------------------------------------------------------
(* One turn of the loop: the parts of its body. *)

CountQuote(s) == [s EXCEPT !.quote = IF @ = 0 THEN 0 ELSE (@ + 1) % 3]

\* The first position from i on that holds no *.
PastStars(i) ==
    CHOOSE k \in i..Len(mask) + 1 : At(mask, k) # "*" /\ \A l \in i..k - 1 : mask[l] = "*"

AtStar(s) == s.quote = 0 /\ At(mask, s.m) = "*"

\* A * makes a place to start again from; a backslash after it is taken at once.
TakeStar(s) ==
    LET k == PastStars(s.m)
        escaped == At(mask, k) = Escape
        start == IF escaped THEN k + 1 ELSE k
    IN  [m |-> start, n |-> s.n, ma |-> start, na |-> s.n, wild |-> TRUE,
         quote |-> IF escaped THEN 2 ELSE 0]

Restart(s) == [s EXCEPT !.m = s.ma, !.n = s.na + 1, !.na = s.na + 1]

\* Mutation: the scan back does not stop at the start of the mask.
ScannedBack_NoStop(i) == {k \in 0..i - 1 : \A l \in k + 1..i - 1 : mask[l] = "?"}

\* The places that the scan back from i reads: it goes on behind a ?, but not from the
\* first place, and reads the place where it stops.  From the first place it has already
\* gone back to the one before the mask when it looks.
ScannedBack(i) == {k \in 0..i - 1 : \A l \in k + 1..i - 1 : l > 1 /\ mask[l] = "?"}

\* The mask ends in a *, and perhaps some ? after it, and is more than that.
EndsInStar(i) == \E k \in ScannedBack(i) : k > 1 /\ mask[k] = "*"

ScansBack(s) == At(mask, s.m) = Zero /\ At(name, s.n) # Zero /\ s.quote = 0

AtEnd(s) == At(mask, s.m) = Zero \/ At(name, s.n) = Zero

\* Mutation: a mask that ends too early is not tried further on.
Verdict_NoRetry(s) ==
    IF At(mask, s.m) = Zero
    THEN IF At(name, s.n) = Zero \/ (s.quote = 0 /\ EndsInStar(s.m)) THEN "yes" ELSE "no"
    ELSE IF s.quote = 0 /\ At(mask, PastStars(s.m)) = Zero THEN "yes" ELSE "no"

\* At the end of the mask or of the name.
Verdict(s) ==
    IF At(mask, s.m) = Zero
    THEN CASE At(name, s.n) = Zero -> "yes"
           [] ScansBack(s) /\ EndsInStar(s.m) -> "yes"
           [] ScansBack(s) /\ ~EndsInStar(s.m) /\ s.wild -> "none"
           [] OTHER -> "no"
    ELSE IF s.quote = 0 /\ At(mask, PastStars(s.m)) = Zero THEN "yes" ELSE "no"

SameHere(s) ==
    \/ ToLower(At(mask, s.m)) = ToLower(At(name, s.n))
    \/ s.quote = 0 /\ At(mask, s.m) = "?"

Advance(str, i) == IF At(str, i) = Zero THEN i ELSE i + 1

Forward(s) == [s EXCEPT !.m = Advance(mask, @), !.n = Advance(name, @)]

Go(s) == at' = s /\ result' = "none"
Return(r, s) == at' = s /\ result' = r

Compare(s) ==
    IF SameHere(s) THEN Go(Forward(s))
    ELSE IF s.wild THEN Go(Restart(s)) ELSE Return("no", s)

\* From a * on, or from a character that is none.
Rest(s) ==
    /\ back' = IF ScansBack(s) THEN ScannedBack(s.m) ELSE {}
    /\ IF ~AtEnd(s) THEN Compare(s)
       ELSE IF Verdict(s) = "none" THEN Compare(Restart(s)) ELSE Return(Verdict(s), s)

BadMask(s) == s.quote = 2 /\ At(mask, s.m) = Zero

Body(s) ==
    IF At(mask, s.m) = Escape /\ s.quote = 0
    THEN Go([s EXCEPT !.m = @ + 1, !.quote = 1]) /\ back' = {}
    ELSE IF ~AtStar(s) THEN Rest(s)
    ELSE IF ~BadMask(TakeStar(s)) THEN Rest(TakeStar(s))
    ELSE Return("no", TakeStar(s)) /\ back' = {}

Turn ==
    /\ result = "none" /\ calls < MATCH_MAX_CALLS
    /\ calls' = calls + 1
    /\ Body(CountQuote(at))
    /\ UNCHANGED <<mask, name>>

GiveUp ==
    /\ result = "none" /\ calls = MATCH_MAX_CALLS
    /\ result' = "no"
    /\ UNCHANGED <<mask, name, at, calls, back>>

Next == Turn \/ GiveUp

Spec == Init /\ [][Next]_vars

---------------------------------------------------------------------------
(* collapse: f remembers a * just written and a backslash. *)

\* Mutation: what is not a * does not end a row of them.
Collapsed_KeepsStar(s, c) ==
    IF ~s.escaped /\ c = "*" THEN
        [out |-> IF s.star THEN s.out ELSE Append(s.out, c), star |-> TRUE, escaped |-> FALSE]
    ELSE IF ~s.escaped /\ c = Escape THEN [s EXCEPT !.out = Append(@, c), !.escaped = TRUE]
    ELSE [s EXCEPT !.out = Append(@, c), !.escaped = FALSE]

Collapsed(s, c) ==
    IF ~s.escaped /\ c = "*" THEN
        [out |-> IF s.star THEN s.out ELSE Append(s.out, c), star |-> TRUE, escaped |-> FALSE]
    ELSE IF ~s.escaped /\ c = Escape THEN [s EXCEPT !.out = Append(@, c), !.escaped = TRUE]
    ELSE [out |-> Append(s.out, c), star |-> FALSE, escaped |-> FALSE]

collapse(pattern) ==
    FoldLeft(Collapsed, [out |-> <<>>, star |-> FALSE, escaped |-> FALSE], pattern).out

---------------------------------------------------------------------------
(* Properties. *)

\* What a mask means: * stands for any characters, ? for one, a backslash takes the
\* next character as it is, and letters match in either case.
Matches(p, s) ==
    LET From[i \in 1..Len(p) + 2, j \in 1..Len(s) + 1] ==
            CASE i > Len(p) -> j = Len(s) + 1 /\ i = Len(p) + 1
              [] i <= Len(p) /\ p[i] = "*" ->
                    From[i + 1, j] \/ (j <= Len(s) /\ From[i, j + 1])
              [] i <= Len(p) /\ p[i] = Escape ->
                    /\ j <= Len(s) /\ ToLower(At(p, i + 1)) = ToLower(s[j])
                    /\ From[i + 2, j + 1]
              [] OTHER ->
                    /\ j <= Len(s) /\ (p[i] = "?" \/ ToLower(p[i]) = ToLower(s[j]))
                    /\ From[i + 1, j + 1]
    IN  From[1, 1]

\* No turn goes past a terminating zero, although the restarts move the name on twice in
\* one, and the scan back stays in the mask, with one exception, which the code makes:
\* an empty mask and a name that is not, where it reads the byte before the mask.
InBounds ==
    /\ at \in Locals
    /\ {at.m, at.ma} \subseteq 1..Len(mask) + 1
    /\ {at.n, at.na} \subseteq 1..Len(name) + 1
    /\ back \subseteq 0..Len(mask)
    /\ 0 \in back => mask = <<>> /\ name # <<>>

Answered == result # "none"

\* The iterative match, with its single place to go back to, finds what a mask without
\* a backslash means, however many * it has; only when its turns are used up may it
\* miss a match.
MatchAgrees ==
    Answered /\ Escape \notin ToSet(mask) =>
        /\ result = "yes" => Matches(mask, name)
        /\ result = "no" /\ calls < MATCH_MAX_CALLS => ~Matches(mask, name)

\* collapse leaves no row of * and does not change what the mask matches.
CollapseKeeps ==
    calls = 0 =>
        /\ Matches(collapse(mask), name) <=> Matches(mask, name)
        /\ Escape \notin ToSet(mask) =>
             \A i \in 1..Len(collapse(mask)) - 1 : <<"*", "*">> # SubSeq(collapse(mask), i, i + 1)
============================================================================
