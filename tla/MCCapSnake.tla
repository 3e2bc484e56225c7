----------------------------- MODULE MCCapSnake -----------------------------
(***************************************************************************)
(* Checks ensure_cap_snake_name and the override lookup against the       *)
(* reference of CapSnake over every non-empty name up to MaxNameLen       *)
(* characters.  The only state of the conversion that matters is its      *)
(* input, so a behaviour picks one name and keeps it.                     *)
(***************************************************************************)
EXTENDS CapSnake

CONSTANT MaxNameLen   \* longest name enumerated

\* The abstract alphabet: two ordinary letters of each case besides the
\* letters of the ID marker, a digit and the underscore.
MCUpperChars == {"A", "B", "I", "D"}
MCLowerChars == {"a", "b", "i", "d"}
MCOtherChars == {"1"}
MCUpperOf ==
  [c \in MCUpperChars \cup MCLowerChars \cup MCOtherChars \cup {"_"} |->
     CASE c = "a" -> "A" [] c = "b" -> "B" [] c = "i" -> "I" [] c = "d" -> "D"
       [] OTHER -> c]
\* UtilPrng is spelled <<"A","a","B","b">>; its canonical form is replaced
\* by PRNG, spelled <<"B","B">> (ENUM_OVERRIDE = {"UTIL_PRNG": "PRNG"}).
MCOverride == [n \in {<<"A", "A", "_", "B", "B">>} |-> <<"B", "B">>]

Names == BoundedSeq(Chars, MaxNameLen) \ {<<>>}

VARIABLE name

Init == name \in Names
Next == UNCHANGED name
Spec == Init /\ [][Next]_name

(* The code's conversion (character loop with the greedy ID marker, then *)
(* the override) yields exactly the name the specification's rule gives, *)
(* for every name: ensure_cap_snake_name implements section 4.2.          *)
CapSnakeMatchesSpec == FinalName(name) = SpecFinalName(name)
=============================================================================
