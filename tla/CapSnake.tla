------------------------------ MODULE CapSnake ------------------------------
(***************************************************************************)
(* IdentifierNormalizer of scripts/update_protobufs.py: the conversion of  *)
(* a protobuf enum value name to the CAPITAL_SNAKE_CASE name of the Java   *)
(* constant (ProtoGenerator.ensure_cap_snake_name and id_is_next), then   *)
(* the ENUM_OVERRIDE lookup that parse_enum_line applies to its result.   *)
(*                                                                         *)
(* A name is a sequence of characters drawn from an abstract alphabet     *)
(* that keeps exactly what the conversion tells apart: the case of a      *)
(* letter, the two letters I and D of the "ID" marker, the underscore,    *)
(* and characters without case (digits, the space).                       *)
(***************************************************************************)
EXTENDS Integers, Sequences, SequencesExt

CONSTANTS
  UpperChars,    \* upper-case letters; "I" and "D" among them
  LowerChars,    \* lower-case letters
  OtherChars,    \* characters without case other than "_"
  UpperOf,       \* str.upper() of one character, for every character
  ENUM_OVERRIDE  \* ProtoGenerator.ENUM_OVERRIDE: canonical name -> name

Chars == UpperChars \cup LowerChars \cup OtherChars \cup {"_"}

ASSUME /\ {"I", "D"} \subseteq UpperChars
       /\ UpperOf \in [Chars -> Chars]

(* str.upper() of a whole name. *)
Upper(s) == [k \in DOMAIN s |-> UpperOf[s[k]]]

(* str.isupper() and str.islower(): at least one cased character and no  *)
(* character of the other case.                                           *)
HasCase(s, C) == \E k \in DOMAIN s : s[k] \in C
IsUpper(s) == HasCase(s, UpperChars) /\ ~HasCase(s, LowerChars)
IsLower(s) == HasCase(s, LowerChars) /\ ~HasCase(s, UpperChars)

(* id_is_next: "ID" starts at the 0-based offset i of name. *)
IdIsNext(name, i) ==
  i + 1 < Len(name) /\ name[i + 1] = "I" /\ name[i + 2] = "D"

(* A plausible slip in the loop below: the ID marker is consumed as one  *)
(* character, so the D is visited again.                                  *)
RECURSIVE CamelToSnakeIdOneStep(_, _, _)
CamelToSnakeIdOneStep(name, i, result) ==
  IF i >= Len(name) THEN result
  ELSE IF IdIsNext(name, i)
       THEN CamelToSnakeIdOneStep(name, i + 1, result \o <<"_", "I", "D">>)
       ELSE LET c == name[i + 1]
            IN  CamelToSnakeIdOneStep(name, i + 1,
                  result \o (IF c \in UpperChars THEN <<"_">> ELSE <<>>)
                         \o <<UpperOf[c]>>)

(* The while loop of ensure_cap_snake_name, from offset i with the       *)
(* characters produced so far in result: "_ID" for the ID marker, else a *)
(* "_" before every upper-case character, every character upper-cased.   *)
RECURSIVE CamelToSnake(_, _, _)
CamelToSnake(name, i, result) ==
  IF i >= Len(name) THEN result
  ELSE IF IdIsNext(name, i)
       THEN CamelToSnake(name, i + 2, result \o <<"_", "I", "D">>)
       ELSE LET c == name[i + 1]
            IN  CamelToSnake(name, i + 1,
                  result \o (IF c \in UpperChars THEN <<"_">> ELSE <<>>)
                         \o <<UpperOf[c]>>)

(* ensure_cap_snake_name for a non-empty name (name[0] of an empty name  *)
(* raises IndexError; EnumScanner models that path).                      *)
EnsureCapSnakeName(name) ==
  LET has_underscore == Contains(name, "_")
      is_not_mixed   == IsUpper(name) \/ IsLower(name)
  IN  IF has_underscore \/ (~has_underscore /\ is_not_mixed)
      THEN Upper(name)
      ELSE CamelToSnake(name, 1, <<UpperOf[name[1]]>>)

(* ENUM_OVERRIDE.get(cap_snake_name, cap_snake_name) in parse_enum_line. *)
FinalName(name) ==
  LET cap_snake_name == EnsureCapSnakeName(name)
  IN  IF cap_snake_name \in DOMAIN ENUM_OVERRIDE
      THEN ENUM_OVERRIDE[cap_snake_name]
      ELSE cap_snake_name

-----------------------------------------------------------------------------
(***************************************************************************)
(* Reference: canonicalize as the specification (section 4.2) states it,  *)
(* declaratively.  A name with a separator, or whose letters are all of  *)
(* one case, is upper-cased verbatim; otherwise a separator goes before  *)
(* every upper-case character except the D of an "ID" marker that does   *)
(* not start the name.  The override is applied afterwards.               *)
(***************************************************************************)
OneCase(n) == ~(HasCase(n, UpperChars) /\ HasCase(n, LowerChars))

SplitBefore(n, k) ==
  /\ k > 1
  /\ n[k] \in UpperChars
  /\ ~(n[k] = "D" /\ k > 2 /\ n[k - 1] = "I")

SpecCanonical(n) ==
  IF Contains(n, "_") \/ OneCase(n)
  THEN Upper(n)
  ELSE FlattenSeq([k \in DOMAIN n |->
         (IF SplitBefore(n, k) THEN <<"_">> ELSE <<>>) \o <<UpperOf[n[k]]>>])

SpecFinalName(n) ==
  IF SpecCanonical(n) \in DOMAIN ENUM_OVERRIDE
  THEN ENUM_OVERRIDE[SpecCanonical(n)]
  ELSE SpecCanonical(n)
=============================================================================
