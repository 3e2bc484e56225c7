---------------------------- MODULE ContractParams ----------------------------
(***************************************************************************)
(* scripts/generate_contract_function_param_methods.py: the loop over    *)
(* bit widths that calls add_with_param_type, filling four lists of      *)
(* method fragments, then the writes of output.txt: a banner per list    *)
(* followed by its fragments.  A fragment is the record of what its      *)
(* template is filled with: the method kind, the width, the Java         *)
(* parameter type, the stream mapping method, and whether the            *)
(* IllegalArgumentException line is in its doc comment.                   *)
(***************************************************************************)
EXTENDS Naturals, Sequences

Kinds == <<"int", "uint", "int_array", "uint_array">>

VARIABLES
  bit_width,            \* the loop variable of range(16, 257, 8)
  int_versions, uint_versions, int_array_versions, uint_array_versions,
  out,                  \* what has been written to output.txt
  sec, k,               \* the list being written and the next index in it
  pc

vars == <<bit_width, int_versions, uint_versions, int_array_versions,
          uint_array_versions, out, sec, k, pc>>

Lists == <<int_versions, uint_versions, int_array_versions, uint_array_versions>>

-----------------------------------------------------------------------------
(* range(16, 257, 8) stops before 256 + 1.  A slip: before 256. *)
InRangeStopAt256(w) == w < 256

InRange(w) == w < 257

(* The parameter type chosen for a width: a slip in the first bound. *)
ParamTypeOffByStep(w) ==
  IF w <= 40 THEN "int" ELSE IF w <= 64 THEN "long" ELSE "BigInteger"

(* The if/elif/else of the loop body. *)
ParamType(w) ==
  IF w <= 32 THEN "int" ELSE IF w <= 64 THEN "long" ELSE "BigInteger"

(* The fragment add_with_param_type appends to the list of kind kd; only *)
(* the unsigned templates contain {exception_comment}, non-empty for     *)
(* BigInteger.                                                           *)
Fragment(kd, w) ==
  [kind   |-> kd,
   width  |-> w,
   type   |-> ParamType(w),
   map    |-> IF ParamType(w) = "BigInteger" THEN "map" ELSE "mapToObj",
   throws |-> kd \in {"uint", "uint_array"} /\ ParamType(w) = "BigInteger"]

-----------------------------------------------------------------------------
Init ==
  /\ bit_width = 16
  /\ int_versions = <<>> /\ uint_versions = <<>>
  /\ int_array_versions = <<>> /\ uint_array_versions = <<>>
  /\ out = <<>>
  /\ sec = 1 /\ k = 0
  /\ pc = "loop"

(* One iteration: add_with_param_type appends to the four lists. *)
AddWithParamType ==
  /\ pc = "loop"
  /\ InRange(bit_width)
  /\ int_versions' = Append(int_versions, Fragment("int", bit_width))
  /\ uint_versions' = Append(uint_versions, Fragment("uint", bit_width))
  /\ int_array_versions' =
       Append(int_array_versions, Fragment("int_array", bit_width))
  /\ uint_array_versions' =
       Append(uint_array_versions, Fragment("uint_array", bit_width))
  /\ bit_width' = bit_width + 8
  /\ UNCHANGED <<out, sec, k, pc>>

(* The range is exhausted: open("output.txt", "w"). *)
LoopDone ==
  /\ pc = "loop"
  /\ ~InRange(bit_width)
  /\ pc' = "write"
  /\ UNCHANGED <<bit_width, int_versions, uint_versions, int_array_versions,
                 uint_array_versions, out, sec, k>>

(* f.write of the banner of list sec. *)
WriteBanner ==
  /\ pc = "write"
  /\ k = 0
  /\ out' = Append(out, [banner |-> Kinds[sec]])
  /\ k' = 1
  /\ UNCHANGED <<bit_width, int_versions, uint_versions, int_array_versions,
                 uint_array_versions, sec, pc>>

(* f.write(v + "\n") for the next fragment of list sec. *)
WriteVersion ==
  /\ pc = "write"
  /\ k \in 1 .. Len(Lists[sec])
  /\ out' = Append(out, Lists[sec][k])
  /\ k' = k + 1
  /\ UNCHANGED <<bit_width, int_versions, uint_versions, int_array_versions,
                 uint_array_versions, sec, pc>>

(* The for loop over list sec is over: the next banner, or the file is  *)
(* closed after the fourth.                                             *)
NextList ==
  /\ pc = "write"
  /\ k = Len(Lists[sec]) + 1
  /\ IF sec = 4 THEN pc' = "done" /\ UNCHANGED <<sec, k>>
                ELSE sec' = sec + 1 /\ k' = 0 /\ UNCHANGED pc
  /\ UNCHANGED <<bit_width, int_versions, uint_versions, int_array_versions,
                 uint_array_versions, out>>

Terminating == pc = "done" /\ UNCHANGED vars

Next == AddWithParamType \/ LoopDone \/ WriteBanner \/ WriteVersion
          \/ NextList \/ Terminating

Spec == Init /\ [][Next]_vars

-----------------------------------------------------------------------------
(* The widths of the specification (section 6): 16, 24, ..., 256. *)
SpecWidths == <<16, 24, 32, 40, 48, 56, 64, 72, 80, 88, 96, 104, 112, 120,
                128, 136, 144, 152, 160, 168, 176, 184, 192, 200, 208, 216,
                224, 232, 240, 248, 256>>

(* What the specification's output holds at position i: the banner of   *)
(* a form, then one method per width in increasing order, for the four  *)
(* forms in turn.                                                        *)
SpecShape(i) ==
  LET j == (i - 1) % (Len(SpecWidths) + 1)
      l == (i - 1) \div (Len(SpecWidths) + 1) + 1
  IN  IF j = 0 THEN <<Kinds[l]>> ELSE <<Kinds[l], SpecWidths[j]>>

Shape(item) ==
  IF "banner" \in DOMAIN item THEN <<item.banner>> ELSE <<item.kind, item.width>>

(* output.txt holds, under the four banners, exactly one method of each *)
(* form for every width of the specification, in order.                  *)
OutputMatchesSpec ==
  pc = "done" =>
    /\ Len(out) = 4 * (Len(SpecWidths) + 1)
    /\ \A i \in DOMAIN out : Shape(out[i]) = SpecShape(i)

(* Every method takes a parameter that holds its width: a native int or  *)
(* long up to 64 bits, a BigInteger above (specification, section 6),   *)
(* and only the unsigned BigInteger methods document the exception.      *)
JavaBits == [int |-> 32, long |-> 64]

ParamFitsWidth ==
  \A i \in DOMAIN out :
    "kind" \in DOMAIN out[i] =>
      LET f == out[i]
      IN  /\ f.width <= 64 => f.type \in {"int", "long"} /\ JavaBits[f.type] >= f.width
          /\ f.width > 64 => f.type = "BigInteger"
          /\ f.throws <=> f.kind \in {"uint", "uint_array"} /\ f.type = "BigInteger"
=============================================================================
