-------------------------------- MODULE Values --------------------------------
(***************************************************************************)
(* The text the driver writes of a decimal and of nested data.             *)
(* decimal_array_accessor.cc, json_converter.cc.                           *)
(*                                                                         *)
(* Text is a sequence of characters.                                       *)
(***************************************************************************)
EXTENDS Versions, CxxIntegers

-----------------------------------------------------------------------------
(* Decimals. *)

RECURSIVE NaturalText(_)
NaturalText(n) == IF n < 10 THEN <<Digits[n + 1]>>
                  ELSE Append(NaturalText(n \div 10), Digits[(n % 10) + 1])
ToIntegerString(n) == IF n < 0 THEN <<"-">> \o NaturalText(-n) ELSE NaturalText(n)

FormatDecimalWithoutScientificNotation(n, scale) ==
    LET text  == ToIntegerString(n)
        start == IF text[1] = "-" THEN 1 ELSE 0
        count == Len(text) - start
    IN CASE scale = 0 -> text
         [] scale < 0 -> text \o Zeros(-scale)
         [] count > scale -> SubSeq(text, 1, Len(text) - scale) \o <<".">>
                               \o SubSeq(text, Len(text) - scale + 1, Len(text))
         [] OTHER -> SubSeq(text, 1, start) \o <<"0", ".">> \o Zeros(scale - count)
                               \o SubSeq(text, start + 1, Len(text))

(* SQL_NUMERIC_STRUCT, "throws" when the value cannot be held.  Rescaling to a
   smaller scale must lose nothing. *)
DecimalCell(n, precision, scale, boundPrecision, boundScale) ==
    LET lost     == scale > boundScale /\ n % 10^(scale - boundScale) # 0
        rescaled == IF scale > boundScale THEN Quot(n, 10^(scale - boundScale))
                    ELSE n * 10^(boundScale - scale)
    IN IF lost \/ AbsOf(rescaled) >= 10^boundPrecision THEN [status |-> "throws"]
       ELSE [status |-> "success", sign |-> IF rescaled < 0 THEN 0 ELSE 1,
             val |-> AbsOf(rescaled), scale |-> boundScale, precision |-> precision]

-----------------------------------------------------------------------------
(* Nested data as JSON.  A value is [kind |-> "leaf", text], [kind |-> "null"],
   [kind |-> "nan"], [kind |-> "refused"] (half floats, dictionaries,
   extensions), [kind |-> "list", items] or [kind |-> "struct", names, items].
   The writer puts the commas and colons itself, before a value, by the level it
   is in and the number of values there: rapidjson's Prefix.  A number that JSON
   cannot hold makes it stop after the prefix, and nobody looks at its answer. *)

Prefix(w) ==
    LET level == Last(w.levels)
        sep   == CASE level.count = 0 -> <<>>
                   [] level.array \/ level.count % 2 = 0 -> <<",">>
                   [] OTHER -> <<":">>
    IN IF w.levels = <<>> THEN w
       ELSE [w EXCEPT !.text = @ \o sep, !.levels = Front(@) \o <<[level EXCEPT !.count = @ + 1]>>]

Put(w, token)    == [Prefix(w) EXCEPT !.text = Append(@, token)]
Start(w, array)  == [Put(w, IF array THEN "[" ELSE "{")
                       EXCEPT !.levels = Append(@, [array |-> array, count |-> 0])]
End(w)           == [w EXCEPT !.text = Append(@, IF Last(w.levels).array THEN "]" ELSE "}"),
                              !.levels = Front(@)]

RECURSIVE Visit(_, _)
Visit(w, v) ==
    CASE w.failed -> w
      [] v.kind = "leaf"    -> Put(w, v.text)
      [] v.kind = "null"    -> Put(w, "null")
      [] v.kind = "nan"     -> Prefix(w)
      [] v.kind = "refused" -> [w EXCEPT !.failed = TRUE]
      [] v.kind = "list"    -> End(FoldLeft(Visit, Start(w, TRUE), v.items))
      [] v.kind = "struct"  ->
            End(FoldLeftDomain(LAMBDA x, i : Visit(Put(x, v.names[i]), v.items[i]),
                               Start(w, FALSE), v.items))

\* A mutant: what the last conversion left stays in front.
ResetLevels(w) == [w EXCEPT !.levels = <<>>]

(* The converter is thread_local and keeps its buffer: Reset empties it. *)
Reset(w) == [text |-> <<>>, levels |-> <<>>, failed |-> FALSE]
ConvertToJson(w, v) == Visit(Reset(w), v)
-----------------------------------------------------------------------------
(* The text of a decimal reads back as the number it was, sign, zeros before and
   behind the point included; and as SQL_NUMERIC_STRUCT it is that number at the
   scale of the binding, or refused when digits would be lost.
   (FormatDecimalWithoutScientificNotation, DecimalArrayFlightSqlAccessor) *)
DecimalReadsBackOn(n, scale) ==
    LET text     == FormatDecimalWithoutScientificNotation(n, scale)
        unsigned == IF text[1] = "-" THEN Tail(text) ELSE text
        point    == SelectInSeq(unsigned, LAMBDA c : c = ".")
        read     == Number(SelectSeq(unsigned, IsDigit))
    IN /\ (text[1] = "-") = (n < 0)
       /\ IF scale <= 0 THEN point = 0 /\ read = AbsOf(n) * 10^(-scale)
          ELSE point > 1 /\ Len(unsigned) - point = scale /\ read = AbsOf(n)
       /\ \A bound \in 0..3 :
            LET cell == DecimalCell(n, 4, scale, 3, bound)
            IN scale >= 0 =>
                 IF \E k \in 0..999 : k * 10^scale = AbsOf(n) * 10^bound
                 THEN /\ cell.status = "success"
                      /\ cell.val * 10^scale = AbsOf(n) * 10^bound
                      /\ (cell.sign = 0) = (n < 0)
                 ELSE cell.status = "throws"

(* The JSON text of nested data is the value written by its structure, whatever
   the last conversion of the thread left behind, one that was refused half way
   included; a number JSON cannot hold leaves a hole in the text, and only that
   does. (ScalarToJson, ConvertToJson) *)
RECURSIVE Json(_), Has(_, _)
Json(v) ==
    CASE v.kind = "leaf" -> <<v.text>>
      [] v.kind = "null" -> <<"null">>
      [] v.kind = "list" ->
            <<"[">> \o FlattenSeq([i \in DOMAIN v.items |->
                          (IF i > 1 THEN <<",">> ELSE <<>>) \o Json(v.items[i])]) \o <<"]">>
      [] v.kind = "struct" ->
            <<"{">> \o FlattenSeq([i \in DOMAIN v.items |->
                          (IF i > 1 THEN <<",">> ELSE <<>>) \o <<v.names[i], ":">>
                             \o Json(v.items[i])]) \o <<"}">>
Has(v, kind) ==
    \/ v.kind = kind
    \/ v.kind \in {"list", "struct"} /\ \E i \in DOMAIN v.items : Has(v.items[i], kind)

JsonIsTheValueOn(before, v) ==
    LET w == ConvertToJson(ConvertToJson([text |-> <<>>, levels |-> <<>>, failed |-> FALSE],
                                         before), v)
    IN /\ w.failed <=> Has(v, "refused")
       /\ ~Has(v, "refused") /\ ~Has(v, "nan") => w.text = Json(v) /\ w.levels = <<>>
=============================================================================
