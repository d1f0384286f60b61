-------------------------------- MODULE Text --------------------------------
(***************************************************************************)
(* How text crosses the ODBC interface: AttributeUtils.h, EncodingUtils.h, *)
(* encoding.h and the conversions at the head of odbc_entry.cc.            *)
(*                                                                         *)
(* A text counts, for it matters nowhere in which order they come: it says *)
(* how many of its characters take one, two, three and four bytes in UTF-8,*)
(* the encoding inside the driver.  A buffer is described by what a call   *)
(* does to it: how far it writes, how much text it leaves before the NUL.  *)
(***************************************************************************)
EXTENDS Integers

CONSTANTS
    WcharSize,      \* GetSqlWCharSize(): 2 or 4
    MaxShort        \* the largest SQLSMALLINT, 32767 in the code; SQL_NTS is one too

ASSUME TextAssumption == WcharSize \in {2, 4} /\ MaxShort \in Nat /\ MaxShort >= 2

Text == [one : Nat, two : Nat, three : Nat, four : Nat]
Ascii(n) == [one |-> n, two |-> 0, three |-> 0, four |-> 0]

(* static_cast<SQLSMALLINT>. *)
Short(n) == ((n + MaxShort + 1) % (2 * MaxShort + 2)) - MaxShort - 1

(* static_cast<size_t> of a negative number: more than any buffer holds. *)
Huge == (2 * MaxShort + 2) * (2 * MaxShort + 2)
Unsigned(n) == IF n < 0 THEN Huge ELSE n
Least(a, b) == IF a <= b THEN a ELSE b

Utf8Size(t) == t.one + 2 * t.two + 3 * t.three + 4 * t.four

(* Utf8ToWcs: one unit for each character.  codecvt_utf8<char16_t> knows no
   surrogates, so a character outside the basic plane is a range_error. *)
Encodable(t) == WcharSize = 2 => t.four = 0
Units(t) == t.one + t.two + t.three + t.four

(* What a call leaves: `reach` bytes of the buffer are written, `kept` units
   of text stand before the NUL, if there is one; `told` is the length it
   reports, and `info` whether it returns SQL_SUCCESS_WITH_INFO. *)
Out(reach, kept, nul, told, info) ==
    [reach |-> reach, kept |-> kept, nul |-> nul, told |-> told, info |-> info]

(* A length in the type the caller has for it, O of AttributeUtils.h.  No text
   is longer than an SQLINTEGER holds. *)
As(O, n) == IF O = "SQLSMALLINT" THEN Short(n) ELSE n

(* GetAttributeUTF8 with a buffer of `size` bytes: both lengths are cast to O,
   and what is negative then is a size_t for memcpy. *)
GetAttributeUTF8Written(t, size, O) ==   \* mutant: tells what it wrote
    LET n == Utf8Size(t)
        before == Least(As(O, n), As(O, size - 1))
    IN Out(Unsigned(before) + 1, Unsigned(before), before >= 0, As(O, before), size < n + 1)

GetAttributeUTF8(t, size, O) ==
    LET n == Utf8Size(t)
        before == Least(As(O, n), As(O, size - 1))
    IN Out(Unsigned(before) + 1, Unsigned(before), before >= 0, As(O, n), size < n + 1)

(* ConvertToSqlWChar with a buffer of `bytes` bytes: the units that fit, then
   a NUL after them, or over the last whole unit. *)
ConvertToSqlWChar(t, bytes) ==
    LET n == Units(t) * WcharSize
        copied == Unsigned(Least(n, bytes))
        whole == bytes \div WcharSize
    IN IF bytes >= n + WcharSize THEN Out(n + WcharSize, Units(t), TRUE, n, FALSE)
       ELSE IF whole > 0 THEN Out(copied, whole - 1, TRUE, n, FALSE)
       ELSE Out(copied, 0, FALSE, n, FALSE)

(* GetAttributeSQLWCHAR; every caller passes isLengthInBytes. *)
GetAttributeSQLWCHARTight(t, bytes, O) ==   \* mutant: forgets the NUL
    [ConvertToSqlWChar(t, bytes) EXCEPT !.told = As(O, @),
                                        !.info = bytes < Units(t) * WcharSize]

GetAttributeSQLWCHAR(t, bytes, O) ==
    [ConvertToSqlWChar(t, bytes) EXCEPT !.told = As(O, @),
                                        !.info = bytes < (Units(t) + 1) * WcharSize]

(* The copies odbc_entry.cc makes by itself, of at most max - 1 bytes. *)
OwnCopy(t, max) ==
    LET n == Utf8Size(t) IN
    IF max > 0 THEN Out(Least(max - 1, n) + 1, Least(max - 1, n), TRUE, n, FALSE)
    ELSE Out(0, 0, FALSE, n, FALSE)

(* Utf8ToSqlWChar as odbc_entry.cc calls it, with `max` characters: their size
   in bytes goes through SQLSMALLINT. *)
OwnWideCopy(t, max) ==
    IF max > 0
    THEN LET o == ConvertToSqlWChar(t, Short(max * WcharSize))
         IN [o EXCEPT !.told = Short(@) \div WcharSize]
    ELSE Out(0, 0, FALSE, Utf8Size(t), FALSE)

(* SQLGetDiagRec: OwnCopy, which tells when the text did not fit.
   SQLGetDiagRecW compares with the size of the text in UTF-8. *)
DiagRecCopy(t, max) ==
    [OwnCopy(t, max) EXCEPT !.info = max > 0 /\ max <= Utf8Size(t)]
DiagRecWideCopy(t, max) ==
    [OwnWideCopy(t, max) EXCEPT !.info = max > 0 /\ max < Utf8Size(t) + 1]

-----------------------------------------------------------------------------
(* Text the application passes in: SqlCharToString and SqlWCharToString, with
   SQL_NTS or with a length that came through SQLSMALLINT.  The result is the
   number of bytes, or units, that are read. *)
SQL_NTS == -3

SqlCharToStringSigned(t, length) ==   \* mutant: every negative length is SQL_NTS
    IF Short(length) < 0 THEN Utf8Size(t) ELSE Least(Short(length), Utf8Size(t) - 1)

SqlCharToString(t, length) ==
    IF Short(length) = SQL_NTS THEN Utf8Size(t) ELSE Unsigned(Short(length))

SqlWCharToString(t, length) ==
    IF Short(length) = SQL_NTS THEN Units(t) ELSE Unsigned(Short(length)) \div WcharSize
=============================================================================
