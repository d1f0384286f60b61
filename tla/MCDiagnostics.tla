--------------------------- MODULE MCDiagnostics ----------------------------
(* Texts of one, three and four byte characters, and one whose length
   overflows an SQLSMALLINT of five bits. *)
EXTENDS Diagnostics
MCTexts == {[Ascii(1) EXCEPT !.three = 1], [Ascii(1) EXCEPT !.four = 1], Ascii(20)}
=============================================================================
