-------------------------- MODULE ExcelImportMC --------------------------
(* Instances of ExcelImport for TLC. *)
EXTENDS ExcelImport, TLC

CONSTANTS i1, i2, c1, a, b, p, q

TwoImports == {i1, i2}
OneCancel  == {c1}
Codes      == {a, b}

Row(key, correct) == [key |-> key, correct |-> correct]

\* A full batch, a repeated code, a wrong row, and one row too many.
Batch    == <<Row(a, TRUE), Row(b, TRUE)>>
Repeated == <<Row(a, TRUE), Row(a, TRUE)>>
Wrong    == <<Row(a, FALSE)>>
TooLong  == <<Row(a, TRUE), Row(b, TRUE), Row(b, TRUE)>>

AllSheets  == {Batch, Repeated, Wrong, TooLong}
OneSheet   == {Batch}

RequestSymmetry == Permutations(Import) \cup Permutations(Second)
=============================================================================
