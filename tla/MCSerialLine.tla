------------------------------ MODULE MCSerialLine ------------------------------
(***************************************************************************)
(* Values for SerialLine: two printable bytes and buffers so small that    *)
(* eight bytes overflow each of them, one behind the other.                *)
(***************************************************************************)
EXTENDS SerialLine

TwoLetters == {"a", "b"}

===============================================================================
