------------------------------ MODULE MCUsartLink ------------------------------
(***************************************************************************)
(* Values for UsartLink: buffers so small that six bytes overflow each of  *)
(* them, answers of two bytes, and a queue that two of them fill.          *)
(***************************************************************************)
EXTENDS UsartLink

TwoLetters == {"a", "b"}

===============================================================================
