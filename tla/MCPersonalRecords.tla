--------------------------- MODULE MCPersonalRecords ---------------------------
(* A small instance of PersonalRecords.                                    *)
EXTENDS PersonalRecords

CONSTANTS a1, x1
===============================================================================
