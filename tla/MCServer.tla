------------------------------- MODULE MCServer -------------------------------
(* Small instances of Server. *)
EXTENDS Server, TLC

\* A slice of a list, compared with Python's: [1,2,3][-2:], [-5:], [-0:] and [1:].
ASSUME SlicesAreThoseOfPython ==
    LET log == <<1, 2, 3>>
    IN  /\ Recent(log, 2) = <<2, 3>> /\ Recent(log, 5) = log
        /\ Recent(log, 0) = log      /\ Recent(log, -1) = <<2, 3>>

=============================================================================
