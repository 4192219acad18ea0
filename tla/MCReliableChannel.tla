-------------------------- MODULE MCReliableChannel --------------------------
(* Small instances of ReliableChannel for TLC. *)
EXTENDS ReliableChannel

\* the window grows and shrinks by one packet
MCWindowSteps == {-1, 1}

\* one or two packets and then three; a single command of up to three
TwoSizes == <<{1, 2}, {3}>>
OneSize == <<1 .. 3>>

=============================================================================
