----------------------------- MODULE MCFtdiBaud -----------------------------
(***************************************************************************)
(* Rates for FtdiBaud: none at all, the lowest a divisor reaches, where an *)
(* H chip changes its clock, the usual ones, a coarse sweep to 13M.        *)
(***************************************************************************)
EXTENDS FtdiBaud

Usual == {300, 600, 1200, 2400, 4800, 9600, 14400, 19200, 38400, 57600, 115200, 230400, 460800, 921600}
Sweep == {997 * i : i \in 1..60} \cup {99991 * i : i \in 1..130}
SomeBauds == {-1, 0, 1} \cup 170..200 \cup 725..740 \cup Usual \cup Sweep
=============================================================================
