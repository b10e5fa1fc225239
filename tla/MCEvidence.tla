---- MODULE MCEvidence ----
(* Two paths whose order differs: "d/f" and "d-f", with "-" before "/".    *)
EXTENDS Evidence
InDirectory == <<2, 1, 2>>
Beside == <<2, 0, 2>>
TwoPaths == {InDirectory, Beside}
====
