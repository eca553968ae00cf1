----------------------------- MODULE MCBleLink -----------------------------
(***************************************************************************)
(* An instance of BleLink for TLC: a listed and an unknown serial, the     *)
(* first-time password, the unique one and a wrong one.                    *)
(***************************************************************************)
EXTENDS BleLink

CONSTANTS s0, s1, pu, p0, px

MCSerials == {s0, s1}
MCListed == {s0}
MCPasswords == {pu, p0, px}
=============================================================================
