------------------------------ MODULE MCLegacy ------------------------------
(***************************************************************************)
(* Module Legacy for TLC: the commands that tell its cases apart.           *)
(***************************************************************************)
EXTENDS Legacy

CONSTANTS c1, c2, c3, k1, b1, b8

Line(op, key, button, to, hold, numeric) ==
  [op |-> op, key |-> key, button |-> button, to |-> to, hold |-> hold, numeric |-> numeric]

MCCommands ==
  { Line("none", NoKey, NoButton, <<0, 0>>, 0, FALSE),
    Line("keydown", k1, NoButton, <<0, 0>>, 0, FALSE),
    Line("mousedown", NoKey, b8, <<0, 0>>, 0, TRUE),
    Line("key", k1, NoButton, <<0, 0>>, 501, TRUE),
    Line("mousemove", NoKey, NoButton, <<3, 9>>, 0, TRUE),
    Line("click", NoKey, b1, <<0, 0>>, 0, TRUE),
    Line("releaseall", NoKey, NoButton, <<0, 0>>, 0, FALSE),
    Line("modclick", k1, b1, <<1, 1>>, 45, TRUE) }
=============================================================================
