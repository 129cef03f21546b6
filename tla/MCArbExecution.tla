--------------------------- MODULE MCArbExecution ---------------------------
(* One arb worker and one API request over lines that hold a full dutch,   *)
(* a dutch with a leg at another book, a thin one, one with a runner id    *)
(* missing, and ordinary Matchbook prices with the lay above the back.     *)
EXTENDS ArbExecution

CONSTANTS worker, request

Tick(m, odds, exchange, lay, runner) ==
  [market |-> m, odds |-> odds, exchange |-> exchange,
   back |-> IF exchange THEN odds ELSE 0, lay |-> lay, runner |-> runner]

MB(m, odds, lay) == Tick(m, odds, TRUE, lay, 1)

FullDutch == <<MB("Home", 22, 0), MB("Home", 21, 0), MB("Draw", 40, 0), MB("Away", 50, 0)>>
SoftDraw == <<MB("Home", 22, 0), Tick("Draw", 40, FALSE, 0, 0), MB("Draw", 40, 0), MB("Away", 50, 0)>>
ThinDutch == <<MB("Home", 26, 0), MB("Draw", 30, 0), MB("Away", 36, 0)>>
NoRunner == <<MB("Home", 30, 0), MB("Draw", 35, 0), Tick("Away", 40, TRUE, 0, 0)>>
Scalp == <<MB("Home", 30, 32)>>

MCLines == {FullDutch, SoftDraw, ThinDutch, NoRunner, Scalp}
=============================================================================
