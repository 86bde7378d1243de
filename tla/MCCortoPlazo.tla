---------------------------- MODULE MCCortoPlazo ----------------------------
(* CortoPlazo on small instances.                                           *)
EXTENDS CortoPlazo, TLC
CONSTANTS p1, p2, p3, c1

UnaCpu == <<c1>>
Noop == Por("NOOP", p1)
Io1 == Por("IO", p1)

(* p1 creates the others; they come while a process runs and has estimates  *)
(* used up, or not, by earlier turns.                                       *)
GuionesDeTres ==
    { p1 :> <<Por("INIT_PROC", p2), Por("INIT_PROC", p3), Io1>> @@ p2 :> <<Noop>> @@ p3 :> <<Io1>>,
      p1 :> <<Por("INIT_PROC", p2), Por("INIT_PROC", p3)>> @@ p2 :> <<Noop>> @@ p3 :> <<Io1, Io1>> }
=============================================================================
