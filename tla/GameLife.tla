------------------------------ MODULE GameLife ------------------------------
(***************************************************************************)
(* The part of a game's state every game of src/src/core/Arcade.cpp keeps  *)
(* and treats alike: paused, over, whether the player asked to leave, and  *)
(* whether a result waits to be polled.  In all games Escape, the pause    *)
(* key and the restart key come before every other key, so they work in a  *)
(* paused game and in one that is over.                                    *)
(***************************************************************************)
LifeState ==
  [paused : BOOLEAN, over : BOOLEAN, exiting : BOOLEAN, pending : BOOLEAN]

\* start()
Started == [paused |-> FALSE, over |-> FALSE, exiting |-> FALSE, pending |-> FALSE]

\* reset(), which the restart key calls: it forgets a result not polled yet
\* and leaves m_exitRequested alone
Restarted(l) == [Started EXCEPT !.exiting = l.exiting]

\* isExitKey: reports whatever the run has reached
ExitKey(l) == [l EXCEPT !.exiting = TRUE, !.pending = TRUE]

\* isPauseKey
PauseKey(l) == [l EXCEPT !.paused = ~ l.paused]

\* die(), finish()
Ended(l) == [l EXCEPT !.over = TRUE, !.pending = TRUE]

\* pollRunResult
Polled(l) == [l EXCEPT !.pending = FALSE]

Running(l) == ~ l.paused /\ ~ l.over
=============================================================================
