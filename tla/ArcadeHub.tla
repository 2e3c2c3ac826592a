----------------------------- MODULE ArcadeHub ------------------------------
(***************************************************************************)
(* The desktop's two windows on the one arcade manager: the hub            *)
(* (src/src/app/ArcadeWindow.cpp) and the chaos laboratory                 *)
(* (src/src/app/ChaosLabWindow.cpp), whose Flexing page runs a game of its *)
(* own in it, with the settings dialog, which changes the configuration,   *)
(* and the tick that tells the keyboard hook a game owns the keys.         *)
(***************************************************************************)
EXTENDS ArcadeManager

VARIABLES
  arcade,     \* the manager
  hub, lab,   \* the windows exist
  owns,       \* ownsFlexing: the laboratory takes the game for its own
  hubFront,   \* the foreground window
  ownsKeys    \* g.arcadeOwnsKeyboard

hubVars == <<arcade, hub, lab, owns, hubFront, ownsKeys>>

HubInit ==
  /\ arcade = Idle
  /\ hub = FALSE /\ lab = FALSE /\ owns = FALSE
  /\ hubFront = "other" /\ ownsKeys = FALSE

Left(gone) == IF hubFront = gone THEN {"other"} ELSE {hubFront}

\* ArcadeWindow::open, with the game of a launcher or without one; Windows
\* may refuse the foreground.
OpenHub ==
  /\ hub' = TRUE /\ hubFront' \in {hubFront, "hub"}
  /\ \/ UNCHANGED arcade
     \/ /\ CanBegin(arcade)
        /\ \E t \in Types : arcade' = Launch(arcade, t)
  /\ UNCHANGED <<lab, owns, ownsKeys>>

\* ArcadeWindow::close: a Flexing run of the laboratory's stays.
\* Mutant: the laboratory keeps the game whatever it is.
BadLabKeeps == lab /\ owns
LabKeeps == lab /\ owns /\ IsFlexing(arcade)

CloseHub ==
  /\ hub /\ hub' = FALSE /\ hubFront' \in Left("hub")
  /\ arcade' = IF LabKeeps THEN arcade ELSE Stop(arcade)
  /\ UNCHANGED <<lab, owns, ownsKeys>>

\* A click on the catalogue
HubClick ==
  /\ hub /\ CanBegin(arcade) /\ \E t \in Types : arcade' = Launch(arcade, t)
  /\ hubFront' = "hub"
  /\ UNCHANGED <<hub, lab, owns, ownsKeys>>

HubKey ==
  /\ hub /\ hubFront = "hub" /\ arcade' \in Key(arcade)
  /\ UNCHANGED <<hub, lab, owns, hubFront, ownsKeys>>

\* pump: only the window in front moves the game.
HubTimer ==
  /\ hub /\ hubFront = "hub" /\ arcade' \in {Drain(u) : u \in Update(arcade)}
  /\ UNCHANGED <<hub, lab, owns, hubFront, ownsKeys>>

\* ChaosLabWindow::open
OpenLab ==
  /\ lab' = TRUE /\ hubFront' \in {hubFront, "lab"}
  /\ UNCHANGED <<arcade, hub, owns, ownsKeys>>

StopIfFlexing == arcade' = IF IsFlexing(arcade) THEN Stop(arcade) ELSE arcade

\* ChaosLabWindow::close
CloseLab ==
  /\ lab /\ lab' = FALSE /\ owns' = FALSE /\ hubFront' \in Left("lab")
  /\ IF owns THEN StopIfFlexing ELSE UNCHANGED arcade
  /\ UNCHANGED <<hub, ownsKeys>>

\* The Flexing box ticked, and its load button: ensureFlexingGame
FlexOn ==
  /\ lab /\ CanBegin(arcade)
  /\ owns' = TRUE
  /\ arcade' = IF IsFlexing(arcade) THEN ResetGame(arcade) ELSE Launch(arcade, "flexing")
  /\ UNCHANGED <<hub, lab, hubFront, ownsKeys>>

\* The Flexing box cleared
FlexOff ==
  /\ lab /\ owns /\ owns' = FALSE
  /\ StopIfFlexing
  /\ UNCHANGED <<hub, lab, hubFront, ownsKeys>>

\* A character typed in the Flexing box plays a key, no command of the game
LabType ==
  /\ lab /\ owns /\ IsFlexing(arcade)
  /\ arcade' \in Plays(arcade)
  /\ UNCHANGED <<hub, lab, owns, hubFront, ownsKeys>>

\* pumpFlexing on the timer: the claim ends with the game.
LabTimer ==
  /\ lab /\ owns
  /\ IF IsFlexing(arcade)
     THEN hubFront = "lab" /\ arcade' \in Update(arcade) /\ UNCHANGED owns
     ELSE owns' = FALSE /\ UNCHANGED arcade
  /\ UNCHANGED <<hub, lab, hubFront, ownsKeys>>

\* The settings dialog's two apply buttons
ApplyConfig ==
  \E config \in Configs :
    LET stored == SetConfig(arcade, config) IN
    /\ CanBegin(arcade)
    /\ arcade' = IF ConfigNeedsRelaunch(arcade, config) THEN Relaunch(stored) ELSE stored
    /\ UNCHANGED <<hub, lab, owns, hubFront, ownsKeys>>

\* The settings dialog's timer credits what waits.
SettingsTimer ==
  /\ arcade' = Drain(arcade)
  /\ UNCHANGED <<hub, lab, owns, hubFront, ownsKeys>>

\* onNotifyTick
NotifyTick ==
  /\ ownsKeys' = Playing(arcade)
  /\ UNCHANGED <<arcade, hub, lab, owns, hubFront>>

SwitchWindow ==
  /\ hubFront' \in {"other"} \cup (IF hub THEN {"hub"} ELSE {}) \cup (IF lab THEN {"lab"} ELSE {})
  /\ UNCHANGED <<arcade, hub, lab, owns, ownsKeys>>

HubNext ==
  \/ OpenHub \/ CloseHub \/ HubClick \/ HubKey \/ HubTimer
  \/ OpenLab \/ CloseLab \/ FlexOn \/ FlexOff \/ LabType \/ LabTimer
  \/ ApplyConfig \/ SettingsTimer \/ NotifyTick \/ SwitchWindow

\* The one-second tick is a window timer of the message loop.
HubSpec == HubInit /\ [][HubNext]_hubVars /\ WF_hubVars(NotifyTick)

(***************************************************************************)
(* Properties                                                              *)
(***************************************************************************)
\* A game runs only while a window is there to close it: the hub, or the
\* laboratory that claims it.  A game without one would keep the hook's F9
\* and block the next launch's report.
NoOrphanGame == Playing(arcade) => hub \/ (lab /\ owns /\ IsFlexing(arcade))

\* The running game was built from the settings in force.
KnobsInForce ==
  Playing(arcade) => /\ arcade.game.chart = arcade.config.chart
                     /\ arcade.game.live = arcade.config.live

\* With the reports: every run that ended is reported, none twice but by
\* Escape after its report.
ScoresReported == EndedIsReported(arcade) /\ CreditedFairly(arcade)

HubIsSound == NoOrphanGame /\ KnobsInForce /\ ScoresReported

\* The hook gets F9 back when no game runs for good.
KeysReturn == (~ Playing(arcade)) ~> (~ ownsKeys \/ Playing(arcade))

\* Arcade.hpp: "a result is popped exactly once, so nothing can be credited
\* twice".
CreditedOnce == \A r \in Runs : arcade.credits[r] <= 1
=============================================================================
