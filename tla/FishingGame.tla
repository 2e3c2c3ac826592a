---------------------------- MODULE FishingGame -----------------------------
(***************************************************************************)
(* The fishing game of src/src/core/Arcade.cpp: every letter of the prompt *)
(* pulls the fish in and strains the line.  Every fish shows the same      *)
(* prompt here; they differ in how hard they pull.  The automated mode     *)
(* presses the keys a player may press.                                    *)
(***************************************************************************)
EXTENDS TypedText, GameLife

CONSTANTS
  PullStart, PullGain, PullLoss, PullFull,     \* 20, 8, 5 and 100 in the code
  AssistLimit,                                 \* 95
  TensionStart, TensionFull,                   \* 30 and 100
  Strains                                      \* rarityTensionGain of the fish

\* A fish is hooked with the line slack and the fish out of reach.
ASSUME FishAssumption ==
  /\ PullFull \in Nat /\ TensionFull \in Nat /\ PullGain \in Nat /\ PullLoss \in Nat
  /\ PullStart \in 0 .. PullFull - 1 /\ TensionStart \in 0 .. TensionFull - 1
  /\ AssistLimit \in 0 .. PullFull - 1
  /\ Strains \subseteq Nat /\ Strains # {}

VARIABLES
  fishVn, fishTyped,         \* m_vnMode, m_composer
  fishIndex,             \* m_promptIndex
  pull, tension,     \* m_pullProgress, m_lineTension
  strain,            \* of m_currentRarity
  fishLife

fish == <<fishTyped, fishIndex, pull, tension, strain>>
fishVars == <<fishVn, fish, fishLife>>

\* hookNewFish
\* Mutant: the text typed for the last fish is left in the composer.
BadHookNewFish ==
  /\ fishTyped' \in {fishTyped, FeedBackspace(fishTyped)} /\ fishIndex' = 0
  /\ pull' = PullStart /\ tension' = TensionStart
  /\ strain' \in Strains
HookNewFish ==
  /\ fishTyped' = Nothing /\ fishIndex' = 0
  /\ pull' = PullStart /\ tension' = TensionStart
  /\ strain' \in Strains

FishInit ==
  /\ fishVn \in BOOLEAN
  /\ fishTyped = Nothing /\ fishIndex = 0
  /\ pull = PullStart /\ tension = TensionStart
  /\ strain \in Strains
  /\ fishLife = Started

\* A key makes the text t, which has i symbols of the prompt: it brings the
\* fish nearer, until the line snaps or the fish is caught
Reel(t, i) ==
  LET p == pull + (i - fishIndex) * PullGain
      strained == tension + (i - fishIndex) * strain
  IN IF strained >= TensionFull \/ p >= PullFull \/ i = Len(Target)
     THEN HookNewFish
     ELSE /\ pull' = p /\ tension' = strained
          /\ fishTyped' = t /\ fishIndex' = i /\ UNCHANGED strain

\* A key that brings nothing; it costs when it is a mistake
Slip(t, i, wrong) ==
  /\ pull' = IF ~ wrong THEN pull ELSE IF pull > PullLoss THEN pull - PullLoss ELSE 0
  /\ fishTyped' = t /\ fishIndex' = i
  /\ UNCHANGED <<tension, strain>>

PromptOpen == Running(fishLife) /\ fishIndex < Len(Target)

\* handleKey
FishEnglish(s) ==
  /\ PromptOpen /\ ~ fishVn
  /\ IF s = Target[fishIndex + 1]
     THEN Reel(fishTyped, fishIndex + 1) ELSE Slip(fishTyped, fishIndex, TRUE)
  /\ UNCHANGED <<fishVn, fishLife>>

FishBackspace ==
  /\ PromptOpen /\ fishVn
  /\ LET t == FeedBackspace(fishTyped) IN Slip(t, MatchLength(t), FALSE)
  /\ UNCHANGED <<fishVn, fishLife>>

FishLetter ==
  /\ PromptOpen /\ fishVn
  /\ \E t \in FeedLetter(fishTyped) :
       LET i == MatchLength(t) IN IF i > fishIndex THEN Reel(t, i) ELSE Slip(t, i, FALSE)
  /\ UNCHANGED <<fishVn, fishLife>>

\* A word is judged when the space commits it; one that brought the fish in
\* is not judged any more.
FishSpace ==
  /\ PromptOpen /\ fishVn
  /\ \E t \in FeedSpace(fishTyped) :
       LET i == MatchLength(t) IN
       IF i > fishIndex THEN Reel(t, i) ELSE Slip(t, i, i < Len(t.text))
  /\ UNCHANGED <<fishVn, fishLife>>

\* update: the fish pulls, the line slackens; a fish that has pulled free or
\* waited long enough is gone.  Assistance stops short of a catch.
Update ==
  /\ Running(fishLife)
  /\ \/ HookNewFish
     \/ /\ pull > 1
        /\ \/ pull' = pull - 1
           \/ pull < AssistLimit /\ pull' = pull + 1
        /\ tension' = IF tension > 0 THEN tension - 1 ELSE 0
        /\ UNCHANGED <<fishTyped, fishIndex, strain>>
  /\ UNCHANGED <<fishVn, fishLife>>

\* reset()
FishRestart == HookNewFish /\ fishLife' = Restarted(fishLife) /\ UNCHANGED fishVn

FishLifeKey ==
  /\ fishLife' \in {ExitKey(fishLife), PauseKey(fishLife), Polled(fishLife)}
  /\ UNCHANGED <<fishVn, fish>>

\* The manager drops a game that asked to leave.
FishNext ==
  /\ ~ fishLife.exiting
  /\ \/ \E s \in Symbols : FishEnglish(s)
     \/ FishBackspace
     \/ FishLetter
     \/ FishSpace
     \/ Update
     \/ FishRestart
     \/ FishLifeKey

FishSpec == FishInit /\ [][FishNext]_fishVars

-----------------------------------------------------------------------------
\* A fish is gone in the step that fills the pull, snaps the line or ends
\* the prompt: none stays on the hook with a prompt that takes no key, and
\* what is shown as typed is typed for this fish.
FishOnHook ==
  /\ fishIndex < Len(Target)
  /\ pull \in 0 .. PullFull - 1 /\ tension \in 0 .. TensionFull - 1
  /\ fishVn => fishIndex = MatchLength(fishTyped)
=============================================================================
