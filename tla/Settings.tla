---- MODULE Settings ----
(***************************************************************************)
(* The settings: the copy in memory (g.options, the profile and its hybrid *)
(* flags), the engine's own copy, the registry, the macro table with its   *)
(* file, and the controls of the settings dialog, which read everything    *)
(* again whenever one of them is clicked.  The tray menu, a notification   *)
(* and the F9 key change settings while the dialog is open.                *)
(*                                                                         *)
(* Options that are handled alike stand for one another: `method` for the  *)
(* ones with a radio group, `quick` for the check boxes.  A line of the    *)
(* macro editor without an abbreviation is a comment.                      *)
(***************************************************************************)
EXTENDS Naturals, Sequences, FiniteSets, SequencesExt

CONSTANTS
    Registries,   \* what the registry may hold when the program is first started
    Texts,        \* texts of the macro editor: sequences of lines [abbr, as]
    MaxChoices,   \* bound: settings changed
    MaxBoots      \* bound: starts of the program

ASSUME SettingsAssumption ==
    Registries \subseteq [method : Nat, quick : BOOLEAN, modern : BOOLEAN, dict : BOOLEAN,
                          digits : BOOLEAN, profile : Nat,
                          hybrid : SUBSET {"tsf", "inline", "correct", "lowcpu"},
                          migration : Nat]

VARIABLES
    up,           \* the program runs
    ui,           \* "idle", or the UI thread still has to write "file" or "save"
    options,      \* g.options
    engine,       \* the options the engine holds
    profile, hybrid,
    strategy,     \* g_appliedStrategy
    telemetry,    \* what collectTelemetry() returned last
    registry,
    table, raw, macroFile,   \* g_macros, g_macroFileRaw, macros.txt
    dialog,       \* open, and the values its controls show
    failed,       \* ghost: the macro file could not be written
    choices, boots

settingsVars == <<up, ui, options, engine, profile, hybrid, strategy, telemetry, registry,
                  table, raw, macroFile, dialog, failed, choices, boots>>

-----------------------------------------------------------------------------
(* Profiles: one strategy for every tunable, from a base profile, hybrid   *)
(* flags and, for Adaptive, from telemetry.                                *)

Profiles == <<"Balanced", "Fastest", "LeastFlicker", "MaxCorrectness", "Adaptive">>

profileFromIndex(i) == IF i < Len(Profiles) THEN Profiles[i + 1] ELSE "Balanced"
IndexOf(p) == (CHOOSE i \in 1..Len(Profiles) : Profiles[i] = p) - 1

Balanced == [output |-> "Auto", spinCap |-> 100, budget |-> 1000, iterations |-> 200,
             batch |-> 32, defer |-> FALSE, dictionary |-> FALSE, recheck |-> FALSE,
             downgrade |-> TRUE]

baseStrategy(p) ==
    CASE p = "Fastest" -> [Balanced EXCEPT !.output = "Inline", !.spinCap = 200,
                           !.budget = 500, !.iterations = 400, !.batch = 8]
      [] p = "LeastFlicker" -> [Balanced EXCEPT !.output = "Tsf", !.spinCap = 200,
                           !.budget = 2000, !.batch = 64, !.defer = TRUE, !.downgrade = FALSE]
      [] p = "MaxCorrectness" -> [Balanced EXCEPT !.budget = 4000, !.iterations = 400,
                           !.batch = 1, !.dictionary = TRUE, !.recheck = TRUE]
      [] OTHER -> Balanced

Lesser(a, b) == IF a < b THEN a ELSE b
Greater(a, b) == IF a > b THEN a ELSE b

\* A telemetry is the set of thresholds reached.
adaptiveStrategy(t) ==
    LET late == "timeouts" \in t
        idle == "idle" \in t
        single == "single" \in t
    IN [Balanced EXCEPT
        !.output = IF "slow" \in t THEN "Inline" ELSE @,
        !.budget = IF late THEN 2000 ELSE @,
        !.spinCap = IF single THEN 4 ELSE IF idle THEN 20 ELSE IF late THEN 200 ELSE @,
        !.iterations = IF single THEN 20 ELSE @]

applyHybrid(s, flags) ==
    LET tsf == "tsf" \in flags
        correct == "correct" \in flags
        low == "lowcpu" \in flags
    IN [s EXCEPT
        !.output = IF tsf THEN "Tsf" ELSE IF "inline" \in flags THEN "Inline" ELSE @,
        !.defer = @ \/ tsf,
        !.dictionary = @ \/ correct,
        !.budget = IF correct THEN Greater(@, 2000) ELSE @,
        !.spinCap = IF low THEN Lesser(@, 20) ELSE @,
        !.iterations = IF low THEN Lesser(@, 50) ELSE @]

resolveStrategy(p, flags, t) ==
    applyHybrid(IF p = "Adaptive" THEN adaptiveStrategy(t) ELSE baseStrategy(p), flags)

\* applyPerfStrategy on engine options e: the dictionary is on when the user or
\* the strategy wants it.  An unforced call with the same strategy does nothing.
WithDictionary(e, o, s) == [e EXCEPT !.dict = s.dictionary \/ o.dict]

-----------------------------------------------------------------------------

\* The macros of a text: comments are skipped, a later line overrides an earlier one.
parseMacroText(text) ==
    LET lines == DOMAIN text
    IN [a \in {text[i].abbr : i \in lines} \ {""} |->
          text[Max({i \in lines : text[i].abbr = a})].as]
macrosToText(macros) ==
    <<[abbr |-> "", as |-> "header"]>> \o SetToSeq({[abbr |-> a, as |-> macros[a]] : a \in DOMAIN macros})

Closed == [open |-> FALSE]
\* What the controls show: there is none for the dictionary option, and none
\* for the "inline" and "tsf" flags.  The editor shows the file with its comments,
\* or the macros in force when the file is empty.
settingsToControls(o, p, h) ==
    [open |-> TRUE, method |-> o.method, quick |-> o.quick, modern |-> o.modern,
     profile |-> p, low |-> "lowcpu" \in h, correct |-> "correct" \in h,
     macros |-> IF raw = <<>> THEN macrosToText(table) ELSE raw]

Off == [method |-> 0, quick |-> FALSE, modern |-> FALSE, dict |-> FALSE, digits |-> TRUE]

SettingsInit ==
    /\ up = FALSE /\ ui = "idle"
    /\ options = Off /\ engine = Off
    /\ profile = "Balanced" /\ hybrid = {}
    /\ strategy = Balanced /\ telemetry = {}
    /\ registry \in Registries
    /\ macroFile \in Texts /\ raw = macroFile /\ table = parseMacroText(macroFile)
    /\ dialog = Closed /\ failed = FALSE
    /\ choices = 0 /\ boots = 0

\* loadSettings, with the one-time repair of the digits option.
Loaded(r) == [method |-> IF r.method <= 2 THEN r.method ELSE 0, quick |-> r.quick,
              modern |-> r.modern, dict |-> r.dict,
              digits |-> IF r.migration < 2 THEN TRUE ELSE r.digits]

\* wWinMain up to the message loop.
Boot ==
    /\ ~up /\ boots < MaxBoots
    /\ up' = TRUE /\ boots' = boots + 1
    /\ options' = Loaded(registry)
    /\ profile' = profileFromIndex(registry.profile) /\ hybrid' = registry.hybrid
    /\ registry' = IF registry.migration < 2
                   THEN [registry EXCEPT !.digits = TRUE, !.migration = 2] ELSE registry
    /\ raw' = macroFile /\ table' = parseMacroText(macroFile)
    /\ strategy' = resolveStrategy(profile', hybrid', telemetry)
    /\ engine' = WithDictionary(options', options', strategy')
    /\ UNCHANGED <<ui, telemetry, macroFile, dialog, failed, choices>>

Ready == up /\ ui = "idle"
Change == /\ Ready /\ choices < MaxChoices
          /\ choices' = choices + 1

openSettingsDialog ==
    /\ Ready /\ ~dialog.open
    /\ dialog' = settingsToControls(options, profile, hybrid)
    /\ UNCHANGED <<up, ui, options, engine, profile, hybrid, strategy, telemetry, registry,
                   table, raw, macroFile, failed, choices, boots>>

CloseDialog ==
    /\ Ready /\ dialog.open
    /\ dialog' = Closed
    /\ UNCHANGED <<up, ui, options, engine, profile, hybrid, strategy, telemetry, registry,
                   table, raw, macroFile, failed, choices, boots>>

\* The controls a click may change, with the values it may give them.
Values == [method |-> 0..1, quick |-> BOOLEAN, modern |-> BOOLEAN,
           profile |-> {"Balanced", "MaxCorrectness", "Adaptive"},
           low |-> BOOLEAN, correct |-> BOOLEAN]

FlagsOf(d) == (IF d.low THEN {"lowcpu"} ELSE {}) \cup (IF d.correct THEN {"correct"} ELSE {})

\* settingsFromControls: a control was changed, and all of them are read.  The
\* editor's text replaces the macro table.  The strategy is always applied anew.
\* Mutant: the dialog gives the engine its options before it read the controls.
BadClick(control) ==
    /\ Change /\ dialog.open
    /\ \E v \in Values[control], text \in Texts \cup {dialog.macros} :
         dialog' = [dialog EXCEPT ![control] = v, !.macros = text]
    /\ options' = [options EXCEPT !.method = dialog'.method, !.quick = dialog'.quick,
                                  !.modern = dialog'.modern]
    /\ profile' = dialog'.profile /\ hybrid' = FlagsOf(dialog')
    /\ strategy' = resolveStrategy(profile', hybrid', telemetry)
    /\ engine' = WithDictionary(options, options, strategy')
    /\ table' = parseMacroText(dialog'.macros)
    /\ ui' = "file"
    /\ UNCHANGED <<up, telemetry, registry, raw, macroFile, failed, boots>>
Click(control) ==
    /\ Change /\ dialog.open
    /\ \E v \in Values[control], text \in Texts \cup {dialog.macros} :
         dialog' = [dialog EXCEPT ![control] = v, !.macros = text]
    /\ options' = [options EXCEPT !.method = dialog'.method, !.quick = dialog'.quick,
                                  !.modern = dialog'.modern]
    /\ profile' = dialog'.profile /\ hybrid' = FlagsOf(dialog')
    /\ strategy' = resolveStrategy(profile', hybrid', telemetry)
    /\ engine' = WithDictionary(options', options', strategy')
    /\ table' = parseMacroText(dialog'.macros)
    /\ ui' = "file"
    /\ UNCHANGED <<up, telemetry, registry, raw, macroFile, failed, boots>>

\* writeMacrosFile, outside the lock: it may fail before or after the old
\* content was dropped; then the editor's next text is the old one.
\* Mutant: what was written is not remembered as the text the editor opens with.
BadWriteMacros ==
    /\ up /\ ui = "file"
    /\ \/ macroFile' = dialog.macros /\ failed' = FALSE
       \/ macroFile' \in {macroFile, <<>>} /\ failed' = TRUE
    /\ ui' = "save"
    /\ UNCHANGED <<up, options, engine, profile, hybrid, strategy, telemetry, registry,
                   table, raw, dialog, choices, boots>>
WriteMacros ==
    /\ up /\ ui = "file"
    /\ \/ macroFile' = dialog.macros /\ raw' = dialog.macros /\ failed' = FALSE
       \/ macroFile' \in {macroFile, <<>>} /\ failed' = TRUE /\ UNCHANGED raw
    /\ ui' = "save"
    /\ UNCHANGED <<up, options, engine, profile, hybrid, strategy, telemetry, registry,
                   table, dialog, choices, boots>>

Persisted(o, p, h) == [method |-> o.method, quick |-> o.quick, modern |-> o.modern,
                       dict |-> o.dict, digits |-> o.digits, profile |-> IndexOf(p),
                       hybrid |-> h, migration |-> 2]

saveSettings ==
    /\ up /\ ui = "save"
    /\ registry' = Persisted(options, profile, hybrid)
    /\ ui' = "idle"
    /\ UNCHANGED <<up, options, engine, profile, hybrid, strategy, telemetry,
                   table, raw, macroFile, dialog, failed, choices, boots>>

\* The tray menu chooses an input method; the dialog is not told.
\* Mutant: the tray's choice is not saved.
BadTrayMethod ==
    /\ Change
    /\ \E m \in Values.method : options' = [options EXCEPT !.method = m]
    /\ engine' = options'
    /\ UNCHANGED <<up, ui, profile, hybrid, strategy, telemetry, registry, table, raw, macroFile,
                   dialog, failed, boots>>
TrayMethod ==
    /\ Change
    /\ \E m \in Values.method : options' = [options EXCEPT !.method = m]
    /\ engine' = options'
    /\ ui' = "save"
    /\ UNCHANGED <<up, profile, hybrid, strategy, telemetry, registry, table, raw, macroFile,
                   dialog, failed, boots>>

\* "Turn off" on the notification about Telex quick consonants; the dialog is told.
TurnOffQuickTelex ==
    /\ Change /\ options.quick
    /\ options' = [options EXCEPT !.quick = FALSE]
    /\ engine' = options'
    /\ dialog' = IF dialog.open THEN settingsToControls(options', profile, hybrid) ELSE dialog
    /\ ui' = "save"
    /\ UNCHANGED <<up, profile, hybrid, strategy, telemetry, registry, table, raw, macroFile,
                   failed, boots>>

\* F9, on the hook thread: the engine's style flips, and nobody else's copy of it.
switchToneStyle ==
    /\ up /\ choices < MaxChoices
    /\ choices' = choices + 1
    /\ engine' = [engine EXCEPT !.modern = ~@]
    /\ UNCHANGED <<up, ui, options, profile, hybrid, strategy, telemetry, registry, table,
                   raw, macroFile, dialog, failed, boots>>

\* The 1 s tick: only Adaptive is resolved again, and only a change is applied.
AdaptiveTick ==
    /\ Ready
    /\ \E t \in {{}, {"slow"}, {"timeouts"}, {"timeouts", "idle"}} :
         /\ t # telemetry
         /\ telemetry' = t
    /\ strategy' = IF profile = "Adaptive" THEN resolveStrategy(profile, hybrid, telemetry')
                  ELSE strategy
    /\ engine' = IF strategy' = strategy THEN engine ELSE WithDictionary(engine, options, strategy')
    /\ UNCHANGED <<up, ui, options, profile, hybrid, registry, table, raw, macroFile, dialog,
                   failed, choices, boots>>

\* The process dies; the registry and the file stay.
Killed ==
    /\ up
    /\ up' = FALSE /\ ui' = "idle" /\ dialog' = Closed /\ failed' = FALSE
    /\ UNCHANGED <<options, engine, profile, hybrid, strategy, telemetry, registry, table,
                   raw, macroFile, choices, boots>>

SettingsNext ==
    \/ Boot \/ openSettingsDialog \/ CloseDialog \/ WriteMacros \/ saveSettings
    \/ TrayMethod \/ TurnOffQuickTelex \/ switchToneStyle \/ AdaptiveTick \/ Killed
    \/ \E c \in DOMAIN Values : Click(c)

SettingsSpec == SettingsInit /\ [][SettingsNext]_settingsVars

-----------------------------------------------------------------------------
(* Properties                                                              *)

\* The engine composes with the options the user chose; only the tone style
\* may differ, by F9 (g.options, TextEngine::setOptions under engineMtx).
EngineHasOptions ==
    up => /\ engine.method = options.method /\ engine.quick = options.quick
          /\ engine.digits = options.digits

\* Once a change is handled, a restart - clean or not - finds every choice again.
SavedIsRunning ==
    Ready => /\ Loaded(registry) = options
             /\ profileFromIndex(registry.profile) = profile /\ registry.hybrid = hybrid

\* After a write that succeeded - the first one, or one that repairs a failure -
\* the table, the file and the text the editor will show agree
\* (settingsFromControls, writeMacrosFile).
MacrosAgree ==
    (Ready /\ ~failed) => table = parseMacroText(macroFile) /\ raw = macroFile

\* Every profile but Adaptive depends on nothing that changes behind its back.
StrategyIsCurrent ==
    (up /\ profile # "Adaptive") => strategy = resolveStrategy(profile, hybrid, telemetry)

\* What a user chose anywhere is in force, saved, and found again at the next
\* start: engine, registry, macro file and strategy follow the copy in memory.
SettingsSound == EngineHasOptions /\ SavedIsRunning /\ MacrosAgree /\ StrategyIsCurrent

\* "The dialog can only CHANGE an option through a real control" (dlgChecked):
\* a click changes what its control stands for, and nothing else.
OnlyTheClicked ==
    [][\A c \in DOMAIN Values : Click(c) =>
         /\ c # "method" => options'.method = options.method
         /\ c # "quick" => options'.quick = options.quick
         /\ hybrid \ {"lowcpu", "correct"} \subseteq hybrid']_settingsVars

\* The profile "only ever turns it ON": while the strategy wants the dictionary
\* check, the engine has it (applyPerfStrategy).
DictionaryHeld == (up /\ strategy.dictionary) => engine.dict

====
