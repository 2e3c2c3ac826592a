---- MODULE LiveEffects ----
(***************************************************************************)
(* Live effects: the text a user types is shown in another case, at places *)
(* chosen by a hash of the position, while the engine keeps the plain      *)
(* text.  UI publishes one atomic word; the hook adopts it before a key    *)
(* (sync), and reads its master bit again when it decides the key, under   *)
(* the engine's lock.  A correction erases n characters and writes n' in   *)
(* their place: the cursor goes back by n, so the same letter gets the     *)
(* same case.                                                              *)
(*                                                                         *)
(* The engine is what the rest of the hook sees of it: the pending word,   *)
(* the text before it that Backspace can recall, and per key an edit       *)
(* (erase, text) or none.  A style is the set of positions whose case is   *)
(* toggled; glyph tables and the hash are abstracted.                      *)
(***************************************************************************)
EXTENDS Naturals, Sequences, SequencesExt

CONSTANTS
    Styles,       \* the styles the dialog offers: sets of positions
    MaxShown,     \* bound: letters on the screen
    MaxChanges,   \* bound: publications by the UI
    MaxMoves      \* bound: changes of focus, mouse buttons and caret edits

VARIABLES
    published,    \* published_: master bit and style
    ui,           \* "idle"; "pending": configured, flag not yet set; "toggle"
    applied,      \* applied_/active_: the configuration the hook adopted
    cursor,       \* position_
    pending,      \* engineResyncPending
    unicode,      \* codeTableCache is Unicode
    engineOn,     \* engineEnabled
    focus,        \* who has the keyboard: "app", "own" dialog, its "macro" editor
    word, before, \* the engine's word, and the text before it it may recall
    screen,       \* what was written at the caret since it last moved
    jumped,       \* ghost: the caret moved and the engine kept `before`
    key,          \* the key between sync and decision, or "none"
    changes, moves

liveVars == <<published, ui, applied, cursor, pending, unicode, engineOn, focus,
              word, before, screen, jumped, key, changes, moves>>

-----------------------------------------------------------------------------
(* Case of a code point (ChaosEngine).                                     *)

VnFirst == 7840   \* U+1EA0
VnLast == 7929    \* U+1EF9

toUpperVn(c) ==
    CASE c \in 97..122 -> c - 32
      [] c \in VnFirst..VnLast -> IF (c - VnFirst) % 2 = 1 THEN c - 1 ELSE c
      [] c = 255 -> 376
      [] c \in (224..254) \ {247} -> c - 32
      [] c = 305 -> 73
      [] c = 383 -> 83
      [] c \in (256..382) \ {305, 312, 329} -> IF c % 2 = 1 THEN c - 1 ELSE c
      [] c \in {417, 419, 421, 424, 429, 432} -> c - 1
      [] OTHER -> c

toLowerVn(c) ==
    CASE c \in 65..90 -> c + 32
      [] c \in VnFirst..VnLast -> IF (c - VnFirst) % 2 = 0 THEN c + 1 ELSE c
      [] c = 376 -> 255
      [] c \in (192..222) \ {215} -> c + 32
      [] c = 304 -> 105
      [] c \in (256..383) \ {304, 312, 329, 376} -> IF c % 2 = 0 THEN c + 1 ELSE c
      [] c \in {416, 418, 420, 423, 428, 431} -> c + 1
      [] OTHER -> c

toggleCaseVn(c) == IF toLowerVn(c) # c THEN toLowerVn(c) ELSE toUpperVn(c)

-----------------------------------------------------------------------------
(* The effect of a configuration on text written at a position.            *)

map(c, position) ==
    IF applied.on /\ position \in applied.style THEN toggleCaseVn(c) ELSE c

styled(text, from) == [i \in 1..Len(text) |-> map(text[i], from + i - 1)]

Back(position, n) == IF n > position THEN 0 ELSE position - n

\* Mutant: a rewrite continues at the cursor instead of going back to the letters it replaces.
BadRewound(position, erase) == position
Rewound(position, erase) == Back(position, erase)

A == 97       \* the letter 'a' ...
J == 106      \* ... the key that puts a dot under it ...
Dotted == 7841 \* ... and the letter that results
Blank == 32

-----------------------------------------------------------------------------
(* The engine: what a key does to the word, and the edit it asks for.      *)

NoEdit == [on |-> FALSE, erase |-> 0, text |-> <<>>]
\* From position i on, the word on the screen is replaced by `text`.
EditFrom(i, text) == [on |-> TRUE, erase |-> Len(word) - i + 1, text |-> text]
LastOf(c) == CHOOSE i \in 1..Len(word) : word[i] = c /\ \A k \in (i+1)..Len(word) : word[k] # c
Has(c) == \E i \in 1..Len(word) : word[i] = c

\* 'j' puts the dot, takes it back (and is typed again), or is a letter.
Composed(c) ==
    IF c = J /\ Has(Dotted)
    THEN LET bare == [word EXCEPT ![LastOf(Dotted)] = A] \o <<J>>
         IN [word |-> bare, edit |-> EditFrom(LastOf(Dotted), SubSeq(bare, LastOf(Dotted), Len(bare)))]
    ELSE IF c = J /\ Has(A)
    THEN LET marked == [word EXCEPT ![LastOf(A)] = Dotted]
         IN [word |-> marked, edit |-> EditFrom(LastOf(A), SubSeq(marked, LastOf(A), Len(word)))]
    ELSE [word |-> Append(word, c), edit |-> NoEdit]

\* switchToneStyle: the dot moves between two neighbouring vowels.
Converts(i) == /\ i \in 1..(Len(word) - 1)
               /\ {word[i], word[i + 1]} = {A, Dotted}
Swapped(i) == [word EXCEPT ![i] = word[i + 1], ![i + 1] = word[i]]

\* What Backspace leaves: a letter less, or the word before the blank, recalled.
WordsBefore(text) ==
    LET blanks == {i \in 1..Len(text) : text[i] = Blank}
        start == IF blanks = {} THEN 0
                 ELSE CHOOSE i \in blanks : \A k \in blanks : k <= i
    IN [word |-> SubSeq(text, start + 1, Len(text)), before |-> SubSeq(text, 1, start)]
AfterBack ==
    IF word # <<>> THEN [word |-> Front(word), before |-> before]
    ELSE IF before = <<>> THEN [word |-> word, before |-> before]
    ELSE WordsBefore(Front(before))

Fresh == /\ word' = <<>>
         /\ before' = <<>>
         /\ jumped' = FALSE

-----------------------------------------------------------------------------

LiveInit ==
    /\ published = [on |-> FALSE, style |-> {}] /\ applied = published
    /\ ui = "idle" /\ cursor = 0 /\ pending = FALSE
    /\ unicode = TRUE /\ engineOn = TRUE /\ focus = "app"
    /\ word = <<>> /\ before = <<>> /\ screen = <<>> /\ jumped = FALSE
    /\ key = "none" /\ changes = 0 /\ moves = 0

(* The UI thread.                                                          *)

configure ==
    /\ ui = "idle" /\ changes < MaxChanges
    /\ \E on \in BOOLEAN, style \in Styles : published' = [on |-> on, style |-> style]
    /\ ui' = "pending" /\ changes' = changes + 1
    /\ UNCHANGED <<applied, cursor, pending, unicode, engineOn, focus, word, before,
                   screen, jumped, key, moves>>

ConfigureEnds ==
    /\ ui = "pending"
    /\ ui' = "idle" /\ pending' = TRUE
    /\ UNCHANGED <<published, applied, cursor, unicode, engineOn, focus, word, before,
                   screen, jumped, key, changes, moves>>

\* Settings Apply: a new code table, and the engine forgets the word, under one lock.
ApplySettings ==
    /\ ui = "idle" /\ changes < MaxChanges
    /\ unicode' = ~unicode /\ changes' = changes + 1
    /\ Fresh
    /\ UNCHANGED <<published, ui, applied, cursor, pending, engineOn, focus, screen, key, moves>>

\* The tray switch: the pending word is dropped under the lock, then the flag is stored.
ToggleDropsWord ==
    /\ ui = "idle" /\ changes < MaxChanges
    /\ ui' = "toggle" /\ changes' = changes + 1
    /\ word' = <<>> /\ jumped' = (before # <<>>)
    /\ UNCHANGED <<published, applied, cursor, pending, unicode, engineOn, focus, before,
                   screen, key, moves>>

ToggleStores ==
    /\ ui = "toggle"
    /\ ui' = "idle" /\ engineOn' = ~engineOn
    /\ UNCHANGED <<published, applied, cursor, pending, unicode, focus, word, before,
                   screen, jumped, key, changes, moves>>

-----------------------------------------------------------------------------
(* The hook.  Every event first adopts what the UI published.              *)

Adopts == published # applied
sync == applied' = published
PendingAfterSync == pending \/ Adopts

\* The program's own windows get their keys as they are, all but the macro editor.
ownWindowHasFocus == focus \in {"own", "macro"}
focusIsMacroEditor == focus = "macro"
Bypassed == ownWindowHasFocus /\ ~focusIsMacroEditor

\* A key the program's own window gets, or the panic key, or one with the engine off.
PassedBy ==
    /\ key = "none" /\ (Bypassed \/ ~engineOn)
    /\ sync
    /\ pending' = IF engineOn THEN TRUE ELSE PendingAfterSync
    /\ cursor' = IF engineOn \/ Adopts THEN 0 ELSE cursor
    /\ screen' = IF Bypassed THEN screen ELSE <<>>
    /\ UNCHANGED <<published, ui, unicode, engineOn, focus, word, before, jumped, key,
                   changes, moves>>

Panic ==
    /\ key = "none" /\ published.on
    /\ applied' = published
    /\ cursor' = IF Adopts THEN 0 ELSE cursor
    /\ published' = [published EXCEPT !.on = FALSE]
    /\ pending' = TRUE
    /\ UNCHANGED <<ui, unicode, engineOn, focus, word, before, screen, jumped, key, changes, moves>>

Typed == {"a", "j", "space", "back", "break", "F9"}

\* A key begins: sync, then the engine is made fresh if anybody asked for it.
\* Mutant: the engine keeps its word when the configuration changed under it.
BadKeyBegins(k) ==
    /\ key = "none" /\ ~Bypassed /\ engineOn
    /\ sync
    /\ cursor' = IF PendingAfterSync THEN 0 ELSE cursor
    /\ pending' = FALSE
    /\ UNCHANGED <<word, before, jumped>>
    /\ key' = k
    /\ UNCHANGED <<published, ui, unicode, engineOn, focus, screen, changes, moves>>
KeyBegins(k) ==
    /\ key = "none" /\ ~Bypassed /\ engineOn
    /\ sync
    /\ pending' = FALSE
    /\ IF PendingAfterSync THEN Fresh /\ cursor' = 0
                           ELSE UNCHANGED <<word, before, jumped, cursor>>
    /\ key' = k
    /\ UNCHANGED <<published, ui, unicode, engineOn, focus, screen, changes, moves>>

Shown(n, text) == SubSeq(screen, 1, Back(Len(screen), n)) \o text

\* planOutput and the delivery of what it decides: letters are written `out`,
\* after `erase` of them were taken back.
Deliver(live, erase, text) ==
    IF live
    THEN /\ cursor' = Rewound(cursor, erase) + Len(text)
         /\ screen' = Shown(erase, styled(text, Rewound(cursor, erase)))
    ELSE /\ screen' = Shown(erase, text)
         /\ UNCHANGED cursor

Live == published.on /\ unicode
\* The decision's: not in the macro editor.  F9 has no such exception.
LiveOutput == ~focusIsMacroEditor /\ Live

\* liveGateBlocker: what the dialog, the tray and the reports say of an application.
gateActive == engineOn /\ published.on /\ unicode

\* Mutant: a Backspace that passes through leaves the cursor where it was.
BadBackspaced(live) == cursor
Backspaced(live) == IF live THEN Back(cursor, 1) ELSE cursor

Decide ==
    \/ /\ key \in {"a", "j"} /\ Len(screen) < MaxShown
       /\ LET c == IF key = "a" THEN A ELSE J
              r == Composed(c)
          IN /\ IF r.edit.on THEN Deliver(LiveOutput, r.edit.erase, r.edit.text)
                             ELSE Deliver(LiveOutput, 0, <<c>>)
             /\ word' = r.word
       /\ UNCHANGED <<before, jumped>>
    \/ /\ key = "space" /\ Len(screen) < MaxShown
       /\ before' = before \o word \o <<Blank>> /\ word' = <<>>
       /\ Deliver(LiveOutput, 0, <<Blank>>)
       /\ UNCHANGED jumped
    \/ /\ key = "back"
       /\ word' = AfterBack.word /\ before' = AfterBack.before
       /\ cursor' = Backspaced(LiveOutput)
       /\ screen' = Shown(1, <<>>)
       /\ UNCHANGED jumped
    \/ /\ key = "break"
       /\ Fresh /\ screen' = <<>>
       /\ cursor' = IF LiveOutput THEN 0 ELSE cursor
    \/ /\ key = "F9"
       /\ \/ \E i \in 1..Len(word) :
               /\ Converts(i)
               /\ word' = Swapped(i)
               /\ Deliver(Live, Len(word) - i + 1, SubSeq(Swapped(i), i, Len(word)))
          \/ /\ \A i \in 1..Len(word) : ~Converts(i)
             /\ UNCHANGED <<word, screen, cursor>>
       /\ UNCHANGED <<before, jumped>>

KeyDecides ==
    /\ key # "none" /\ engineOn
    /\ Decide
    /\ key' = "none"
    /\ UNCHANGED <<published, ui, applied, pending, unicode, engineOn, focus, changes, moves>>

\* Switched off mid-stroke: the key passes through to the application.
KeyPasses ==
    /\ key # "none" /\ ~engineOn
    /\ key' = "none" /\ screen' = <<>>
    /\ UNCHANGED <<published, ui, applied, cursor, pending, unicode, engineOn, focus, word,
                   before, jumped, changes, moves>>

\* A foreground change: another document, another window.
Foreground(to) ==
    /\ key = "none" /\ moves < MaxMoves
    /\ sync
    /\ pending' = IF engineOn THEN FALSE ELSE PendingAfterSync
    /\ IF engineOn
       THEN Fresh /\ cursor' = IF published.on \/ PendingAfterSync THEN 0 ELSE cursor
       ELSE UNCHANGED <<word, before, jumped>> /\ cursor' = IF Adopts THEN 0 ELSE cursor
    /\ focus' = to /\ screen' = <<>> /\ moves' = moves + 1
    /\ UNCHANGED <<published, ui, unicode, engineOn, key, changes>>

\* A mouse button: inside the dialog it moves between the macro editor and the rest.
Mouse(to) ==
    /\ key = "none" /\ moves < MaxMoves /\ (to = "app" <=> focus = "app")
    /\ sync
    /\ pending' = IF engineOn THEN FALSE ELSE PendingAfterSync
    /\ IF engineOn
       THEN Fresh /\ cursor' = IF published.on \/ PendingAfterSync THEN 0 ELSE cursor
       ELSE UNCHANGED <<word, before, jumped>> /\ cursor' = IF Adopts THEN 0 ELSE cursor
    /\ focus' = to /\ screen' = <<>> /\ moves' = moves + 1
    /\ UNCHANGED <<published, ui, unicode, engineOn, key, changes>>

\* With effects on, a key that moves the caret or edits on its own ends the word;
\* the engine keeps the text before it.
CaretEdit ==
    /\ key = "none" /\ moves < MaxMoves /\ ~Bypassed /\ engineOn /\ published.on
    /\ sync
    /\ pending' = FALSE
    /\ word' = <<>> /\ before' = IF PendingAfterSync THEN <<>> ELSE before
    /\ jumped' = (before' # <<>>)
    /\ cursor' = 0 /\ screen' = <<>> /\ moves' = moves + 1
    /\ UNCHANGED <<published, ui, unicode, engineOn, focus, key, changes>>

LiveNext ==
    \/ configure \/ ConfigureEnds \/ ApplySettings \/ ToggleDropsWord \/ ToggleStores
    \/ PassedBy \/ Panic \/ KeyDecides \/ KeyPasses \/ CaretEdit
    \/ \E k \in Typed : KeyBegins(k)
    \/ \E to \in {"app", "own", "macro"} : Foreground(to) \/ Mouse(to)

LiveSpec == LiveInit /\ [][LiveNext]_liveVars

-----------------------------------------------------------------------------
(* Properties                                                              *)

\* Nothing is waiting to be adopted, and no key is being decided.
Settled == published = applied /\ ~pending /\ ui = "idle" /\ key = "none"

EndsWith(text, tail) ==
    /\ Len(tail) <= Len(text)
    /\ SubSeq(text, Len(text) - Len(tail) + 1, Len(text)) = tail

\* What the engine holds is what stands before the caret, each letter in the
\* case its own position gives while the gate is said to be open: so the number of characters the next correction
\* takes back, and the letters it writes again, are right.
WordOnScreen ==
    LET styleIt == gateActive /\ ~ownWindowHasFocus
        at == Back(cursor, Len(word))
    IN EndsWith(screen, IF styleIt THEN styled(word, at) ELSE word)

\* In an application, while the configuration is not changing, the pending word
\* stands on the screen as it is styled - as long as no caret edit left the
\* engine the text from before it (onHookEventImpl, LiveEffects::rewrite).
StyledAsTyped == (Settled /\ focus = "app" /\ engineOn /\ ~jumped) => WordOnScreen

\* The same after a caret edit: the comment at the foreground handler says
\* that a new context returns "every word-scoped field" to the fresh state.
CaretEditForgets == (Settled /\ focus = "app" /\ engineOn) => WordOnScreen

\* Text in the macro editor is never styled (comment in onHookEventImpl).
MacroEditorIsClean == (Settled /\ focus = "macro" /\ engineOn) => WordOnScreen

====
