---------------------------- MODULE TextSession -----------------------------
(***************************************************************************)
(* The typing session of TextEngine (src/src/core/TextEngine.cpp) and the  *)
(* text in front of the caret: what a key does to the word buffer, the     *)
(* history behind it and the document, through the hook's consumer in      *)
(* src/src/app/main.cpp.                                                   *)
(*                                                                         *)
(* The orthography is cut to three Telex letters that meet every branch of *)
(* the bookkeeping: "i" a vowel, "t" a consonant that may close a          *)
(* syllable, "s" a consonant that cannot, and the key of the acute mark.   *)
(* Options are the defaults (spelling check, restore, repair and old mark  *)
(* placement on, dictionary and quick modes off), no macro matches.        *)
(***************************************************************************)
EXTENDS Integers, SequencesExt

CONSTANTS
  Letters,      \* keys pressed, of {"i", "s", "t"}
  MaxBuff,      \* kMaxBuff, 32 in the code
  MaxHistory,   \* HistoryRing::kMaxHistory, 64 in the code
  MaxLongWord,  \* kMaxLongWord, 2048 in the code
  MaxRead,      \* ReadBeforeCaretSession::kMaxRead, 64 in the code
  Elsewhere,    \* what may stand before the caret where a jump puts it
  MaxText,      \* bound: letters are typed into a text shorter than this
  MaxJumps      \* bound: clicks, caret keys, Enter and foreground changes

Acute == "i'"
Chars == {"i", "s", "t", Acute, " ", ".", "\n"}

ASSUME SessionAssumption ==
  /\ Letters \subseteq {"i", "s", "t"}
  /\ MaxBuff \in Nat \ {0} /\ MaxHistory \in Nat \ {0}
  /\ MaxLongWord \in Nat /\ MaxRead \in Nat
  /\ Elsewhere \subseteq Seq(Chars)
  /\ MaxText \in Nat /\ MaxJumps \in Nat

VARIABLES
  ses,        \* what startNewSession resets: the word and what goes with it
  special,    \* specialChar_: punctuation typed since the last word
  spaces,     \* spaceCount_
  history,    \* typingStates_: entries of letters, of blanks or of punctuation
  account,    \* visibleAccount_
  due,        \* the text before the caret once every decided key has landed
  doc,        \* the text before the caret as the application shows it
  resyncs,    \* Resync items in the output ring
  jumps,      \* counter for the bound
  astray      \* history: the engine was led to another word than the screen's

vars == <<ses, special, spaces, history, account, due, doc, resyncs, jumps, astray>>

(***************************************************************************)
(* Spelling and the place of the mark, for these letters.                  *)
(***************************************************************************)
Most(S) == Max({0} \cup S)
Newest(n, s) == IF Len(s) > n THEN SubSeq(s, Len(s) - n + 1, Len(s)) ELSE s
Older(n, s) == SubSeq(s, 1, Len(s) - n)
IsVowel(c) == c \in {"i", Acute}
HasMark(w) == \E p \in DOMAIN w : w[p] = Acute

Vocalic(w) == {p \in DOMAIN w : IsVowel(w[p])}
Syllable(w, V, most) ==
  IF V = {} THEN Len(w) <= 1
  ELSE /\ Min(V) <= 2 /\ V = Min(V)..Max(V) /\ Cardinality(V) <= most
       /\ SubSeq(w, Max(V) + 1, Len(w)) \in {<<>>, <<"t">>}

\* checkSpelling: a consonant, up to three vowels (one when the whole word
\* is judged, for "ii" is in no vowel table), and "t" at most behind them.
Valid(w, force) == Syllable(w, Vocalic(w), IF force THEN 1 ELSE 3)

\* findAndCalculateVowel: the last run of vowels.
LastVowel(w) == Most({p \in DOMAIN w : IsVowel(w[p])})
FirstVowel(w) == 1 + Most({p \in 1..LastVowel(w) : ~IsVowel(w[p])})

\* handleOldMark: the vowel that carries the mark.
Place(w) == IF LastVowel(w) - FirstVowel(w) = 2 THEN FirstVowel(w) + 1
                                                ELSE FirstVowel(w)

\* The tables of handleMainKey and checkCorrectVowel: the word ends in a
\* single vowel, or in one and "t".
Takes(w) ==
  LET p == LastVowel(w)
  IN  /\ p > 0 /\ p = FirstVowel(w)
      /\ SubSeq(w, p + 1, Len(w)) \in {<<>>, <<"t">>}

\* checkGrammar: the mark moves to its place in the last run.
Repaired(s) ==
  LET w == s.word
      wrong == {p \in FirstVowel(w)..LastVowel(w) : w[p] = Acute} \ {Place(w)}
  IN  IF s.composed /\ Len(w) \in 2..MaxBuff - 1 /\ wrong # {}
        THEN [s EXCEPT !.word = [p \in DOMAIN w |->
                 IF p = Place(w) THEN Acute
                 ELSE IF p \in wrong THEN "i" ELSE w[p]]]
        ELSE s

(***************************************************************************)
(* The word buffer and the history.                                        *)
(***************************************************************************)
\* keys: keyStates_; overflow: longWordHelper_; disabled: tempDisableKey_;
\* composed: wordHasTransform_.
NewSession == [word |-> <<>>, overflow |-> <<>>, keys |-> <<>>,
               disabled |-> FALSE, composed |-> FALSE]

\* Mutant: the oldest key is not shifted out of a full buffer.
BadPressed(s, c) == [s EXCEPT !.keys = Append(@, c)]

\* insertState
Pressed(s, c) == [s EXCEPT !.keys = Newest(MaxBuff, Append(@, c))]

\* insertKey: a full buffer gives its oldest letter to the overflow, if that
\* has room.
Full(s) == Len(s.word) = MaxBuff
Inserted(s, c) ==
  LET w == Newest(MaxBuff, Append(s.word, c))
  IN  [s EXCEPT !.word = w,
                !.overflow = IF Full(s) /\ Len(@) < MaxLongWord
                               THEN Append(@, s.word[1]) ELSE @,
                !.disabled = ~Valid(w, FALSE)]

\* pushTypingState, in pieces of MaxBuff; the ring forgets the oldest.
PushAll(h, text) ==
  LET pieces == (Len(text) + MaxBuff - 1) \div MaxBuff
      piece(k) == SubSeq(text, (k - 1) * MaxBuff + 1,
                         IF k = pieces THEN Len(text) ELSE k * MaxBuff)
  IN  IF text = <<>> THEN h
      ELSE Newest(MaxHistory, h \o [k \in 1..pieces |-> piece(k)])

Blanks(n) == [k \in 1..n |-> " "]

\* Mutant: what ran over the buffer is saved behind the rest of the word.
BadWithWord(h, s) ==
  IF s.word = <<>> THEN h ELSE PushAll(PushAll(h, s.word), s.overflow)

\* saveWord
WithWord(h, s) ==
  IF s.word = <<>> THEN h ELSE PushAll(PushAll(h, s.overflow), s.word)
Saved(s) == IF s.word = <<>> THEN s ELSE [s EXCEPT !.overflow = <<>>]

\* At the end of a word: checkSpelling(true), then checkRestoreIfWrongSpelling
\* takes the word off the screen and types its keys.
Judged(s) == [s EXCEPT !.disabled = @ \/ ~Valid(s.word, TRUE)]
Restores(s) == s.disabled /\ HasMark(s.word)
Raw(s) == [s EXCEPT !.word = s.keys]

(***************************************************************************)
(* The document.  A key is decided when no other is on its way to the      *)
(* application: the barrier of EditPipeline, taken to hold here.           *)
(***************************************************************************)
Ready == doc = due

\* Between decision and landing only a Resync looks at the document.
OnItsWay == doc' = IF resyncs' = 0 THEN due' ELSE doc

\* The bound on the text: a blank may follow the last letter, and after a jump
\* two characters less may be typed, which a jump leaves room for.
Room(n) == Len(due) + 2 * jumps < n /\ account < n
CountJump == Room(MaxText - 1) /\ jumps < MaxJumps /\ jumps' = jumps + 1

\* The tail of process(): the clamp, and the edit counted.
Clamp(del) == IF del > account THEN account ELSE del
Erased(n) == SubSeq(due, 1, IF n > Len(due) THEN 0 ELSE Len(due) - n)
\* Mutant: the characters an edit inserts are not counted, only typed ones.
BadRetype(del, ins) ==
  /\ due' = Erased(Clamp(del)) \o ins
  /\ account' = IF del = 0 THEN account + Len(ins) ELSE account - Clamp(del)

Retype(del, ins) ==
  /\ due' = Erased(Clamp(del)) \o ins
  /\ account' = account - Clamp(del) + Len(ins)
Less(n) == IF n = 0 THEN 0 ELSE n - 1

EngineIsEmpty ==
  /\ ses.word = <<>> /\ ses.overflow = <<>> /\ ses.keys = <<>> /\ ~ses.disabled
  /\ special = <<>> /\ spaces = 0 /\ history = <<>>
Stray(cause) == astray' = ((astray \/ cause) /\ ~EngineIsEmpty')

Init ==
  /\ ses = NewSession /\ special = <<>> /\ spaces = 0 /\ history = <<>>
  /\ account = 0 /\ due = <<>> /\ doc = <<>>
  /\ resyncs = 0 /\ jumps = 0 /\ astray = FALSE

(***************************************************************************)
(* Letters: mainKeyBranch.                                                 *)
(***************************************************************************)
\* A letter behind blanks begins a session; blanks or punctuation before it
\* become history.
Struck(c) == Pressed(IF spaces > 0 THEN NewSession ELSE ses, c)
Marks(c) == c = "s" /\ ~Struck(c).disabled /\ Takes(Struck(c).word)

\* insertKey and the repair: the key goes through unless the mark moves.
Plain(c) ==
  LET s == Inserted(Struck(c), c)
      r == Repaired(s)
      from == IF r = s THEN Len(s.word) ELSE FirstVowel(s.word)
  IN  /\ ~Marks(c)
      /\ ses' = r
      /\ Retype(Len(s.word) - from, SubSeq(r.word, from, Len(r.word)))

\* insertMark
Mark(c) ==
  LET s == Struck(c)
      p == LastVowel(s.word)
      w == [s.word EXCEPT ![p] = Acute]
  IN  /\ Marks(c) /\ s.word[p] # Acute
      /\ ses' = [s EXCEPT !.word = w, !.composed = TRUE]
      /\ Retype(Len(w) - p + 1, SubSeq(w, p, Len(w)))

\* insertMark, the same mark again: it is taken off, the key typed as a letter.
Unmark(c) ==
  LET s == Struck(c)
      p == LastVowel(s.word)
      w == [s.word EXCEPT ![p] = "i"]
  IN  /\ Marks(c) /\ s.word[p] = Acute
      /\ ses' = [Inserted([s EXCEPT !.word = w, !.composed = TRUE], c)
                   EXCEPT !.keys = Front(@)]
      /\ Retype(Len(w) - p + 1, Append(SubSeq(w, p, Len(w)), c))

Letter(c) ==
  /\ Ready /\ Room(MaxText)
  /\ Plain(c) \/ Mark(c) \/ Unmark(c)
  /\ history' = PushAll(history, IF spaces > 0 THEN Blanks(spaces) ELSE special)
  /\ special' = <<>> /\ spaces' = 0
  /\ Stray(spaces = 0 /\ Full(ses) /\ Len(ses.overflow) >= MaxLongWord)
  /\ UNCHANGED <<resyncs, jumps>> /\ OnItsWay

(***************************************************************************)
(* The end of a word.                                                      *)
(***************************************************************************)
\* spaceBranch
Space ==
  LET s == Judged(ses)
      r == IF Restores(s) THEN Raw(s) ELSE s
  IN  /\ Ready /\ Room(MaxText + 1)
      /\ Retype(IF Restores(s) THEN Len(s.word) ELSE 0,
                IF Restores(s) THEN Append(s.keys, " ") ELSE <<" ">>)
      /\ spaces' = spaces + 1
      /\ special' = IF spaces = 0 THEN <<>> ELSE special
      /\ IF spaces = 0 /\ special = <<>>
           THEN history' = WithWord(history, r) /\ ses' = Saved(r)
           ELSE history' = (IF spaces = 0 THEN PushAll(history, special) ELSE history)
                /\ ses' = r
      /\ Stray(Restores(s) /\ s.keys = <<>> /\ s.overflow # <<>>)
      /\ UNCHANGED <<resyncs, jumps>> /\ OnItsWay

\* wordBreakBranch for ".", which leaves a restored word in the buffer.
Punct ==
  LET s == Judged(ses)
      r == IF Restores(s) THEN Raw(s) ELSE s
  IN  /\ Ready /\ Room(MaxText)
      /\ Retype(IF Restores(s) THEN Len(s.word) ELSE 0,
                IF Restores(s) THEN Append(s.keys, ".") ELSE <<".">>)
      /\ history' = IF spaces > 0 THEN PushAll(history, Blanks(spaces))
                                  ELSE WithWord(history, r)
      /\ spaces' = 0
      /\ special' = Append(special, ".")
      /\ ses' = IF ~Restores(s) THEN NewSession
                ELSE IF spaces > 0 THEN r ELSE Saved(r)
      /\ Stray(Restores(s))
      /\ UNCHANGED <<resyncs, jumps>> /\ OnItsWay

\* wordBreakBranch for a key or click without a character: punctuation and
\* history are dropped, the count of blanks is not; a restored word stays.
BreakWord ==
  LET s == Judged(ses)
  IN  /\ ses' = IF Restores(s) THEN Raw(s) ELSE NewSession
      /\ special' = <<>> /\ history' = <<>> /\ UNCHANGED spaces
      /\ Stray(Restores(s) \/ spaces > 0)

\* A break key whose word is restored is swallowed (unless nothing is left
\* to do); the edit is not counted.
RestoredOr(text) ==
  LET s == Judged(ses)
      del == Clamp(Len(s.word))
  IN  due' = IF Restores(s) /\ (del > 0 \/ s.keys # <<>>)
               THEN Erased(del) \o s.keys ELSE text

Enter ==
  /\ Ready /\ CountJump
  /\ BreakWord
  /\ RestoredOr(Append(due, "\n"))
  /\ account' = account + 1
  /\ UNCHANGED resyncs /\ OnItsWay

\* An arrow, Home, Delete...: a resync is queued (with a text service, ring
\* not full) before the key is decided.
CaretKey(text, queued) ==
  /\ Ready /\ CountJump
  /\ BreakWord
  /\ RestoredOr(text)
  /\ resyncs' = IF queued THEN resyncs + 1 ELSE resyncs
  /\ UNCHANGED account /\ OnItsWay

\* A click: the handler drops what process() answers.
Click(text, queued) ==
  /\ Ready /\ CountJump
  /\ BreakWord
  /\ due' = text /\ doc' = text
  /\ resyncs' = IF queued THEN resyncs + 1 ELSE resyncs
  /\ UNCHANGED account

\* ForegroundChanged: resetForNewContext.
Focus(text) ==
  /\ Ready /\ CountJump
  /\ ses' = NewSession /\ special' = <<>> /\ spaces' = 0 /\ history' = <<>>
  /\ account' = 0 /\ astray' = FALSE
  /\ due' = text /\ doc' = text
  /\ UNCHANGED resyncs

(***************************************************************************)
(* Backspace: backspaceBranch.                                             *)
(***************************************************************************)
\* Mutant: a recalled word is not taken for one that may carry a mark.
BadRecall(s) ==
  IF history = <<>>
    THEN ses' = s /\ special' = <<>> /\ spaces' = 0 /\ UNCHANGED history
    ELSE LET e == Last(history)
         IN  /\ history' = Front(history)
             /\ spaces' = IF e[1] = " " THEN Len(e) ELSE 0
             /\ special' = IF e[1] = "." THEN e ELSE <<>>
             /\ ses' = [s EXCEPT !.word = IF e[1] \in {" ", "."} THEN <<>> ELSE e,
                                 !.disabled = @ /\ e[1] # "."]

\* restoreLastTypingState
Recall(s) ==
  IF history = <<>>
    THEN ses' = s /\ special' = <<>> /\ spaces' = 0 /\ UNCHANGED history
    ELSE LET e == Last(history)
         IN  /\ history' = Front(history)
             /\ spaces' = IF e[1] = " " THEN Len(e) ELSE 0
             /\ special' = IF e[1] = "." THEN e ELSE <<>>
             /\ ses' = [s EXCEPT !.word = IF e[1] \in {" ", "."} THEN <<>> ELSE e,
                                 !.disabled = @ /\ e[1] # ".",
                                 !.composed = TRUE]

Passed == due' = Erased(1) /\ account' = Less(account)

EraseSpecial ==
  /\ special # <<>>
  /\ IF Len(special) = 1 THEN Recall(ses)
     ELSE special' = Front(special) /\ UNCHANGED <<ses, spaces, history>>
  /\ Passed

EraseSpace ==
  /\ special = <<>> /\ spaces > 0
  /\ IF spaces = 1 THEN Recall(ses)
     ELSE spaces' = spaces - 1 /\ UNCHANGED <<ses, special, history>>
  /\ Passed

\* The word without its last letter; the overflow gives one back.
Shortened(s) ==
  LET over == s.overflow
      w == (IF over = <<>> THEN <<>> ELSE <<Last(over)>>) \o Front(s.word)
  IN  [s EXCEPT !.word = w,
                !.overflow = IF over = <<>> THEN over ELSE Front(over),
                !.keys = IF @ = <<>> THEN @ ELSE Front(@),
                !.disabled = ~Valid(w, FALSE)]

\* Mutant: the session begun anew keeps the keys of the old one.
BadEraseLast ==
  /\ special = <<>> /\ spaces = 0
  /\ Len(ses.word) <= (IF ses.overflow = <<>> THEN 1 ELSE 0)
  /\ Recall([NewSession EXCEPT !.keys = ses.keys])
  /\ Passed

EraseLast ==
  /\ special = <<>> /\ spaces = 0
  /\ Len(ses.word) <= (IF ses.overflow = <<>> THEN 1 ELSE 0)
  /\ Recall(NewSession)
  /\ Passed

\* Mutant: the erased letter is counted twice in the repair.
BadEraseLetter ==
  LET s == Shortened(ses)
      r == Repaired(s)
      from == FirstVowel(s.word)
  IN  /\ special = <<>> /\ spaces = 0
      /\ Len(ses.word) > (IF ses.overflow = <<>> THEN 1 ELSE 0)
      /\ ses' = r
      /\ IF r = s THEN Passed
         ELSE /\ due' = Erased(Clamp(Len(s.word) - from + 3))
                          \o SubSeq(r.word, from, Len(r.word))
              /\ account' = Less(account)
      /\ UNCHANGED <<special, spaces, history>>

EraseLetter ==
  LET s == Shortened(ses)
      r == Repaired(s)
      from == FirstVowel(s.word)
  IN  /\ special = <<>> /\ spaces = 0
      /\ Len(ses.word) > (IF ses.overflow = <<>> THEN 1 ELSE 0)
      /\ ses' = r
      /\ IF r = s THEN Passed
         ELSE /\ due' = Erased(Clamp(Len(s.word) - from + 2))
                          \o SubSeq(r.word, from, Len(r.word))
              /\ account' = Less(account)
      /\ UNCHANGED <<special, spaces, history>>

Backspace ==
  /\ Ready
  /\ EraseSpecial \/ EraseSpace \/ EraseLast \/ EraseLetter
  /\ Stray(FALSE)
  /\ UNCHANGED <<resyncs, jumps>> /\ OnItsWay

(***************************************************************************)
(* The application takes the key; the consumer handles a Resync.           *)
(***************************************************************************)
Land ==
  /\ ~Ready /\ doc' = due
  /\ UNCHANGED <<ses, special, spaces, history, account, due, resyncs, jumps, astray>>

\* textBeforeCaret: of the characters read, the plain letters before the caret,
\* none when a composed one stands before them.
WordAtCaret ==
  LET read == Newest(MaxRead, doc)
      q == Most({p \in DOMAIN read : read[p] \notin {"i", "s", "t"}})
  IN  IF q > 0 /\ read[q] = Acute THEN <<>> ELSE SubSeq(read, q + 1, Len(read))

\* resumeFromText: the letters go into the buffer as they are.  History,
\* punctuation and blanks stay.
Resync ==
  /\ resyncs > 0 /\ resyncs' = resyncs - 1
  /\ IF WordAtCaret = <<>> THEN UNCHANGED <<ses, account, astray>>
     ELSE /\ ses' = [NewSession EXCEPT
                !.word = Newest(MaxBuff, WordAtCaret),
                !.overflow = Older(MaxBuff, WordAtCaret),
                !.keys = Newest(MaxBuff, WordAtCaret)]
          /\ account' = Len(WordAtCaret)
          /\ Stray(~Ready \/ history # <<>>)
  /\ UNCHANGED <<special, spaces, history, due, doc, jumps>>

Jump ==
  \E text \in Elsewhere :
    \/ Focus(text)
    \/ \E queued \in BOOLEAN : CaretKey(text, queued) \/ Click(text, queued)

Next ==
  \/ \E c \in Letters : Letter(c)
  \/ Space \/ Punct \/ Enter \/ Backspace
  \/ Jump
  \/ Land \/ Resync

Spec == Init /\ [][Next]_vars

-----------------------------------------------------------------------------
Words == Seq({"i", "s", "t", Acute})

\* The types of the session's state, and what bounds the buffers.
TypeOK ==
  /\ ses.word \in Words /\ Len(ses.word) <= MaxBuff
  /\ ses.overflow \in Words
  /\ ses.keys \in Seq({"i", "s", "t"}) /\ Len(ses.keys) <= MaxBuff
  /\ ses.disabled \in BOOLEAN /\ ses.composed \in BOOLEAN
  /\ special \in Seq({"."}) /\ spaces \in Nat
  /\ \A k \in DOMAIN history : history[k] # <<>> /\ Len(history[k]) <= MaxBuff
  /\ Len(history) <= MaxHistory
  /\ account \in Nat /\ due \in Seq(Chars) /\ doc \in Seq(Chars)
  /\ resyncs \in 0..MaxJumps /\ jumps \in 0..MaxJumps /\ astray \in BOOLEAN

\* What the engine takes the text before the caret to end in.
Believed ==
  FlattenSeq(history) \o
    (IF spaces > 0 THEN Blanks(spaces)
     ELSE IF special # <<>> THEN special ELSE ses.overflow \o ses.word)

\* The document ends in what the engine believes, through every edit,
\* overflow, forgotten entry and walk back, unless it was led astray: by a
\* word restored at a break (the session stays open), by blanks that survive
\* a break without a character, by a resync read while a key was on its
\* way or a word later, by a letter the overflow had no room for, or by a long
\* recalled word restored from no keys at all, whose overflow stays behind.
Mirror == ~astray => IsSuffix(Believed, due)

\* Except where a jump moves the caret, a key rewrites no text in front of
\* the present word: of what stands before it nothing is erased but the one
\* character of a Backspace.
EditsStayInWord ==
  [][((jumps' = jumps \/ Enter) /\ ~astray) =>
       LET own == Len(ses.overflow \o ses.word)
           kept == Len(due) - (IF own = 0 \/ spaces > 0 \/ special # <<>> THEN 1 ELSE own)
       IN  \A p \in 1..kept : p <= Len(due') /\ due'[p] = due[p]]_vars

\* The clamp on backspaceCount never cuts an edit of the present word short:
\* visibleAccount_ counts at least the word, whatever was restored, recalled
\* or adopted (an edit cut short would leave the old letters beside the new).
AccountCoversWord == (~astray /\ spaces = 0) => account >= Len(ses.word)

\* wordHasTransform_ lets the repair be skipped: a word (or its overflow) that
\* carries a mark never has it down, however the word got into the buffer.
RepairGateIsSound == HasMark(ses.overflow \o ses.word) => ses.composed

\* A word begins with no key of an earlier word, which a restore would type.
FreshWord == (~astray /\ ses.word = <<>> /\ spaces = 0) => ses.keys = <<>>

\* What the engine counts of the word is what it needs of it: the account that
\* bounds its deletions covers the word, a word that shows a mark is always
\* offered the repair, and no word begins with the keys of an earlier one, which
\* a restore would type (TextEngine.cpp, visibleAccount_, wordHasTransform_ and
\* keyStates_).
WordIsSound == AccountCoversWord /\ RepairGateIsSound /\ FreshWord

\* tests/test_settings_wiring.cpp:145: "restore ON: wrong spelling reverts to
\* raw keys".  A word has at least a key for each letter, so the space that
\* ends it always makes the text longer.
SpaceAddsText == [][Space => Len(due') > Len(due)]_vars
=============================================================================
