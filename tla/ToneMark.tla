------------------------------ MODULE ToneMark ------------------------------
(***************************************************************************)
(* How TextEngine composes one word: Telex keys that put a circumflex, a   *)
(* horn or a tone mark on letters already typed, spelling that switches    *)
(* them off, the repair behind every key, Backspace, a blank that Backspace*)
(* takes back, and F9, which changes the style of placing the mark.  Each  *)
(* key answers an edit: letters to erase, letters to write, and whether    *)
(* the key itself goes through.                                            *)
(*                                                                         *)
(* The tables are the rows of VietnameseTables.source.hpp over the letters *)
(* a o u i, n t g q h and s; options are the defaults.  The session around *)
(* the word is TextSession.                                                *)
(***************************************************************************)
EXTENDS Integers, SequencesExt

CONSTANTS
    Keys,       \* keys pressed: letters, and "s" "f" "w" "z"
    MaxWord,    \* bound: letters of a word
    MaxSwitches \* bound: presses of F9

VARIABLES
    st,         \* the engine: word (typingWord_), disabled (tempDisableKey_),
                \* composed (wordHasTransform_)
    modern,     \* useModernOrthography
    screen,     \* the word as the application shows it; not kept while astray
    astray,     \* ghost: an edit did not match what the engine changed
    front,      \* text in front of the word that visibleAccount_ also counts: "none",
                \* "whole", or "eaten": an edit erased of it
    behind,     \* the word a blank stands behind, as saved for recalling; or <<>>
    unplaced,   \* ghost: the last step changed the word and placed no mark
    switches    \* counter for the bound

toneVars == <<st, modern, screen, astray, front, behind, unplaced, switches>>

\* A letter: character, "^" or "w" (horn, breve), tone mark, standalone.
Bare(c) == [c |-> c, hat |-> "", mark |-> "", alone |-> FALSE]
\* composeCached, resolveChar: a standalone letter that lost its horn is still shown
\* with it.
Glyph(l) ==
    [c |-> l.c, mark |-> l.mark,
     hat |-> IF l.alone /\ l.hat = "" /\ l.mark = "" THEN "w" ELSE l.hat]
Hatted(l, hat) == [l EXCEPT !.hat = hat]
Toned(l, mark) == [l EXCEPT !.mark = mark]
\* The word with the letters at P changed.
Changed(w, P, New(_)) == [q \in DOMAIN w |-> IF q \in P THEN New(w[q]) ELSE w[q]]
IsVowel(c) == c \in {"a", "o", "u", "i"}
Empty == [word |-> <<>>, disabled |-> FALSE, composed |-> FALSE]

-----------------------------------------------------------------------------
(* The tables.                                                             *)

Words(S) == {<<c>> : c \in S}
\* kVowelForMark, kVowel: what a word ends with for a key to act on it.
MarkTails ==
    {<<"a", "n", "g">>, <<"a", "n">>, <<"a", "n", "h">>, <<"a", "u">>, <<"a", "t">>,
     <<"a", "i">>, <<"a", "o">>, <<"o", "o", "n", "g">>, <<"o", "n", "g">>,
     <<"o", "o", "n">>, <<"o", "o">>, <<"o", "n">>, <<"o", "i">>, <<"o", "t">>,
     <<"i", "n", "h">>, <<"i", "n">>, <<"i", "t">>, <<"i", "u">>, <<"i", "a">>,
     <<"u", "n", "g">>, <<"u", "i">>, <<"u", "o">>, <<"u", "t">>, <<"u", "u">>,
     <<"u", "a">>, <<"u", "n">>} \cup Words({"a", "o", "i", "u"})
HatTails ==
    [a |-> {<<"a", "n", "g">>, <<"a", "n">>, <<"a", "u">>, <<"a", "t">>, <<"a">>},
     o |-> {<<"o", "n", "g">>, <<"o", "n">>, <<"o", "i">>, <<"o", "t">>, <<"o">>},
     w |-> {<<"o", "n">>, <<"u", "o", "n", "g">>, <<"u", "o", "n">>, <<"u", "o", "i">>,
            <<"o", "i">>, <<"o", "a">>, <<"o", "t">>, <<"u", "n", "g">>, <<"a", "n", "g">>,
            <<"u", "n">>, <<"u", "a">>, <<"u", "i">>, <<"u", "t">>, <<"u", "u">>,
            <<"a", "t">>, <<"a", "n">>} \cup Words({"a", "o", "u"})]
\* kConsonantTable, kEndConsonantTable: what begins a row of the latter is one.
Leads == {<<"n", "g", "h">>, <<"t", "h">>, <<"g", "i">>, <<"n", "h">>, <<"n", "g">>,
          <<"g", "h">>} \cup Words({"g", "q", "t", "h", "n", "s"})
Ends == {<<"n", "h">>, <<"n", "g">>} \cup Words({"t", "n"})
\* kVowelCombine: the groups that may stand in a word, and before a consonant.
ClosedGroups ==
    {<<"o", "a">>, <<"o", "aw">>, <<"o", "o">>, <<"o^", "o^">>, <<"u", "a">>,
     <<"u", "aw">>, <<"u", "a^">>, <<"u", "o">>, <<"u", "o^">>, <<"uw", "ow">>,
     <<"u", "a", "o">>}
OpenTriples ==
    {<<"o", "a", "i">>, <<"o", "a", "o">>, <<"uw", "ow", "u">>, <<"uw", "ow", "i">>,
     <<"u", "o^", "i">>}
OpenGroups ==
    {<<"a", "i">>, <<"a", "o">>, <<"a", "u">>, <<"a^", "u">>, <<"i", "a">>, <<"i", "u">>,
     <<"o", "i">>, <<"o^", "i">>, <<"ow", "i">>, <<"uw", "a">>, <<"u", "i">>,
     <<"uw", "i">>, <<"u", "ow">>, <<"uw", "u">>} \cup OpenTriples
\* kDoubleWAllowed
WAfter == {<<"t", "h">>, <<"n", "h">>, <<"n", "g">>, <<"g", "i">>, <<"g", "h">>}

Chars(w) == [i \in DOMAIN w |-> w[i].c]
Codes(w, a, b) == [i \in 1..b - a + 1 |-> w[a + i - 1].c \o w[a + i - 1].hat]

-----------------------------------------------------------------------------
(* Spelling and vowels.                                                    *)

\* checkSpelling: a lead and up to three vowels, which begin behind from.
Lead(cs) == Max({0} \cup {k \in DOMAIN cs : SubSeq(cs, 1, k) \in Leads})
Onset(cs, lead) ==
    IF lead + 1 < Len(cs) /\ lead > 0 /\ SubSeq(cs, lead, lead + 1) = <<"q", "u">>
      THEN lead + 1
    ELSE IF Len(cs) > 2 /\ SubSeq(cs, 1, 2) = <<"g", "i">> /\ ~IsVowel(cs[3]) THEN 1
    ELSE lead
Nucleus(cs, from) ==
    [from |-> from,
     to |-> from + Max({k \in 0..3 : /\ from + k <= Len(cs)
                                     /\ \A p \in from + 1..from + k : IsVowel(cs[p])})]
Parts(w) == Nucleus(Chars(w), Onset(Chars(w), Lead(Chars(w))))

\* A word being typed: behind the vowels the beginning of an end; no grave before t.
SpeltWith(w, v) ==
    LET n == Len(w)
    IN  IF v.to = v.from THEN v.from = n
        ELSE /\ SubSeq(Chars(w), v.to + 1, n) \in Ends \cup {<<>>}
             /\ ~(n > 1 /\ w[n].c = "t" /\ w[n - 1].mark = "f")
Spelled(w) == SpeltWith(w, Parts(w))

\* The same when the word ends: the vowels are a group that may stand there.
Complete(w) ==
    LET v == Parts(w)
        group == Codes(w, v.from + 1, v.to)
    IN  /\ Spelled(w)
        /\ Len(group) < 2 \/ group \in ClosedGroups \/ (v.to = Len(w) /\ group \in OpenGroups)

\* findAndCalculateVowel: the last run of vowels, without the u of "qu"; a
\* letter that belongs to "gi" or "qu" ends it when a mark is placed.
LastVowel(w) == Max({0} \cup {p \in DOMAIN w : IsVowel(w[p].c)})
Glued(w, p) == p > 1 /\ <<w[p - 1].c, w[p].c>> \in {<<"g", "i">>, <<"q", "u">>}
Group(w, run, end) ==
    LET first == IF run = {} THEN 1 ELSE Min(run)
        qu == IF first > 1 /\ <<w[first - 1].c, w[first].c>> = <<"q", "u">> THEN 1 ELSE 0
    IN  [start |-> first + qu,
         end |-> IF end = 0 THEN 1 ELSE end,
         count |-> Cardinality(run) - qu]
Vowels(w, forGrammar) ==
    Group(w, {p \in 1..LastVowel(w) : \A r \in p..LastVowel(w) :
                IsVowel(w[r].c) /\ (forGrammar \/ ~Glued(w, r))}, LastVowel(w))

\* canHasEndConsonant; a group of more than two is judged by the first row of
\* kVowelCombine it begins with.
MayClose(w, v) ==
    /\ v.end > v.start
    /\ Codes(w, v.start, v.start + 1) \in ClosedGroups
    /\ v.end > v.start + 1 => Codes(w, v.start, v.start + 2) \notin OpenTriples

-----------------------------------------------------------------------------
(* Where the mark goes.                                                    *)

Follows(w, p) == IF p < Len(w) THEN w[p + 1].c ELSE ""

\* handleOldMark
OldSeat(w, v) ==
    LET horned == {p \in v.start..v.end : w[p].c = "o" /\ w[p].hat = "w"}
        closed == v.end < Len(w) /\ MayClose(w, v)
    IN  IF horned # {} THEN Min(horned)
        ELSE IF v.count = 3 \/ closed THEN v.start + 1
        ELSE IF v.count = 0 /\ w[v.end].c = "i" THEN v.end
        ELSE v.start

\* handleModernMark, the rules in the order in which the later overrides.
ModernSeat(w, v) ==
    LET one == w[v.start].c
        two == w[v.start + 1].c
        three == Follows(w, v.start + 1)
        uo == \/ one = "u" /\ w[v.start + 1] = [Bare("o") EXCEPT !.hat = "^"]
              \/ /\ w[v.start] = [Bare("u") EXCEPT !.hat = "w"]
                 /\ w[v.start + 1] = [Bare("o") EXCEPT !.hat = "w"]
    IN  IF v.count = 2 /\ one = "i" /\ two \in {"a", "u", "o"} THEN v.start
        ELSE IF v.count = 2 /\ <<one, two>> = <<"u", "a">>
                  /\ (v.end = Len(w) \/ ~MayClose(w, v)) THEN v.start
        ELSE IF v.count = 2 /\ <<one, two>> = <<"o", "o">> THEN v.end
        ELSE IF one = "i" \/ uo
          THEN IF three \in {"t", "n", "o", "u", "i"} THEN v.start + 1 ELSE v.start
        ELSE IF v.count = 3 /\ <<one, two, three>> = <<"o", "a", "i">> THEN v.start + 1
        ELSE IF two = "i" /\ one \in {"o", "a", "u"} THEN v.start
        ELSE IF <<one, two>> = <<"u", "o">> THEN v.start + 1
        ELSE IF two \in {"o", "u"} THEN v.end - 1
        ELSE v.end

Seat(w, v, style) ==
    IF v.count = 1 THEN v.end
    ELSE IF style THEN ModernSeat(w, v) ELSE OldSeat(w, v)

\* insertMark, switchToneStyle: a hat on the last vowel draws the mark to it.
Place(w, v, style) ==
    IF v.count # 1 /\ w[v.end].hat # "" THEN v.end ELSE Seat(w, v, style)

\* Mutant: the marks the group had before stay.
BadMarked(w, mark, p, from) == Changed(w, {p}, LAMBDA l : Toned(l, mark))

\* The mark at p alone, of the letters from the group's start on.
Marked(w, mark, p, from) ==
    Changed(Changed(w, from..Len(w), LAMBDA l : Toned(l, "")),
            {p}, LAMBDA l : Toned(l, mark))
Unmarked(w, P) == Changed(w, P, LAMBDA l : Toned(l, ""))

\* The first of the marks at P taken off and put in its place.
MarkPlaced(bare, mark, v, style) == Marked(bare, mark, Place(bare, v, style), v.start)
Replaced(w, P, v, style) ==
    IF P = {} THEN w
    ELSE MarkPlaced(Unmarked(w, {Min(P)}), w[Min(P)].mark, v, style)
MarksIn(w, v) == {p \in v.start..v.end : w[p].mark # ""}

-----------------------------------------------------------------------------
(* What a key does: the engine's new state and the edit.  "restore" types  *)
(* the key behind the edit.  ahead: the word is a letter longer than the   *)
(* screen; lost: the edit does not fit what changed.                       *)

Glyphs(w, from) == [p \in 1..(Len(w) - from + 1) |-> Glyph(w[from + p - 1])]
Shown(w) == Glyphs(w, 1)

Plain(s) == [st |-> s, code |-> "none", del |-> 0, ins |-> <<>>,
             ahead |-> FALSE, lost |-> FALSE]
Edit(s, code, from) ==
    [Plain(s) EXCEPT !.code = code, !.del = Len(s.word) - from + 1,
                     !.ins = Glyphs(s.word, from)]

\* insertKey
Inserted(s, c) ==
    LET w == Append(s.word, Bare(c)) IN [s EXCEPT !.word = w, !.disabled = ~Spelled(w)]

\* insertMark for a key; the same mark again is taken off.
InsertMark(s, mark) ==
    LET v == Vowels(s.word, FALSE)
        p == Place(s.word, v, modern)
        again == s.word[p].mark = mark
        t == [s EXCEPT !.word = Marked(@, IF again THEN "" ELSE mark, p, v.start),
                       !.disabled = @ \/ again, !.composed = TRUE]
    IN  IF again THEN Edit(t, "restore", Seat(s.word, v, modern))
                 ELSE Edit(t, "edit", v.start)

\* removeMark
RemoveMark(s) ==
    LET v == Vowels(s.word, TRUE)
        group == v.start..v.end
    IN  IF \E p \in group \cap DOMAIN s.word : s.word[p].mark # ""
        THEN Edit([s EXCEPT !.word = Unmarked(@, group)], "edit", v.start)
        ELSE Plain(Inserted(s, "z"))

\* The letters of the group without one kind of hat.
Bared(w, v, hat) ==
    Changed(w, {q \in v.start..v.end : w[q].hat = hat}, LAMBDA l : Hatted(l, ""))

\* insertAOE: the circumflex, on the last letter the key repeats.
InsertAO(s, c) ==
    LET v == Vowels(s.word, FALSE)
        w == Bared(s.word, v, "w")
        at == Max({p \in DOMAIN w : w[p].c = c})
        again == w[at].hat = "^"
        hat == IF again THEN "" ELSE "^"
        t == [s EXCEPT !.word = Changed(w, {at}, LAMBDA l : Hatted(l, hat)),
                       !.disabled = @ \/ (again /\ c # "o"), !.composed = TRUE]
    IN  [Edit(t, IF again THEN "restore" ELSE "edit", at) EXCEPT
           !.lost = \E p \in 1..at - 1 : Glyph(w[p]) # Glyph(s.word[p])]

\* insertW with one vowel: the horn or breve.  A second w takes it off again, and
\* makes a letter w of an ư it had made alone.
HornOne(s, w, p) ==
    LET again == w[p].hat = "w"
        able == {p} \cap {q \in DOMAIN w : w[q].c \in {"a", "o", "u"}}
        t == [s EXCEPT !.disabled = @ \/ again, !.composed = TRUE,
                       !.word = Changed(w, able, LAMBDA l :
                          IF again /\ l.alone THEN Bare("w")
                          ELSE Hatted(l, IF again THEN "" ELSE "w"))]
    IN  Edit(t, IF again /\ ~w[p].alone THEN "restore" ELSE "edit", p)

\* checkForStandaloneChar for w.
Standalone(s) ==
    LET w == s.word
        n == Len(w)
        horn == [Bare("u") EXCEPT !.hat = "w", !.alone = TRUE]
    IN  IF n > 0 /\ w[n].c = "u" /\ w[n].hat = "w"
          THEN Edit([s EXCEPT !.word = Append(Front(w), Bare("w"))], "edit", n)
        ELSE IF n = 0 \/ (n = 1 /\ w[1].c \notin {"w", "f", "z"}) \/ Chars(w) \in WAfter
          THEN [Edit([s EXCEPT !.word = Append(w, horn), !.composed = TRUE], "edit", n + 1)
                  EXCEPT !.del = 0, !.ahead = TRUE]
        ELSE Plain(Inserted(s, "w"))

\* insertW with several vowels.
HornGroup(s, w, v) ==
    LET a == v.start
        b == v.start + 1
        pair == <<w[a].c, w[b].c>>
        afterTh == a > 2 /\ <<w[a - 2], w[a - 1]>> = <<Bare("t"), Bare("h")>>
        which ==
          CASE pair = <<"u", "o">> ->
                 IF afterTh /\ Follows(w, b) # "n" THEN {b} ELSE {a, b}
            [] pair \in {<<"u", "a">>, <<"u", "i">>, <<"u", "u">>, <<"o", "i">>} -> {a}
            [] pair \in {<<"i", "o">>, <<"o", "a">>} -> {b}
            [] OTHER -> {}
        with(P, hat) == Changed(w, P, LAMBDA l : Hatted(l, hat))
        t == [s EXCEPT !.composed = TRUE]
        horned == {q \in a..Len(w) : w[q].hat = "w"}
    IN  IF w[a].hat = "w" /\ (w[b].hat = "w" \/ w[b].c \in {"i", "a"})
          THEN [Edit([t EXCEPT !.word = with(horned, ""), !.disabled = TRUE], "restore", a)
                 EXCEPT !.lost = \E q \in horned : w[q].alone]
        ELSE IF which # {}
          THEN Edit([t EXCEPT !.word = with(which, "w")], "edit", a)
        ELSE [Standalone([t EXCEPT !.word = w, !.disabled = TRUE]) EXCEPT
                !.lost = w # s.word]

InsertW(s) ==
    LET v == Vowels(s.word, FALSE)
        w == Bared(s.word, v, "^")
    IN  IF v.count > 1 THEN HornGroup(s, w, v) ELSE HornOne(s, w, v.end)

\* checkCorrectVowel, over a table.
Acts(w, tails, c) ==
    \E p \in DOMAIN w :
      LET tail == SubSeq(Chars(w), p, Len(w))
      IN  /\ tail \in tails
          /\ p > 1 => /\ w[p - 1].c # tail[1]
                      /\ ~(tail = <<"u">> /\ w[p - 1].c = "q")
          /\ ~(c = "f" /\ \E q \in {2, 3} \cap DOMAIN tail : tail[q] = "t")

\* handleMainKey
MainKey(s, c) ==
    CASE c = "z" -> RemoveMark(s)
      [] c \in {"s", "f"} /\ Acts(s.word, MarkTails, c) -> InsertMark(s, c)
      [] c \in {"a", "o"} /\ Acts(s.word, HatTails[c], c) -> InsertAO(s, c)
      [] c = "w" -> IF Acts(s.word, HatTails[c], c) THEN InsertW(s) ELSE Standalone(s)
      [] OTHER -> Plain(Inserted(s, c))

\* The double-ư repair of checkGrammar: the last "uo" with one horn before n, i, t.
HalfHorned(w) ==
    {p \in 1..Len(w) - 2 : /\ <<w[p].c, w[p + 1].c>> = <<"u", "o">>
                           /\ w[p + 2].c \in {"n", "i", "t"}
                           /\ (w[p].hat = "w") # (w[p + 1].hat = "w")}
BothHorned(w) ==
    IF HalfHorned(w) = {} THEN w
    ELSE LET p == Max(HalfHorned(w)) IN Changed(w, {p, p + 1}, LAMBDA l : Hatted(l, "w"))

\* checkGrammar, behind a key (delta is -1 where the key was not yet shown) or a
\* Backspace (1).  A mark is taken off and put in its place, which is an edit
\* from the group's start whether or not it moved.
Rewritten(a, w, from, by, lost) ==
    [a EXCEPT !.st.word = w, !.code = IF @ = "none" THEN "edit" ELSE @,
              !.del = Len(w) - from + 1 + by, !.ins = Glyphs(w, from), !.lost = lost]
Corrected(a, w, from, start, marked, delta) ==
    IF w # a.st.word
      THEN Rewritten(a, w, from, delta,
             \/ a.ahead /\ from > 1
             \/ \E p \in 1..from - 1 : Glyph(w[p]) # Glyph(a.st.word[p]))
    ELSE IF marked /\ a.code # "none"
      THEN Rewritten(a, w, start, 0, a.ahead /\ start > 1)
    ELSE a
Checked(a, w, v, u, delta) ==
    IF v.count = 0 THEN a
    ELSE Corrected(a, Replaced(w, MarksIn(w, v), u, modern), v.start, u.start,
                   MarksIn(w, v) # {}, delta)
Horned(a, w, v, delta) == Checked(a, w, v, Vowels(w, FALSE), delta)
Grammar(a, delta) ==
    IF Len(a.st.word) < 2 \/ ~a.st.composed THEN a
    ELSE Horned(a, BothHorned(a.st.word), Vowels(a.st.word, TRUE), delta)

-----------------------------------------------------------------------------
(* Actions.                                                                *)

\* The application performs the edit and, unless it was swallowed, the key;
\* visibleAccount_ bounds what is erased.  A new word stands behind a blank.
Performed(new, a, typed) ==
    LET shown == IF new THEN <<>> ELSE screen
        text == IF new THEN "whole" ELSE front
        kept == Len(shown) - a.del
        off == astray /\ ~new
    IN  /\ astray' = (a.st.word # <<>> /\ (off \/ a.lost))
        /\ screen' = IF off THEN <<>>
                     ELSE SubSeq(shown, 1, IF kept < 0 THEN 0 ELSE kept) \o a.ins \o typed
        /\ front' = IF text = "whole" /\ ~off /\ ~a.lost /\ kept < 0 THEN "eaten" ELSE text

\* mainKeyBranch; behind a blank the letter begins a word (startNewSession).
Acted(s, c) ==
    IF c \in {"a", "o", "w", "s", "f", "z"} /\ ~s.disabled
      THEN MainKey(s, c) ELSE Plain(Inserted(s, c))
Answered(a) == Grammar(a, IF a.code = "none" THEN -1 ELSE 0)
Key(c) ==
    LET new == behind # <<>>
        s == IF new THEN Empty ELSE st
    IN  /\ Len(s.word) < MaxWord
        /\ \E a \in {Answered(Acted(s, c))} :
             /\ st' = IF a.code = "restore" THEN Inserted(a.st, c) ELSE a.st
             /\ Performed(new, a, IF a.code = "edit" THEN <<>> ELSE <<Glyph(Bare(c))>>)
             /\ unplaced' = (a.code = "restore")
        /\ behind' = <<>>
        /\ UNCHANGED <<modern, switches>>

\* backspaceBranch, within the word.
Shorter(w) ==
    IF w = <<>> THEN Empty ELSE [st EXCEPT !.word = w, !.disabled = ~Spelled(w)]
EraseLetter ==
    /\ behind = <<>> /\ st.word # <<>>
    /\ \E a \in {Grammar(Plain(Shorter(Front(st.word))), 1)} :
         /\ st' = a.st
         /\ Performed(FALSE, IF a.code = "none" THEN [a EXCEPT !.del = 1] ELSE a, <<>>)
    /\ unplaced' = FALSE
    /\ UNCHANGED <<modern, behind, switches>>

\* spaceBranch.  A word that is not spelt right is restored: see TextSession.
Blank ==
    /\ behind = <<>> /\ st.word # <<>> /\ ~st.disabled /\ Complete(st.word)
    /\ behind' = st.word
    /\ Performed(FALSE, Plain(st), <<Glyph(Bare(" "))>>)
    /\ UNCHANGED <<st, modern, unplaced, switches>>

\* backspaceBranch, restoreLastTypingState.
EraseBlank ==
    /\ behind # <<>>
    /\ st' = [st EXCEPT !.word = behind, !.composed = TRUE]
    /\ Performed(FALSE, [Plain(st) EXCEPT !.del = 1], <<>>)
    /\ behind' = <<>>
    /\ unplaced' = (unplaced \/ st.word # behind)
    /\ UNCHANGED <<modern, switches>>

\* switchToneStyle
Switched(w, v, style) ==
    IF w = <<>> \/ v.count <= 1 THEN w ELSE Replaced(w, MarksIn(w, v), v, style)

\* F9: the word the engine holds, which may stand behind a blank.
SwitchToneStyle ==
    /\ switches < MaxSwitches
    /\ switches' = switches + 1
    /\ modern' = ~modern
    /\ \E w \in {Switched(st.word, Vowels(st.word, FALSE), ~modern)} :
         LET t == [st EXCEPT !.word = w]
         IN  /\ st' = t
             /\ Performed(FALSE,
                  IF w = st.word THEN Plain(t)
                  ELSE [Edit(t, "edit", Vowels(w, FALSE).start) EXCEPT
                          !.lost = behind # <<>>], <<>>)
    /\ UNCHANGED <<behind, unplaced>>

ToneInit ==
    /\ st = Empty /\ behind = <<>> /\ unplaced = FALSE
    /\ modern \in BOOLEAN /\ switches = 0
    /\ screen = <<>> /\ astray = FALSE /\ front \in {"none", "whole"}

ToneNext == (\E c \in Keys : Key(c)) \/ EraseLetter \/ Blank \/ EraseBlank \/ SwitchToneStyle

ToneSpec == ToneInit /\ [][ToneNext]_toneVars

-----------------------------------------------------------------------------
MarksOf(w) == {p \in DOMAIN w : w[p].mark # ""}

\* A word carries one mark at most, and on a vowel, whatever was typed, taken
\* off, moved or switched.
OneMark == \A p \in MarksOf(st.word) : MarksOf(st.word) = {p} /\ IsVowel(st.word[p].c)

\* The mark of the last syllable stands where the style puts it, although
\* letters came and went behind it and hats were added and removed after it;
\* only a key typed because it undid something has not been looked at yet.
InPlace ==
    LET w == st.word
        v == Vowels(w, FALSE)
    IN  \A p \in MarksOf(w) \cap Vowels(w, TRUE).start..Vowels(w, TRUE).end :
          Len(w) > 1 /\ ~unplaced => p = Place(Unmarked(w, {p}), v, modern)

\* The application shows the word the engine holds, unless one of the flaws
\* noted in astray came before.
ShownIsWord ==
    ~astray =>
      screen = Shown(st.word) \o (IF behind = <<>> THEN <<>> ELSE <<Glyph(Bare(" "))>>)

\* TextEngine.cpp:2347-2351 says of the rewrite: "no corruption, no dropped
\* characters".  F9 changes no letter, only where marks are.
StyleMovesMarksOnly == [][modern' # modern => Chars(screen') = Chars(screen)]_toneVars

\* TextEngine.cpp:152-156 says of the bound on deletions that a correction must
\* not eat text to the left of the word: "That is user-visible data loss".
NothingEaten == front # "eaten"
=============================================================================
