------------------------------- MODULE ErrorText -------------------------------
(***************************************************************************)
(* What makes a log line an error, its level, its title and the            *)
(* fingerprint it is stored under (src/src/errors.rs).  Nothing here keeps *)
(* state.                                                                  *)
(*                                                                         *)
(* A line is a head that may declare a level, perhaps a request id, words  *)
(* and a tag in front, and the words of what went wrong.  A word is what   *)
(* the heuristics tell apart: its kind, and its text where they keep it.   *)
(* Titles are cut at 160 and fingerprints at 200 characters, which no line *)
(* here reaches.                                                           *)
(***************************************************************************)
EXTENDS Integers, Sequences, SequencesExt, FiniteSetsExt

-----------------------------------------------------------------------------
(* Lines *)

Word(text) == [kind |-> "word", text |-> text]
Datum(kind) == [kind |-> kind, text |-> ""]

Line(form, word, id, lead, words) == [form |-> form, word |-> word, id |-> id, lead |-> lead, words |-> words]

\* The level a head declares, by its form and word; "none" for a word that is no
\* level there: the head is then part of the message.
Declared ==
  [plain   |-> [none |-> "none"],
   ruby    |-> [ERROR |-> "error", FATAL |-> "error", WARN |-> "warn", INFO |-> "info", cut |-> "none"],
   zerolog |-> [ERR |-> "error", WRN |-> "warn", INF |-> "info", MSG |-> "none"],
   bracket |-> [crit |-> "error", warn |-> "warn", notice |-> "info", app |-> "none"]]

\* strip_log_prefix, the level.
LevelDeclared(line) == Declared[line.form][line.word]

\* The line as it stands, a head being a stamp.
Text(line) ==
  (IF line.form = "plain" THEN <<>> ELSE <<Datum("number")>>) \o
  (IF line.id THEN <<Datum("id")>> ELSE <<>>) \o line.lead \o line.words

-----------------------------------------------------------------------------
(* Whether it is an error *)

\* Mutant: the id stays.
StripRequestId_Keeps(line) ==
  (IF line.id THEN <<Datum("id")>> ELSE <<>>) \o line.lead \o line.words

\* strip_log_prefix, the rest, and strip_request_id: the id goes if the line, or
\* what a prefix leaves of it, begins with it.
StripRequestId(line) ==
  IF line.form = "plain" \/ LevelDeclared(line) # "none" THEN line.lead \o line.words ELSE Text(line)

HasSubstance(words) == words # <<>>

Mentions(words, texts) == \E w \in Range(words) : w.text \in texts

Tags == {"ERROR:", "Error:", "error:"}

\* How half the world names an error: words that end in a tag.
Classes == {"TypeError:", "RangeError:"}
Holding(tag) == IF tag = "Error:" THEN Classes \cup {tag} ELSE {tag}

\* has_marker_word: a word of its own, its plural or a word that ends in one; not a
\* part of a path.
Markers == Tags \cup Classes \cup {"error", "errors", "panic"}
HasMarkerWord(words) == Mentions(words, Markers)

\* looks_like_error: a declared level settles it; noise and stack frames are none.
LooksLikeError(line, stream) ==
  LET text == Text(line)
      says == /\ ~Mentions(text, {"no errors"}) /\ ~(text # <<>> /\ text[1] = Word("at"))
              /\ HasMarkerWord(text) \/ (stream = "stderr" /\ Mentions(text, {"failed"}))
  IN IF LevelDeclared(line) = "none" THEN says
     ELSE LevelDeclared(line) = "error" /\ HasSubstance(StripRequestId(line))

\* level_of
LevelOf(line, stream) ==
  IF LevelDeclared(line) # "none" THEN LevelDeclared(line)
  ELSE IF LooksLikeError(line, stream) THEN "error"
  ELSE IF Mentions(Text(line), {"warning"}) THEN "warn" ELSE "info"

-----------------------------------------------------------------------------
(* Which error it is *)

\* title_of: what follows the first tag, on its own or at the end of a word, of the
\* spelling that is looked for first.
After(words, tag) ==
  SubSeq(words, 1 + Min({i \in DOMAIN words : words[i].text \in Holding(tag)}), Len(words))
TitleOf(line) ==
  LET words == StripRequestId(line)
      tagged(tag) == Mentions(words, Holding(tag))
  IN IF tagged("ERROR:") THEN After(words, "ERROR:")
     ELSE IF tagged("Error:") THEN After(words, "Error:")
     ELSE IF tagged("error:") THEN After(words, "error:") ELSE words

\* Mutant: whatever is quoted is a name.
Collapsed_Quotes(w) == IF w.kind = "phrase" THEN Datum("name") ELSE w

\* What varies between occurrences becomes a placeholder of its kind; a quoted
\* phrase is a cause and is kept, and so is all that does not begin like an id, a
\* number, a path or a quote.
Collapsed(w) == IF w.kind \in {"word", "phrase"} THEN w ELSE Datum(w.kind)

Fingerprint(title) == [i \in DOMAIN title |-> Collapsed(title[i])]

\* BrowserReport::into_event: titled like a line led by its kind.
IntoEvent(kind, words) == Line("plain", "none", FALSE, <<Word(kind)>>, words)
=============================================================================
