------------------------------- MODULE Grouping --------------------------------
(***************************************************************************)
(* Bugs and the issues they are filed under: lines of containers as the    *)
(* collector takes them (src/src/logs.rs) and reports of browsers          *)
(* (ingest_error of src/src/server.rs), told apart by ErrorText.           *)
(***************************************************************************)
EXTENDS ErrorText, FiniteSets, Lists

CONSTANTS
  Slots,      \* plain words, and slots for phrases and data
  Bugs,       \* what goes wrong: sequences of slots
  MaxOccurred \* bound: lines and reports that arrive

VARIABLES
  issues,  \* the fingerprints there are, with the bug each came from and how it was told
  last,    \* history: how the last line was read
  occurred \* history: how many arrived

groupingVars == <<issues, last, occurred>>

-----------------------------------------------------------------------------
(* What loggers and browsers write *)

\* Data that does not look like data: ids that begin with a letter, paths from here.
LooseIds == {"ab12cd34", "ba12cd34"}
LoosePaths == {"src/main.rs", "lib/main.rs"}

\* What a slot is filled with: an address or a count; an id that begins with a
\* digit, has none but digits, or begins with a letter; a path from the root, or
\* from here; a quoted name; a quoted phrase that names a cause.
Fills ==
  [number |-> {Datum("number")},
   id     |-> {Datum("id"), Datum("number")} \cup {Word(text) : text \in LooseIds},
   path   |-> {Datum("path")} \cup {Word(text) : text \in LoosePaths},
   name   |-> {Datum("name")},
   timeout |-> {[kind |-> "phrase", text |-> "timed out"]},
   cancel  |-> {[kind |-> "phrase", text |-> "context canceled"]}]

Surfaces(slot) == IF slot \in DOMAIN Fills THEN Fills[slot] ELSE {Word(slot)}
Phrasings(bug) ==
  {words \in [DOMAIN bug -> UNION {Surfaces(s) : s \in Range(bug)}] : \A i \in DOMAIN bug : words[i] \in Surfaces(bug[i])}

\* What a browser's report says it is of.
ReportKinds == {"error:", "TypeError:", "unhandledrejection:", "resource:"}

\* Two bugs differ in more than their data, and no words of a bug are a tag, a kind
\* of report or what a loose id or path looks like; but a bug may name its class.
DataSlots == {"number", "id", "path", "name"}
Surroundings == (Tags \cup ReportKinds \cup LooseIds \cup LoosePaths) \ Classes
ASSUME GroupingAssumption ==
  /\ MaxOccurred \in Nat /\ Bugs \subseteq Seq(Slots) /\ Slots \cap Surroundings = {}
  /\ \A a, b \in Bugs : a # b => Only(a, Slots \ DataSlots) # Only(b, Slots \ DataSlots)

\* Nothing in front, a tag, or words and a tag.
Leads == {<<>>} \cup {<<Word(tag)>> : tag \in Tags} \cup {<<Word("[app]"), Word("Error:")>>}

\* Nothing of this occurrence escapes the placeholders, and what stands in front of
\* the bug is set off from it.
Steady(line, bug) ==
  /\ \A i \in DOMAIN bug : bug[i] \in {"id", "path"} => line.words[i] = Datum(bug[i])
  /\ IF line.lead = <<>> THEN line.form = "plain" \/ LevelDeclared(line) # "none"
     ELSE Last(line.lead).text \in Tags \cup Classes

-----------------------------------------------------------------------------
(* What arrives *)

\* record_error, under the fingerprint of the title.
Record(line, bug) ==
  issues' = issues \cup {[print |-> Fingerprint(TitleOf(line)), bug |-> bug, steady |-> Steady(line, bug)]}

\* A line of a container, as the collector takes it.
Logged(line, bug, stream) ==
  /\ occurred < MaxOccurred /\ occurred' = occurred + 1
  /\ last' = [level |-> LevelOf(line, stream), taken |-> LooksLikeError(line, stream),
              bare |-> line.lead \o line.words = <<>>]
  /\ IF LooksLikeError(line, stream) THEN Record(line, bug) ELSE UNCHANGED issues

\* ingest_error: an empty message is refused.
Reported(kind, bug, words) ==
  /\ words # <<>>
  /\ occurred < MaxOccurred /\ occurred' = occurred + 1
  /\ Record(IntoEvent(kind, words), bug) /\ UNCHANGED last

GroupingInit == issues = {} /\ last = [level |-> "info", taken |-> FALSE, bare |-> FALSE] /\ occurred = 0

GroupingNext ==
  \E bug \in Bugs : \E words \in Phrasings(bug) :
    \/ \E form \in DOMAIN Declared : \E word \in DOMAIN Declared[form], id \in BOOLEAN, lead \in Leads,
         stream \in {"stdout", "stderr"} : Logged(Line(form, word, id, lead, words), bug, stream)
    \/ \E kind \in ReportKinds : Reported(kind, bug, words)

GroupingSpec == GroupingInit /\ [][GroupingNext]_groupingVars

-----------------------------------------------------------------------------
(* Properties *)

NamesAClass(bug) == Range(bug) \cap Classes # {}
AfterClass(bug) == SubSeq(bug, 1 + Min({i \in DOMAIN bug : bug[i] \in Classes}), Len(bug))

\* What title_of leaves of a bug: all of it or, where its class is taken for the tag,
\* what follows the class.
Forms(bug) == {bug} \cup (IF NamesAClass(bug) THEN {AfterClass(bug)} ELSE {})

\* However it is logged or reported, and whatever numbers, ids, names and paths it
\* comes with, a bug has one issue: but for data that does not look like data, and
\* words in front that nothing sets off.  One that names its class has two, with
\* the class, when a tag in front was found first, and without.
OneIssueForABug ==
  \A a, b \in issues : a.bug = b.bug /\ a.steady /\ b.steady =>
    a.print = b.print \/ (NamesAClass(a.bug) /\ Len(a.print) # Len(b.print))

\* Two bugs share an issue only where classes are cut off: "TypeError: x" and
\* "RangeError: x" are both the issue "x", as is "x" itself.
OneBugForAnIssue ==
  \A a, b \in issues : a.print = b.print =>
    \/ a.bug = b.bug
    \/ \E s \in Forms(a.bug), t \in Forms(b.bug) :
         /\ NamesAClass(a.bug) \/ NamesAClass(b.bug)
         /\ Only(s, Slots \ DataSlots) = Only(t, Slots \ DataSlots)

\* What is shown at level error is what becomes an issue, but for a declared error
\* with nothing to say.
LevelsAgree == (last.level = "error" /\ ~last.bare) <=> last.taken

IssuesAreBugs == OneIssueForABug /\ OneBugForAnIssue /\ LevelsAgree
=============================================================================
