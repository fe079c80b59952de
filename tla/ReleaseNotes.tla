---------------------------- MODULE ReleaseNotes ----------------------------
(***************************************************************************)
(* format_release_notes.py: the notes of a release, from the CHANGELOG's   *)
(* section of its version. A line of the CHANGELOG is a record whose kind  *)
(* is what the script's patterns see in it; the words of a line, the       *)
(* emoji, the title and the links of the notes are left out. What the      *)
(* script computes is compared with a description of the same notes that   *)
(* looks only at where each line stands.                                   *)
(* Operators whose name ends in _mutant are plausible mistakes in the      *)
(* definition that follows them.                                           *)
(***************************************************************************)
EXTENDS SequencesExt, Filters

CONSTANTS
    Versions,      \* the versions a CHANGELOG may have a section of
    Prereleases,   \* those with a "-"
    Headings,      \* the "### " headings
    Texts,         \* lines of text
    MaxLines       \* bound: the lines of a CHANGELOG

Action == "Action required"

(* The headings of the summary, in its order. *)
SummarySections == <<"What's new", "What this means", Action>>

(* Text that the script itself writes. *)
NoAction == "No action required."

ASSUME ReleaseNotesAssumption ==
    /\ Prereleases \subseteq Versions
    /\ NoAction \notin Texts
    /\ MaxLines \in Nat

Lines ==
    [kind : {"version"}, is : Versions] \cup      \* ## [version]
    [kind : {"heading"}, is : Headings] \cup      \* ### heading
    [kind : {"text"}, is : Texts] \cup
    [kind : {"link", "blank"}, is : {""}]         \* [label]: https://..., and no text

VARIABLES
    changelog,   \* CHANGELOG.md: a sequence of Lines
    outcome      \* none, failed, or the notes of a version

notesVars == <<changelog, outcome>>

IsVersion(l) == l.kind = "version"
IsBlank(l) == l.kind = "blank"

-----------------------------------------------------------------------------
(* The script *)

(* Only the blank lines before the first text are dropped. *)
NormalizeLines_mutant(lines) ==
    Keep(lines, {i \in DOMAIN lines : \E j \in 1..i : ~IsBlank(lines[j])})

(* normalize_lines, and str.strip: no blank line first or last. *)
NormalizeLines(lines) ==
    Keep(lines, {i \in DOMAIN lines :
        /\ \E j \in 1..i : ~IsBlank(lines[j])
        /\ \E j \in i..Len(lines) : ~IsBlank(lines[j])})

(* The line of the version's first heading, 0 if there is none. *)
SectionStart(log, v) == SelectInSeq(log, LAMBDA l : IsVersion(l) /\ l.is = v)

(* The section goes on to the next section of the same version. *)
SectionEnd_mutant(log, v) ==
    LET start == SectionStart(log, v)
        next == SelectInSubSeq(log, start + 1, Len(log), LAMBDA l : IsVersion(l) /\ l.is = v)
    IN  IF next = 0 THEN Len(log) ELSE next - 1

(* The last line before the next "## [", or the last of the file. *)
SectionEnd(log, v) ==
    LET start == SectionStart(log, v)
        next == SelectInSubSeq(log, start + 1, Len(log), LAMBDA l : IsVersion(l))
    IN  IF next = 0 THEN Len(log) ELSE next - 1

(* A link definition is taken out with the newline before it, which the    *)
(* first line does not have.                                               *)
WithoutLinks(lines) == Keep(lines, {i \in DOMAIN lines : i = 1 \/ lines[i].kind # "link"})

ExtractSection(log, v) ==
    LET section == Keep(log, (SectionStart(log, v) + 1)..SectionEnd(log, v))
    IN  NormalizeLines(WithoutLinks(NormalizeLines(section)))

(* A heading starts its content anew, in an OrderedDict: repeated, it      *)
(* loses what it had and keeps its place. Lines before the first heading   *)
(* are dropped.                                                            *)
TakeLine(sections, l) ==
    IF l.kind = "heading" THEN
        [current |-> {l.is},
         order |-> IF Contains(sections.order, l.is) THEN sections.order
                   ELSE Append(sections.order, l.is),
         content |-> [sections.content EXCEPT ![l.is] = <<>>]]
    ELSE [sections EXCEPT !.content =
            [h \in Headings |-> IF h \in sections.current THEN Append(@[h], l) ELSE @[h]]]

NoSections == [current |-> {}, order |-> <<>>, content |-> [h \in Headings |-> <<>>]]

ParseSubsections(body) ==
    LET parsed[n \in 0..Len(body)] ==
            IF n = 0 THEN NoSections ELSE TakeLine(parsed[n - 1], body[n])
    IN  parsed[Len(body)]

Block(h, lines) == [heading |-> h, lines |-> lines]

(* sections.get(heading, []) *)
Content(sections, h) ==
    IF h \in Headings THEN NormalizeLines(sections.content[h]) ELSE <<>>

NotEmpty(blocks) == Keep(blocks, {i \in DOMAIN blocks : blocks[i].lines # <<>>})

FormatSummary(sections) ==
    NotEmpty([i \in 1..Len(SummarySections) |->
        LET h == SummarySections[i]
            lines == Content(sections, h)
        IN  Block(h, IF lines = <<>> /\ h = Action
                     THEN <<[kind |-> "text", is |-> NoAction]>> ELSE lines)])

FormatTechnical(sections) ==
    LET technical == Keep(sections.order, {i \in DOMAIN sections.order :
                            ~Contains(SummarySections, sections.order[i])})
    IN  NotEmpty([i \in 1..Len(technical) |->
            Block(technical[i], Content(sections, technical[i]))])

(* The Docker tags of the notes. *)
DockerTags(v) == {v} \cup (IF v \in Prereleases THEN {} ELSE {"latest"})

BuildReleaseNotes(log, v) ==
    LET sections == ParseSubsections(ExtractSection(log, v))
    IN  [version |-> v,
         summary |-> FormatSummary(sections),
         technical |-> FormatTechnical(sections),
         tags |-> DockerTags(v)]

-----------------------------------------------------------------------------
(* One run of the script, for any CHANGELOG and any version: it exits with *)
(* a message when the CHANGELOG has no section of the version.             *)

NotesInit ==
    /\ changelog \in BoundedSeq(Lines, MaxLines)
    /\ outcome = [result |-> "none"]

Format(v) ==
    /\ outcome.result = "none"
    /\ outcome' = IF SectionStart(changelog, v) = 0 THEN [result |-> "failed"]
                  ELSE [result |-> "notes", notes |-> BuildReleaseNotes(changelog, v)]
    /\ UNCHANGED changelog

NotesNext == \E v \in Versions : Format(v)

NotesSpec == NotesInit /\ [][NotesNext]_notesVars

-----------------------------------------------------------------------------
(* Properties *)

(* Line i of the CHANGELOG is in the section of v: the nearest version     *)
(* heading above it is the first one of v.                                 *)
InSection(v, i) ==
    \E j \in 1..(i - 1) :
        /\ changelog[j] = [kind |-> "version", is |-> v]
        /\ \A k \in 1..(j - 1) : changelog[k] # changelog[j]
        /\ \A k \in (j + 1)..i : ~IsVersion(changelog[k])

(* Heading h is the nearest above line i of the section, and is not used   *)
(* in the section again.                                                   *)
Under(v, h, i) ==
    LET IsHeading(k) == InSection(v, k) /\ changelog[k].kind = "heading"
    IN  /\ InSection(v, i)
        /\ \E j \in 1..(i - 1) :
              /\ IsHeading(j) /\ changelog[j].is = h
              /\ \A k \in (j + 1)..i : ~IsHeading(k)
        /\ \A k \in (i + 1)..Len(changelog) : ~(IsHeading(k) /\ changelog[k].is = h)

IsText(l) == l.kind = "text"

(* The lines of text under heading h, in their order. *)
TextsUnder(v, h) ==
    Keep(changelog, {i \in DOMAIN changelog : IsText(changelog[i]) /\ Under(v, h, i)})

(* What the notes of v say under heading h. *)
Expected(v, h) ==
    IF h = Action /\ TextsUnder(v, h) = <<>> THEN <<[kind |-> "text", is |-> NoAction]>>
    ELSE TextsUnder(v, h)

Blocks(notes) == notes.summary \o notes.technical

TextsOf(block) == Keep(block.lines, {i \in DOMAIN block.lines : IsText(block.lines[i])})

(* The notes of a version say what the CHANGELOG's section of it says:     *)
(* under each heading the lines that stand under it there, all of them in  *)
(* their order and nothing of another section, except that a repeated      *)
(* heading loses what stood under it before, and that "Action required"    *)
(* is there even if nothing is written under it. No heading has two blocks *)
(* and none has an empty one.                                              *)
NotesAreTheSection ==
    outcome.result = "notes" =>
        LET blocks == Blocks(outcome.notes)
        IN  \A h \in Headings \cup {Action} :
                LET at == {i \in DOMAIN blocks : blocks[i].heading = h}
                    expected == Expected(outcome.notes.version, h)
                IN  IF expected = <<>> THEN at = {}
                    ELSE \E i \in at : at = {i} /\ TextsOf(blocks[i]) = expected

(* No block of the notes begins or ends with a blank line, and none has a  *)
(* link definition, wherever the CHANGELOG has them: a definition that is  *)
(* the first line of its section, which the pattern misses, comes before   *)
(* every heading.                                                          *)
BlocksAreTidy ==
    outcome.result = "notes" =>
        \A b \in ToSet(Blocks(outcome.notes)) :
            /\ \A l \in ToSet(b.lines) : l.kind \in {"text", "blank"}
            /\ ~IsBlank(Head(b.lines)) /\ ~IsBlank(Last(b.lines))
=============================================================================
