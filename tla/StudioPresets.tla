---------------------------- MODULE StudioPresets ----------------------------
(***************************************************************************)
(* The parameter page of the Studio, the user presets beside the program   *)
(* and the preset the queue runs with.  The page shows one format of one   *)
(* preset; two buffers in memory hold the formats it does not show, one    *)
(* for the built-in defaults and one for the user preset being edited.     *)
(* A preset is picked by its position in the list of presets, which is     *)
(* sorted by name and read again after every save.                         *)
(*                                                                         *)
(* Windows and Linux have each their own copy of this code; where the two  *)
(* differ the definition says so.                                          *)
(***************************************************************************)
EXTENDS Integers, Sequences, SequencesExt, FiniteSets, FiniteSetsExt

CONSTANTS
  Names,     \* names a preset may have: numbers, in the order of the names
  Stem,      \* name -> stem of the file it is saved to
  Formats,   \* the formats of the page
  Png,       \* the format whose quality is fixed
  Default,   \* content of a format's fields: the built-in default,
  Typed,     \*   what a user typed,
  Blank,     \*   an empty speed, which means the default,
  Bad,       \*   text that does not parse
  NoFile,    \* no such file
  NoRun,     \* the queue does not run
  Platforms,
  MaxEdits,  \* bound on what a user types
  MaxFaults  \* bound on files that cannot be read and on files removed by hand

Stems == {Stem[n] : n \in Names}
Values == {Default, Blank, Bad} \union Typed

ASSUME PresetAssumption ==
  /\ Names \subseteq Nat \ {0} /\ IsFiniteSet(Names)
  /\ Stem \in [Names -> Stems] /\ Png \in Formats /\ NoFile \notin Stems
  /\ Platforms \subseteq {"windows", "linux"}
  /\ MaxEdits \in Nat /\ MaxFaults \in Nat

VARIABLES
  platform,
  files,       \* the preset directory: stem -> a preset, or NoFile
  userPresets, \* the list read last
  editing,     \* parameter_preset_index: 0 is the built-in preset
  queued,      \* queue_preset_index
  format,      \* last_format_index, the format the page shows
  page,        \* the fields of the page
  builtin,     \* builtin_params
  buffer,      \* parameter_preset_params
  run,         \* the configuration of the running queue, or NoRun
  edits, faults

vars == <<platform, files, userPresets, editing, queued, format, page,
          builtin, buffer, run, edits, faults>>

Params == [Formats -> Values]
Presets == [name : Names, formats : Params]

----------------------------------------------------------------------------
(* The page and the buffers. *)

\* What is stored for a format whose fields hold `v`, and what is shown.
Normal(f, v) == IF f = Png \/ v = Blank THEN Default ELSE v
Shown(f, v) == IF f = Png THEN Default ELSE v

\* The buffers with the page stored into the active one.
Stored == [builtin |-> IF editing = 0
                       THEN [builtin EXCEPT ![format] = Normal(format, page)]
                       ELSE builtin,
           buffer  |-> IF editing = 0 THEN buffer
                       ELSE [buffer EXCEPT ![format] = Normal(format, page)]]
Active(stored, index) == IF index = 0 THEN stored.builtin ELSE stored.buffer

\* Mutant: a text that does not parse is the default.
ConfigLenient(f, v) == IF v = Bad THEN Default ELSE Normal(f, v)

\* The fields of a format as a configuration; Bad if their text does not parse.
\* Linux writes the fields that are not empty as a command line and parses it.
ConfigWindows(f, v) == IF f # Png /\ v = Bad THEN Bad ELSE Normal(f, v)
Arguments(f, v) == IF f = Png THEN {} ELSE {v} \ {Blank}
ConfigLinux(f, v) == IF Arguments(f, v) = {} THEN Default ELSE v
Config(f, v) == IF platform = "windows" THEN ConfigWindows(f, v) ELSE ConfigLinux(f, v)

\* A preset holds all formats: the text of every one must parse.
AsPreset(n, params) ==
  [name |-> n, formats |-> [f \in Formats |-> Config(f, params[f])]]
Valid(preset) == \A f \in Formats : preset.formats[f] # Bad

\* The parameters of a preset: what its file does not give is the default.
FromPreset(preset) == [f \in Formats |-> Normal(f, preset.formats[f])]

\* The valid presets among these files, sorted by name.
Listed(found) ==
  SetToSortSeq({p \in found \ {NoFile} : Valid(p)}, LAMBDA a, b : a.name < b.name)

----------------------------------------------------------------------------
Init ==
  /\ platform \in Platforms
  /\ files \in [Stems -> {NoFile} \union
                 {[name |-> n, formats |-> [f \in Formats |-> Blank]] : n \in Names}]
  /\ \A s \in Stems : files[s] # NoFile => Stem[files[s].name] = s
  /\ userPresets = Listed(Range(files))
  /\ editing = 0 /\ queued = 0
  /\ format \in Formats \ {Png} /\ page = Default
  /\ builtin = [f \in Formats |-> Default] /\ buffer = builtin
  /\ run = NoRun /\ edits = 0 /\ faults = 0

Fault == faults < MaxFaults /\ faults' = faults + 1

\* A user changes a field of the page.
Type(v) ==
  /\ run = NoRun /\ edits < MaxEdits /\ page # v
  /\ page' = v /\ edits' = edits + 1
  /\ UNCHANGED <<platform, files, userPresets, editing, queued, format,
                 builtin, buffer, run, faults>>

\* The page shows this format of the active preset.
Show(stored, index, f) ==
  /\ format' = f
  /\ page' = Shown(f, Active(stored, index)[f])
  /\ builtin' = stored.builtin /\ buffer' = stored.buffer

SelectFormat(f) ==
  /\ run = NoRun /\ f # format
  /\ Show(Stored, editing, f)
  /\ UNCHANGED <<platform, files, userPresets, editing, queued, run, edits, faults>>

\* The buffers after a preset is taken up: its parameters replace the buffer.
TakenUp(stored, presets, index) ==
  IF index = 0 THEN stored
  ELSE [stored EXCEPT !.buffer = FromPreset(presets[index])]

\* Mutant: the page is stored once the index has changed.
SelectPresetLate(stored, presets, index) ==
  LET taken == TakenUp(stored, presets, index)
  IN Show(IF index = 0 THEN [taken EXCEPT !.builtin[format] = page]
          ELSE [taken EXCEPT !.buffer[format] = page], index, format)

\* Windows stores the page before the index changes.
SelectPresetWindows(stored, presets, index) ==
  Show(TakenUp(stored, presets, index), index, format)

\* Linux then switches the format, which stores the page once more: into the
\* buffer of the preset it goes to.
SelectPresetLinux(stored, presets, index) ==
  LET taken == TakenUp(stored, presets, index)
      again == IF index = 0
               THEN [taken EXCEPT !.builtin[format] = Normal(format, page)]
               ELSE [taken EXCEPT !.buffer[format] = Normal(format, page)]
  IN Show(again, index, format)

TakeUp(stored, presets, index) ==
  /\ platform = "windows" => SelectPresetWindows(stored, presets, index)
  /\ platform = "linux" => SelectPresetLinux(stored, presets, index)
  /\ editing' = index

SelectPreset(index) ==
  /\ run = NoRun
  /\ TakeUp(Stored, userPresets, index)
  /\ UNCHANGED <<platform, files, userPresets, queued, run, edits, faults>>

SelectQueuePreset(index) ==
  /\ run = NoRun /\ queued' = index
  /\ UNCHANGED <<platform, files, userPresets, editing, format, page, builtin,
                 buffer, run, edits, faults>>

----------------------------------------------------------------------------
(* Saving.  The files are replaced atomically; the list is read again, an  *)
(* index past its end goes back to the built-in preset, and any other      *)
(* index stays as it is.                                                   *)

Kept(index, presets) == IF index > Len(presets) THEN 0 ELSE index

\* save_user_preset: over an existing file only if the user agrees.
Saved(preset, agrees) ==
  /\ Valid(preset)
  /\ files[Stem[preset.name]] # NoFile => agrees
  /\ files' = [files EXCEPT ![Stem[preset.name]] = preset]

\* The list read again, without the files that cannot be read: all of them if
\* the directory itself cannot.
Reloaded(unreadable) ==
  /\ IF unreadable = {} THEN UNCHANGED faults ELSE Fault
  /\ userPresets' = Listed({files'[s] : s \in Stems \ unreadable})
  /\ queued' = Kept(queued, userPresets')

Position(n, presets) == {i \in DOMAIN presets : presets[i].name = n}

\* on_save_parameter_preset: the new preset is selected if the list has it.
SavePreset(n, agrees, unreadable) ==
  /\ run = NoRun
  /\ Saved(AsPreset(n, Active(Stored, editing)), agrees)
  /\ Reloaded(unreadable)
  /\ LET kept == Kept(editing, userPresets')
         stored == IF kept = 0 /\ editing # 0
                   THEN [Stored EXCEPT !.builtin[format] = Normal(format, page)]
                   ELSE Stored
     IN \/ \E i \in Position(n, userPresets') : TakeUp(stored, userPresets', i)
        \/ /\ Position(n, userPresets') = {}
           /\ editing' = kept
           /\ builtin' = Stored.builtin /\ buffer' = Stored.buffer
           /\ UNCHANGED <<format, page>>
  /\ UNCHANGED <<platform, run, edits>>

\* on_open_preset_editor, and a save that is refused (a text does not parse, the
\* user keeps the existing file, the directory or the file cannot be written):
\* the page is stored and nothing else changes.
OpenEditor ==
  /\ run = NoRun
  /\ builtin' = Stored.builtin /\ buffer' = Stored.buffer
  /\ UNCHANGED <<platform, files, userPresets, editing, queued, format, page,
                 run, edits, faults>>

\* A preset file is removed outside of the Studio.
RemoveByHand(s) ==
  /\ files[s] # NoFile /\ Fault
  /\ files' = [files EXCEPT ![s] = NoFile]
  /\ UNCHANGED <<platform, userPresets, editing, queued, format, page, builtin,
                 buffer, run, edits>>

----------------------------------------------------------------------------
(* Starting the queue: config_from_ui. *)

\* Mutant: the buffers as they were before the page was stored.
QueueConfigStale(stored, f) ==
  IF queued = 0 THEN Config(f, builtin[f]) ELSE FromPreset(userPresets[queued])[f]
QueueConfig(stored, f) ==
  IF queued = 0 THEN Config(f, stored.builtin[f])
  ELSE FromPreset(userPresets[queued])[f]

Start(f) ==
  /\ run = NoRun
  /\ builtin' = Stored.builtin /\ buffer' = Stored.buffer
  /\ run' = IF QueueConfig(Stored, f) = Bad THEN NoRun
            ELSE [preset |-> queued, format |-> f, value |-> QueueConfig(Stored, f)]
  /\ UNCHANGED <<platform, files, userPresets, editing, queued, format, page,
                 edits, faults>>

RunEnds ==
  /\ run # NoRun /\ run' = NoRun
  /\ UNCHANGED <<platform, files, userPresets, editing, queued, format, page,
                 builtin, buffer, edits, faults>>

Next ==
  \/ \E v \in Values : Type(v)
  \/ \E f \in Formats : SelectFormat(f) \/ Start(f)
  \/ \E i \in 0 .. Len(userPresets) : SelectPreset(i) \/ SelectQueuePreset(i)
  \/ \E n \in Names :
       \E agrees \in BOOLEAN, lost \in SUBSET Stems : SavePreset(n, agrees, lost)
  \/ OpenEditor
  \/ \E s \in Stems : RemoveByHand(s)
  \/ RunEnds

Spec == Init /\ [][Next]_vars

----------------------------------------------------------------------------
(* What the page promises. *)

\* Every value is of its type, and both indexes are in the list: the list is
\* read at an index in four callbacks that check nothing.
TypeOK ==
  /\ platform \in Platforms
  /\ files \in [Stems -> Presets \union {NoFile}]
  /\ userPresets \in Seq(Presets)
  /\ editing \in 0 .. Len(userPresets) /\ queued \in 0 .. Len(userPresets)
  /\ format \in Formats /\ page \in Values
  /\ builtin \in Params /\ buffer \in Params
  /\ run \in [preset : 0 .. Cardinality(Names), format : Formats,
              value : Values] \union {NoRun}
  /\ edits \in 0 .. MaxEdits /\ faults \in 0 .. MaxFaults

\* The built-in parameters of a session: the page holds the format it shows.
BuiltinOf(f) == Active(Stored, 0)[f]

\* The session's built-in parameters change only when the user types into the
\* page while it shows them, as the comment at builtin_params says: editing,
\* selecting or saving a user preset never does.  It does not hold on Linux.
BuiltinKept ==
  [][\A f \in Formats : BuiltinOf(f)' # BuiltinOf(f) =>
       edits' # edits /\ editing = 0 /\ f = format]_vars

\* The same for the Windows Studio, as long as the list does not lose the
\* preset that is being edited: its index then falls back to the built-in one
\* with the page as it is.
BuiltinKeptWindows ==
  [][\A f \in Formats : platform = "windows" /\ BuiltinOf(f)' # BuiltinOf(f) =>
       \/ edits' # edits /\ editing = 0 /\ f = format
       \/ editing > Len(userPresets')]_vars

\* A run with the built-in preset uses what the page and the buffers hold when
\* it starts, with a user preset what the list has under the name the queue
\* shows; a text that does not parse never runs.
RunsWhatIsShown ==
  [][run # run' /\ run' # NoRun =>
       /\ run'.value # Bad /\ run'.preset = queued
       /\ queued = 0 => run'.value = Normal(run'.format, BuiltinOf(run'.format))
       /\ queued # 0 => run'.value =
                           Normal(run'.format, userPresets[queued].formats[run'.format])]_vars

\* A saved preset holds, for every format, what the editor showed or had kept
\* for it, and is what the page shows after it was taken up.
SaveKeepsThePage ==
  [][\A s \in Stems : files'[s] # files[s] /\ files'[s] # NoFile =>
       /\ files'[s].formats[format] = Normal(format, page)
       /\ \A f \in Formats \ {format} :
            files'[s].formats[f] = Active(Stored, editing)[f]
       /\ page' = Shown(format, files'[s].formats[format]) \/ page' = page]_vars

\* A user preset reaches the queue only by being selected there: README.md,
\* "user presets must be selected explicitly in the queue".  It
\* does not hold: an index stays while the list is sorted again.
QueuedName == IF queued = 0 THEN 0 ELSE userPresets[queued].name
QueueKeepsItsPreset ==
  [][QueuedName' # QueuedName => userPresets' = userPresets \/ queued' = 0]_vars

\* Selecting a preset shows its parameters, in the Windows Studio.
SelectionIsShown ==
  [][editing' # editing /\ userPresets' = userPresets /\ editing' # 0
       /\ platform = "windows" =>
       page' = Normal(format, userPresets[editing'].formats[format])]_vars

\* The page and its two buffers stay with their preset: a selection shows what is
\* selected, the indexes are of presets that exist, and what was typed into the
\* built-in parameters of the Windows Studio changes by typing only.
PageFollowsPreset == []TypeOK /\ BuiltinKeptWindows /\ SelectionIsShown
==============================================================================
