---------------------------- MODULE StudioUpdate ----------------------------
(***************************************************************************)
(* The update page of the Studio: checks for a newer version, the offer    *)
(* they find, the update channel, and the installation the user asks for.  *)
(* Several Studios may run; they share the program directory with its      *)
(* configuration file and the record of the newest manifest accepted on    *)
(* this machine (SecurityState), and have each their own copy of the       *)
(* update state, which is written back with the rest of the configuration. *)
(*                                                                         *)
(* Manifest number m is the m-th published, and m is its sequence.         *)
(* Signatures and the helper's transaction are not part of this module: a  *)
(* fetch fails or returns a manifest that was published, a download takes  *)
(* its time and fails or not.                                              *)
(***************************************************************************)
EXTENDS Integers, FiniteSets, FiniteSetsExt

CONSTANTS
  Studios,
  Versions,    \* numbers: a greater version is newer
  Manifests,   \* 1 .. the number of manifests
  Listed,      \* manifest -> versions it lists
  Revoked,     \* manifest -> versions it revokes
  Prereleases, \* versions of the prerelease channel
  MinUpdater,  \* version -> the oldest version that may install it
  Platforms,
  MaxEdits,    \* bound on channel switches, toggles and languages chosen
  MaxFaults,   \* bound on failed reads, saves, fetches and installations, and on kills
  MaxStarts    \* bound on Studios started

ASSUME UpdateAssumption ==
  /\ Versions \subseteq Nat \ {0} /\ IsFiniteSet(Versions) /\ Versions # {}
  /\ Manifests \subseteq Nat \ {0} /\ 1 \in Manifests
  /\ Listed \in [Manifests -> SUBSET Versions]
  /\ Revoked \in [Manifests -> SUBSET Versions]
  /\ Prereleases \subseteq Versions /\ MinUpdater \in [Versions -> Nat]
  /\ Platforms \subseteq {"windows", "linux"}
  /\ MaxEdits \in Nat /\ MaxFaults \in Nat /\ MaxStarts \in Nat

VARIABLES
  platform,
  installed, \* the version in the program directory
  served,    \* the newest manifest published
  record,    \* the newest manifest accepted on this machine
  file,      \* the configuration file
  inStep,    \* Studios whose last read, or write reported as done, is what the file holds
  studio,    \* Studio -> its state, or Off
  helper,    \* Studio -> the update helper it started last, or Idle
  edits, faults, starts

vars == <<platform, installed, served, record, file, inStep, studio, helper,
          edits, faults, starts>>

Offers == Versions \union {0}
Known == Manifests \union {0}

\* The update state, UpdatePersistentState, and the language for the settings
\* that are saved with it.  0 is no version and no manifest.
UpdateState == [channel : {"stable", "prerelease"}, changelog : BOOLEAN,
                language : BOOLEAN, seen : Offers, checked : BOOLEAN,
                sequence : Known, pending : Offers, cache : Known]
Defaults == [channel |-> "stable", changelog |-> FALSE, language |-> FALSE,
             seen |-> 0, checked |-> FALSE, sequence |-> 0, pending |-> 0,
             cache |-> 0]

\* What a Studio's update thread does: at most one thing.  `number` is the
\* floor of a fetch, or the manifest it returned (0: it failed).
JobKinds == {"none", "check", "answered", "install", "loading", "failed", "staged"}
Jobs == [kind : JobKinds,
         channel : {"stable", "prerelease"}, number : Known, want : Offers]
NoJob == [kind |-> "none", channel |-> "stable", number |-> 0, want |-> 0]

Off == [on |-> FALSE]
Running == [on : {TRUE}, version : Versions, mem : UpdateState,
            snapshot : UpdateState, history : SUBSET Versions, writable : BOOLEAN, converting : BOOLEAN,
            job : Jobs]

Idle == [phase |-> "idle"]
\* A helper: the installation it was started for, by a Studio of which version,
\* the version it replaced (0: none yet) and the Studio it started itself.
Helpers == [phase : {"starts", "waits", "replaced", "started"}, asked : Jobs,
            by : Versions, from : Offers, child : Studios]

Fault == faults < MaxFaults /\ faults' = faults + 1
Edit == edits < MaxEdits /\ edits' = edits + 1

----------------------------------------------------------------------------
(* What a manifest offers. *)

VisibleTo(v, channel) == v \notin Prereleases \/ channel = "prerelease"

Candidates(m, current, channel) ==
  {v \in Listed[m] \ Revoked[m] :
     v > current /\ VisibleTo(v, channel) /\ MinUpdater[v] <= current}

\* The newest candidate, or 0.
Candidate(m, current, channel) == Max({0} \union Candidates(m, current, channel))

\* A manifest is refused if it is older than the sequence the fetch started
\* from, and if it is older than the machine's record.
Fresh(m, floor) == m >= floor
Accepted(m, floor) == Fresh(m, floor) /\ m >= record

\* Mutant: an accepted manifest is not recorded.
RecordedNot(m) == record
Recorded(m) == Max({record, m})

\* The pending version is newer than the program and its channel is chosen.
Newer(u, version) == u.pending > version /\ VisibleTo(u.pending, u.channel)

\* The pending version as the user sees it, or 0.
Offer(u, version) == IF Newer(u, version) THEN u.pending ELSE 0

\* The versions of the changelog page: those built in and those of a manifest.
History(version, m) ==
  {v \in Versions : v <= version} \union (IF m = 0 THEN {} ELSE Listed[m])

----------------------------------------------------------------------------
(* The configuration file. *)

\* The whole configuration is replaced atomically.
Write(s, u) == file' = u /\ inStep' = {s}
\* It is replaced, but the directory cannot be flushed: an error is reported.
WriteUnsynced(u) == file' = u /\ inStep' = {}
NoWrite == UNCHANGED <<file, inStep>>

\* Mutant: a restored state keeps the pending version.
RestoredButPending(before, now) == [before EXCEPT !.pending = now.pending]
\* Capturing and restoring the update state leaves the language alone.
Restored(before, now) == [before EXCEPT !.language = now.language]

\* Saving the memory `u` of the Studio `st`.  The Windows Studio writes only if
\* something changed since it wrote last, be it the time of the last check; the
\* Linux Studio only if it could read the file when it started.  A write that
\* the Linux Studio takes for a failure may have replaced the file.
Outcomes(st, u, checkedNow) ==
  IF platform = "windows" /\ u = st.snapshot /\ ~checkedNow THEN {"skipped"}
  ELSE {"failed"} \union (IF ~st.writable THEN {}
                          ELSE IF platform = "linux" THEN {"written", "unsynced"}
                          ELSE {"written"})

Errors == {"failed", "unsynced"}

Saving(s, st, u, outcome) ==
  /\ CASE outcome = "written"  -> Write(s, u)
       [] outcome = "unsynced" -> WriteUnsynced(u)
       [] OTHER -> NoWrite
  /\ IF outcome \in Errors /\ st.writable THEN Fault ELSE UNCHANGED faults

\* A save that reports an error leaves the memory as it was before.
Saved(st, u, outcome) ==
  IF outcome \in Errors THEN [st EXCEPT !.mem = Restored(st.mem, u)]
  ELSE [st EXCEPT !.mem = u, !.snapshot = u]

----------------------------------------------------------------------------
(* Checking. *)

\* A check that is due starts with the sequence and the channel of now; while
\* the update thread works, none starts.
CheckStarted(st) ==
  IF st.job.kind # "none" THEN st
  ELSE [st EXCEPT !.job = [NoJob EXCEPT !.kind = "check", !.channel = st.mem.channel,
                                        !.number = st.mem.sequence]]

\* The thread has an answer: any manifest published so far that is accepted.
Fetch(s, m) ==
  /\ studio[s].on /\ studio[s].job.kind = "check"
  /\ m \in 1 .. served /\ Accepted(m, studio[s].job.number)
  /\ record' = Recorded(m)
  /\ studio' = [studio EXCEPT ![s].job = [@ EXCEPT !.kind = "answered", !.number = m]]
  /\ UNCHANGED <<platform, installed, served, file, inStep, helper, edits, faults, starts>>

\* A fetch fails.  On Linux the record may have been replaced by then: the last
\* thing that fails is to flush its directory.
RecordAfterFailure(floor) ==
  \/ UNCHANGED record
  \/ \E m \in Manifests :
       /\ platform = "linux" /\ m <= served
       /\ Accepted(m, floor) /\ record' = Recorded(m)

FetchFails(s) ==
  /\ studio[s].on /\ studio[s].job.kind = "check"
  /\ Fault /\ RecordAfterFailure(studio[s].job.number)
  /\ studio' = [studio EXCEPT ![s].job = [@ EXCEPT !.kind = "answered", !.number = 0]]
  /\ UNCHANGED <<platform, installed, served, file, inStep, helper, edits, starts>>

\* Mutant: a revoked version stays pending.
NotClearedFor(u, m) == u
\* A pending version goes if the manifest revokes it.
Cleared(u) == [u EXCEPT !.pending = 0]
ClearedFor(u, m) == IF u.pending \in Revoked[m] THEN Cleared(u) ELSE u

\* A candidate takes the place of the pending version; without one it stays.
Found(u, candidate) == IF candidate = 0 THEN u ELSE [u EXCEPT !.pending = candidate]

\* The update state with an answer taken over.  The candidate is chosen for the
\* channel the check began with.
Taken(st, job) ==
  LET candidate == Candidate(job.number, st.version, job.channel)
  IN [Found(ClearedFor(st.mem, job.number), candidate)
      EXCEPT !.cache = job.number, !.checked = TRUE, !.sequence = job.number]

\* The answer reaches the window: the manifest is taken over and saved, and its
\* changelogs are shown; or nothing changes.
CheckReturns(s) ==
  LET job == studio[s].job
      st == [studio[s] EXCEPT !.job = NoJob]
  IN /\ studio[s].on /\ job.kind = "answered"
     /\ \/ /\ job.number = 0
           /\ studio' = [studio EXCEPT ![s] = st]
           /\ NoWrite /\ UNCHANGED faults
        \/ /\ job.number # 0
           /\ \E outcome \in Outcomes(st, Taken(st, job), TRUE) :
                LET saved == Saved(st, Taken(st, job), outcome)
                IN /\ Saving(s, st, Taken(st, job), outcome)
                   /\ studio' = [studio EXCEPT ![s] =
                        IF outcome \in Errors THEN saved
                        ELSE [saved EXCEPT !.history = History(st.version, job.number)]]
     /\ UNCHANGED <<platform, installed, served, record, helper, edits, starts>>

----------------------------------------------------------------------------
(* Settings of the page. *)

Settings(s, u) ==
  /\ \E outcome \in Outcomes(studio[s], u, FALSE) :
       /\ Saving(s, studio[s], u, outcome)
       /\ studio' = [studio EXCEPT ![s] = Saved(studio[s], u, outcome)]
  /\ UNCHANGED <<platform, installed, served, record, helper, starts>>

\* The channel is saved, then a check is started.
SelectChannel(s, channel) ==
  LET u == [studio[s].mem EXCEPT !.channel = channel]
  IN /\ studio[s].on /\ Edit
     /\ \E outcome \in Outcomes(studio[s], u, FALSE) :
          LET st == Saved(studio[s], u, outcome)
          IN /\ Saving(s, studio[s], u, outcome)
             /\ studio' = [studio EXCEPT ![s] = IF outcome \in Errors THEN st
                                                ELSE CheckStarted(st)]
     /\ UNCHANGED <<platform, installed, served, record, helper, starts>>

\* One of the changelog settings, each saved at once.
ToggleChangelog(s) ==
  /\ studio[s].on /\ Edit
  /\ Settings(s, [studio[s].mem EXCEPT !.changelog = ~ @])

\* The language is set in memory; the Windows Studio's timer saves it.
SelectLanguage(s) ==
  /\ studio[s].on /\ Edit
  /\ studio' = [studio EXCEPT ![s].mem.language = ~ @]
  /\ NoWrite
  /\ UNCHANGED <<platform, installed, served, record, helper, faults, starts>>

ConfigTimer(s) ==
  /\ platform = "windows"
  /\ studio[s].on /\ studio[s].mem # studio[s].snapshot
  /\ Settings(s, studio[s].mem)
  /\ UNCHANGED edits

----------------------------------------------------------------------------
(* Installing. *)

\* A conversion starts and ends; it does not ask the update thread.
StartConversion(s) ==
  /\ studio[s].on /\ ~ studio[s].converting
  /\ studio' = [studio EXCEPT ![s].converting = TRUE]
  /\ UNCHANGED <<platform, installed, served, record, file, inStep, helper,
                 edits, faults, starts>>
ConversionEnds(s) ==
  /\ studio[s].on /\ studio[s].converting
  /\ studio' = [studio EXCEPT ![s].converting = FALSE]
  /\ UNCHANGED <<platform, installed, served, record, file, inStep, helper,
                 edits, faults, starts>>

\* An installation may be asked for: there is an offer, no conversion runs and
\* the update thread is free.
MayInstall(st) ==
  Newer(st.mem, st.version) /\ ~ st.converting /\ st.job.kind = "none"
Asked(st) == [kind |-> "install", channel |-> st.mem.channel,
              number |-> st.mem.sequence, want |-> st.mem.pending]

\* The user clicks the version, and on Windows agrees.
VersionClicked(s) ==
  /\ studio[s].on /\ MayInstall(studio[s])
  /\ studio' = [studio EXCEPT ![s].job = Asked(studio[s])]
  /\ UNCHANGED <<platform, installed, served, record, file, inStep, helper,
                 edits, faults, starts>>

\* The manifest is fetched again: its candidate must still be what was asked for.
StillAsked(m, st) == Candidate(m, st.version, st.job.channel) = st.job.want

\* The thread fetches first; then it downloads what the manifest lists, which may
\* take long: other Studios go on, and may accept newer manifests.
Refetch(s, m) ==
  /\ studio[s].on /\ studio[s].job.kind = "install"
  /\ m \in 1 .. served /\ Accepted(m, studio[s].job.number)
  /\ record' = Recorded(m)
  /\ studio' = [studio EXCEPT ![s].job =
       IF StillAsked(m, studio[s]) THEN [@ EXCEPT !.kind = "loading", !.number = m]
       ELSE [@ EXCEPT !.kind = "failed"]]
  /\ UNCHANGED <<platform, installed, served, file, inStep, helper, edits, faults, starts>>

\* The fetch, the download or the start of the helper fails.
StageFails(s) ==
  /\ studio[s].on /\ Fault
  /\ \/ studio[s].job.kind = "install" /\ RecordAfterFailure(studio[s].job.number)
     \/ studio[s].job.kind = "loading" /\ UNCHANGED record
  /\ studio' = [studio EXCEPT ![s].job.kind = "failed"]
  /\ UNCHANGED <<platform, installed, served, file, inStep, helper, edits, starts>>

\* The download is verified and the helper is started.  (Bound: a place for a
\* Studio has one helper at a time.)
Launch(s) ==
  /\ studio[s].on /\ studio[s].job.kind = "loading" /\ helper[s] = Idle
  /\ studio' = [studio EXCEPT ![s].job.kind = "staged"]
  /\ helper' = [helper EXCEPT ![s] =
       [phase |-> "starts", asked |-> studio[s].job, by |-> studio[s].version,
        from |-> 0, child |-> s]]
  /\ UNCHANGED <<platform, installed, served, record, file, inStep, edits, faults, starts>>

\* A failed installation is shown; after a staged one the window is hidden, and
\* the Studio ends without the close request that saves the configuration.
InstallReturns(s) ==
  /\ studio[s].on /\ studio[s].job.kind \in {"failed", "staged"}
  /\ studio' = [studio EXCEPT ![s] = IF studio[s].job.kind = "staged" THEN Off
                                     ELSE [studio[s] EXCEPT !.job = NoJob]]
  /\ UNCHANGED <<platform, installed, served, record, file, inStep, helper,
                 edits, faults, starts>>

----------------------------------------------------------------------------
(* The helper. *)

Goes(s, phase) == helper[s] # Idle /\ helper[s].phase = phase
Ends(s) == helper' = [helper EXCEPT ![s] = Idle]

\* The Studio that started it has ended.
ParentEnded(s) == studio[s].on => studio[s].job.kind # "staged"

\* It accepts the manifest of the installation once more, now with no floor but
\* the record, and looks up the version there.
Installable(v, m) == v \in Listed[m] \ Revoked[m]
\* Mutant: the manifest is not accepted once more.
GoesOnListed(job) == Installable(job.want, job.number)
MayGoOn(job) == Accepted(job.number, 0) /\ Installable(job.want, job.number)

HelperVerifies(s) ==
  /\ Goes(s, "starts") /\ MayGoOn(helper[s].asked)
  /\ record' = Recorded(helper[s].asked.number)
  /\ helper' = [helper EXCEPT ![s].phase = "waits"]
  /\ UNCHANGED <<platform, installed, served, file, inStep, studio, edits, faults, starts>>

\* It ends if the manifest is refused by now, or if it finds no parent any more.
HelperRefuses(s) ==
  /\ Goes(s, "starts") /\ (~MayGoOn(helper[s].asked) \/ ParentEnded(s))
  /\ Ends(s)
  /\ UNCHANGED <<platform, installed, served, record, file, inStep, studio, edits,
                 faults, starts>>

\* It waits for the Studio to end and replaces the program.
HelperReplaces(s) ==
  /\ Goes(s, "waits") /\ ParentEnded(s)
  /\ installed' = helper[s].asked.want
  /\ helper' = [helper EXCEPT ![s].phase = "replaced", ![s].from = installed]
  /\ UNCHANGED <<platform, served, record, file, inStep, studio, edits, faults, starts>>

\* It commits: on Windows once the Studio it started confirms that it is the
\* version asked for, on Linux once the new program has run; the Studio it starts
\* then is one the user sees.
Confirmed(h) == studio[h.child].on /\ studio[h.child].version = h.asked.want
HelperCommits(s) ==
  /\ \/ platform = "linux" /\ Goes(s, "replaced")
     \/ Goes(s, "started") /\ Confirmed(helper[s])
  /\ Ends(s)
  /\ UNCHANGED <<platform, installed, served, record, file, inStep, studio, edits,
                 faults, starts>>

\* It gives up: the Studio it started ends, the program is the one it replaced.
HelperGivesUp(s) ==
  /\ helper[s] # Idle /\ Fault
  /\ installed' = IF helper[s].phase \in {"starts", "waits"} THEN installed ELSE helper[s].from
  /\ studio' = IF Goes(s, "started") THEN [studio EXCEPT ![helper[s].child] = Off]
               ELSE studio
  /\ Ends(s)
  /\ UNCHANGED <<platform, served, record, file, inStep, edits, starts>>

----------------------------------------------------------------------------
(* Starting and ending. *)

\* The cached manifest is only shown: one that no longer verifies is dropped,
\* and so is one older than the sequence.
CacheRestored(u, verifies) ==
  IF u.cache # 0 /\ verifies /\ Fresh(u.cache, u.sequence)
  THEN [u EXCEPT !.sequence = Max({u.sequence, u.cache})]
  ELSE [u EXCEPT !.cache = 0]

Started(readable, u) ==
  [on |-> TRUE, version |-> installed, mem |-> u, snapshot |-> u,
   history |-> History(installed, u.cache),
   writable |-> readable \/ platform = "windows", converting |-> FALSE, job |-> NoJob]

\* What a Studio reads at its start: the defaults if the file cannot be read.
Loaded(readable, verifies) ==
  CacheRestored(IF readable THEN file ELSE Defaults, verifies)
LoadedIn(s, readable) ==
  /\ file' = file
  /\ inStep' = IF readable THEN inStep \union {s} ELSE inStep \ {s}
Bounded == starts < MaxStarts /\ starts' = starts + 1

\* A check at the start is due if the last one is old or unknown.
Due(u, old) == old \/ ~ u.checked

\* A user starts a Studio.
Start(s, readable, verifies, old) ==
  LET u == Loaded(readable, verifies)
      st == Started(readable, u)
  IN /\ ~ studio[s].on /\ Bounded /\ LoadedIn(s, readable)
     /\ IF readable THEN UNCHANGED faults ELSE Fault
     /\ studio' = [studio EXCEPT ![s] = IF Due(u, old) THEN CheckStarted(st) ELSE st]
     /\ UNCHANGED <<platform, installed, served, record, helper, edits>>

\* The Windows helper starts the new version, which clears and writes a pending
\* version that is its own, if it is the one asked for, and then confirms.  It
\* does not check.
StartUpdated(s, h, readable, verifies, saved) ==
  LET u == Loaded(readable, verifies)
      clears == installed = helper[h].asked.want /\ u.pending = installed
  IN /\ platform = "windows" /\ Goes(h, "replaced")
     /\ ~ studio[s].on /\ Bounded
     /\ IF ~ readable \/ (clears /\ ~ saved) THEN Fault ELSE UNCHANGED faults
     /\ helper' = [helper EXCEPT ![h].phase = "started", ![h].child = s]
     /\ studio' = [studio EXCEPT ![s] = Started(readable, IF clears THEN Cleared(u) ELSE u)]
     /\ IF clears /\ saved THEN Write(s, Cleared(u)) ELSE LoadedIn(s, readable)
     /\ UNCHANGED <<platform, installed, served, record, edits>>

\* The window is closed: the changelog of this version counts as seen.
Seen(st) == [st.mem EXCEPT !.seen = st.version]
Close(s) ==
  /\ studio[s].on
  /\ \E outcome \in Outcomes(studio[s], Seen(studio[s]), FALSE) :
       Saving(s, studio[s], Seen(studio[s]), outcome)
  /\ studio' = [studio EXCEPT ![s] = Off]
  /\ UNCHANGED <<platform, installed, served, record, helper, edits, starts>>

\* The process is killed, or the session ends.
Kill(s) ==
  /\ studio[s].on /\ Fault
  /\ studio' = [studio EXCEPT ![s] = Off]
  /\ UNCHANGED <<platform, installed, served, record, file, inStep, helper, edits, starts>>

Publish ==
  /\ served + 1 \in Manifests /\ served' = served + 1
  /\ UNCHANGED <<platform, installed, record, file, inStep, studio, helper,
                 edits, faults, starts>>

Init ==
  /\ platform \in Platforms
  /\ installed = Min(Versions) /\ served = 1 /\ record = 0
  /\ file = Defaults /\ inStep = {}
  /\ studio = [s \in Studios |-> Off] /\ helper = [s \in Studios |-> Idle]
  /\ edits = 0 /\ faults = 0 /\ starts = 0

Next ==
  \/ \E s \in Studios :
       \/ \E readable, verifies, also \in BOOLEAN :
            \/ Start(s, readable, verifies, also)
            \/ \E h \in Studios : StartUpdated(s, h, readable, verifies, also)
       \/ \E m \in Manifests : Fetch(s, m) \/ Refetch(s, m)
       \/ FetchFails(s) \/ CheckReturns(s)
       \/ \E channel \in {"stable", "prerelease"} : SelectChannel(s, channel)
       \/ ToggleChangelog(s) \/ SelectLanguage(s) \/ ConfigTimer(s)
       \/ StartConversion(s) \/ ConversionEnds(s)
       \/ VersionClicked(s) \/ StageFails(s) \/ Launch(s) \/ InstallReturns(s)
       \/ HelperVerifies(s) \/ HelperRefuses(s) \/ HelperReplaces(s)
       \/ HelperCommits(s) \/ HelperGivesUp(s)
       \/ Close(s) \/ Kill(s)
  \/ Publish

Spec == Init /\ [][Next]_vars

----------------------------------------------------------------------------
(* What the update page promises. *)

TypeOK ==
  /\ platform \in Platforms /\ installed \in Versions
  /\ served \in Manifests /\ record \in Known
  /\ file \in UpdateState /\ inStep \subseteq Studios
  /\ studio \in [Studios -> Running \union {Off}]
  /\ helper \in [Studios -> Helpers \union {Idle}]
  /\ edits \in 0 .. MaxEdits /\ faults \in 0 .. MaxFaults /\ starts \in 0 .. MaxStarts

\* The update states that exist: the file's and those of running Studios.
States == {file} \union {studio[s].mem : s \in {t \in Studios : studio[t].on}}

\* No update state is ahead of the machine's record of accepted manifests.
RecordCoversStates ==
  \A u \in States : u.sequence <= record /\ u.cache <= record

\* What a Studio shows is what the next one will: as long as the file holds
\* what this Studio read, or was told that it wrote, both have the same offer,
\* channel, sequence and changelog setting, and the changelogs shown are those
\* of the manifest it holds.  A save that reports an error and left the file
\* alone must not part them.  One that reports an error after it replaced the
\* file, on Linux, does: the file then has what the Studio took back, and the
\* Studio is out of step until it saves again.
ShownIsSaved ==
  \A s \in inStep :
    studio[s].on =>
      LET u == studio[s].mem
          v == studio[s].version
      IN /\ Offer(u, v) = Offer(file, v)
         /\ u.channel = file.channel /\ u.changelog = file.changelog
         /\ u.sequence = file.sequence /\ u.checked = file.checked
         /\ studio[s].history = History(v, u.cache)

\* A helper goes on to replace the program only with the best offer of the newest
\* manifest that any Studio of this machine has accepted by then, whatever was
\* published and accepted elsewhere while the update was downloaded.  A manifest
\* accepted after the helper looked, while it waits for the Studio to end, does
\* not stop it.
VerifiesBestKnown ==
  [][\A s \in Studios :
       Goes(s, "starts") /\ Goes(s, "waits")' =>
         LET v == helper[s].asked.want
         IN /\ v \in Listed[record'] \ Revoked[record'] /\ v > helper[s].by
            /\ \A w \in Candidates(record', helper[s].by, helper[s].asked.channel) : w <= v]_vars

\* An offer leaves the window of a running Studio only because the manifest taken
\* over revokes it, the channel is switched, or a check that began with the
\* other channel is answered: update_model.ixx says that only a revocation
\* clears it, never a failed check, an unsaved state or an empty answer.
OfferStays ==
  [][\A s \in Studios :
       studio[s].on /\ studio'[s].on /\ Offer(studio[s].mem, studio[s].version) # 0
         /\ Offer(studio'[s].mem, studio'[s].version) = 0 =>
       \/ studio[s].mem.pending \in Revoked[studio'[s].mem.sequence]
       \/ studio'[s].mem.channel # studio[s].mem.channel
       \/ studio[s].job.channel # studio[s].mem.channel]_vars

\* The sequence of a running Studio and the machine's record never go back.
SequenceForward ==
  [][/\ record' >= record
     /\ \A s \in Studios : studio[s].on /\ studio'[s].on =>
          studio'[s].mem.sequence >= studio[s].mem.sequence]_vars

\* The offer of a Studio goes when it is revoked and only then, or with its channel.
\* A version that the manifest last taken over revokes is not pending, in memory or
\* in the file, whatever was saved, restored or read in between.
OfferExact ==
  /\ [](\A u \in States : u.sequence # 0 => u.pending \notin Revoked[u.sequence])
  /\ OfferStays

\* The machine's record leads: no state is ahead of it, and neither goes back.
RecordLeads == [](TypeOK /\ RecordCoversStates) /\ SequenceForward
==============================================================================
