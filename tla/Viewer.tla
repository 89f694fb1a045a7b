------------------------------- MODULE Viewer -------------------------------
(***************************************************************************)
(* The browser viewer, web/app.js: a page that loads its engine and shows  *)
(* one file at a time.  Handlers run to completion one after the other; a  *)
(* load is cut in pieces by its two awaits, so loads overlap each other    *)
(* and the buttons.  The engine answers every call, a panic included.      *)
(***************************************************************************)
EXTENDS Naturals, Sequences

CONSTANTS
  Files,
  TooLarge, \* those above MAX_FILE_BYTES
  Panels,   \* frontpanel, blockdiagram
  Modes,    \* visual, canvas, tree
  Visual,   \* the mode a panel starts in
  MaxLoads, \* bound on the files given to the page
  None

ASSUME ViewerAssumption ==
  /\ TooLarge \subseteq Files /\ None \notin Files
  /\ None \notin {"engine", "load", "size"}
  /\ Visual \in Modes /\ MaxLoads \in Nat

VARIABLES
  engine,  \* wasmReady and wasmError
  loads,   \* the calls of processFile, oldest first
  primary, \* state.primary
  mode,    \* state.heapMode
  results, \* what the result area shows, None when it is hidden
  loading, \* is the loading indicator visible
  error,   \* where the visible error comes from
  picked,  \* value of the file input
  asked,   \* history: the last file given to the page, None after Clear
  kept,    \* history: what was shown at that time
  alone    \* history: no load was under way at that time or has begun since

vars == << engine, loads, primary, mode, results, loading, error, picked,
           asked, kept, alone >>

history == << asked, kept, alone >>

Init ==
  /\ engine = "loading"
  /\ loads = << >>
  /\ primary = None
  /\ mode = [p \in Panels |-> Visual]
  /\ results = None
  /\ loading = FALSE
  /\ error = None
  /\ picked = None
  /\ asked = None /\ kept = None /\ alone = TRUE

Active == {l \in DOMAIN loads : loads[l].pc # "done"}

\* render: the area is filled from state.primary, or hidden.
Render(file, modes) ==
  results' = IF file = None THEN None ELSE [file |-> file, mode |-> modes]

-----------------------------------------------------------------------------
(***************************************************************************)
(* The engine.                                                             *)
(***************************************************************************)

EngineStarts ==
  /\ engine = "loading"
  /\ engine' = "ready"
  /\ UNCHANGED << loads, primary, mode, results, loading, error, picked, history >>

EngineFails ==
  /\ engine = "loading"
  /\ engine' = "failed"
  /\ error' = "engine"
  /\ UNCHANGED << loads, primary, mode, results, loading, picked, history >>

EngineSettles == EngineStarts \/ EngineFails

-----------------------------------------------------------------------------
(***************************************************************************)
(* processFile.                                                            *)
(***************************************************************************)

\* Mutant of Fail: the indicator is only hidden by a load that succeeds.
FailKeepsLoading ==
  /\ error' = "load" /\ primary' = None /\ Render(None, mode)
  /\ UNCHANGED loading

\* Mutant of Fail: what was shown before stays.
FailKeepsResults ==
  /\ error' = "load" /\ loading' = FALSE
  /\ UNCHANGED << primary, results >>

\* The catch and finally branches.
Fail ==
  /\ error' = "load" /\ primary' = None /\ Render(None, mode)
  /\ loading' = FALSE

Succeed(file) ==
  /\ primary' = file /\ picked' = None /\ Render(file, mode) /\ loading' = FALSE
  /\ UNCHANGED error

Asked(file) ==
  asked' = file /\ kept' = primary /\ alone' = (Active = {})

\* Up to the first wait.  waitForWasm looks at the engine before it waits, and
\* the continuation runs before any other handler.
Begin(file) ==
  /\ Len(loads) < MaxLoads
  /\ Asked(file)
  /\ UNCHANGED << engine, mode >>
  /\ \/ /\ file \in TooLarge
        /\ loads' = Append(loads, [file |-> file, pc |-> "done"])
        /\ error' = "size"
        /\ UNCHANGED << primary, results, loading >>
     \/ /\ file \notin TooLarge /\ engine = "failed"
        /\ loads' = Append(loads, [file |-> file, pc |-> "done"])
        /\ Fail
     \/ /\ file \notin TooLarge /\ engine # "failed"
        /\ loads' = Append(loads, [file |-> file,
                                   pc |-> IF engine = "ready" THEN "read" ELSE "wait"])
        /\ error' = None /\ loading' = TRUE
        /\ UNCHANGED << primary, results >>

Drop(file) == Begin(file) /\ UNCHANGED picked

\* The input reports a choice only if it differs from the one it holds.
Pick(file) == picked # file /\ Begin(file) /\ picked' = file

At(l, step) == loads' = [loads EXCEPT ![l].pc = step]

\* Mutant of Poll: only readiness is looked for.
PollReady(l) ==
  /\ loads[l].pc = "wait" /\ engine = "ready"
  /\ At(l, "read")
  /\ UNCHANGED << engine, primary, mode, results, loading, error, picked, history >>

\* The check every 50 ms.
Poll(l) ==
  /\ loads[l].pc = "wait"
  /\ UNCHANGED << engine, mode, picked, history >>
  /\ \/ engine = "failed" /\ At(l, "done") /\ Fail
     \/ /\ engine = "ready" /\ At(l, "read")
        /\ UNCHANGED << primary, results, loading, error >>

\* The bytes arrive or cannot be read; they parse or not, and are drawn or not.
Arrive(l) ==
  /\ loads[l].pc = "read"
  /\ At(l, "done")
  /\ UNCHANGED << engine, mode, history >>
  /\ \/ Fail /\ UNCHANGED picked
     \/ Succeed(loads[l].file)

-----------------------------------------------------------------------------
(***************************************************************************)
(* The other handlers that change what is shown.                           *)
(***************************************************************************)

\* resetState: loads under way are not told.
ResetState ==
  /\ primary' = None /\ picked' = None /\ error' = None
  /\ Render(None, mode)
  /\ Asked(None)
  /\ UNCHANGED << engine, loads, mode, loading >>

\* Mutant of SetHeapMode: the panel is not drawn again.
SetModeOnly(p, m) ==
  /\ mode' = [mode EXCEPT ![p] = m]
  /\ UNCHANGED << engine, loads, primary, results, loading, error, picked, history >>

SetHeapMode(p, m) ==
  /\ mode' = [mode EXCEPT ![p] = m]
  /\ IF primary # None THEN Render(primary, mode') ELSE UNCHANGED results
  /\ UNCHANGED << engine, loads, primary, loading, error, picked, history >>

Next ==
  \/ EngineSettles
  \/ \E f \in Files : Drop(f) \/ Pick(f)
  \/ \E l \in DOMAIN loads : Poll(l) \/ Arrive(l)
  \/ ResetState
  \/ \E p \in Panels, m \in Modes : SetHeapMode(p, m)

\* The browser settles a fetch and a read, and fires its timers; nobody has to
\* drop or click.
Fairness ==
  /\ WF_vars(EngineSettles)
  /\ \A l \in 1 .. MaxLoads :
       /\ WF_vars(l \in DOMAIN loads /\ Poll(l))
       /\ WF_vars(l \in DOMAIN loads /\ Arrive(l))

Spec == Init /\ [][Next]_vars /\ Fairness

-----------------------------------------------------------------------------
(***************************************************************************)
(* What the user sees.                                                     *)
(***************************************************************************)

TypeOK ==
  /\ engine \in {"loading", "ready", "failed"}
  /\ loads \in Seq([file : Files, pc : {"wait", "read", "done"}])
  /\ primary \in Files \cup {None}
  /\ mode \in [Panels -> Modes]
  /\ results \in [file : Files, mode : [Panels -> Modes]] \cup {None}
  /\ loading \in BOOLEAN
  /\ error \in {None, "engine", "load", "size"}
  /\ picked \in Files \cup {None}
  /\ asked \in Files \cup {None} /\ kept \in Files \cup {None}
  /\ alone \in BOOLEAN

\* What is drawn is what the state says, in the modes the buttons show, however
\* loads, mode changes and Clear interleave.
ResultsFollowState ==
  results = IF primary = None THEN None ELSE [file |-> primary, mode |-> mode]

\* The indicator disappears with the last load, and as long as loads do not
\* overlap it is there while one runs.  (With two at a time the first to end
\* hides it.)
LoadingIsTrue ==
  /\ Active = {} => ~loading
  /\ alone /\ Active # {} => loading

\* Someone who waits for each load to end gets an answer to the last request:
\* the file asked for, an error and nothing else, an error beside what was
\* there before if the file is too large, or an empty page after Clear.  (The
\* answers of overlapping loads, and of one overtaken by Clear, come in the
\* order they end; the last one wins.)
WaitingIsAnswered ==
  alone /\ Active = {} =>
    CASE asked = None      -> primary = None /\ error \in {None, "engine"}
      [] asked \in TooLarge -> primary = kept /\ error # None
      [] OTHER             -> \/ primary = asked /\ error = None
                              \/ primary = None /\ error # None

\* Every load ends, also when the engine fails while it waits.
LoadsEnd ==
  \A l \in 1 .. MaxLoads : l \in DOMAIN loads ~> l \in DOMAIN loads /\ loads[l].pc = "done"

=============================================================================
