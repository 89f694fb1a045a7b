---------------------------- MODULE ViewerProofs ----------------------------
(***************************************************************************)
(* What the page shows, for any number of files, panels and loads.  Two    *)
(* facts carry the proof: as long as nothing overlaps, only the newest     *)
(* load can be under way, and it has not failed yet unless the engine has. *)
(***************************************************************************)
EXTENDS Viewer, TLAPS

Newest == Len(loads)

LoadsInv ==
  /\ engine \in {"loading", "ready", "failed"}
  /\ loads \in Seq([file : Files, pc : {"wait", "read", "done"}])
  /\ \A l \in DOMAIN loads : loads[l].pc = "read" => engine = "ready"

\* A load under way that nothing has overlapped.
UnderWay ==
  alone => \A l \in Active :
             /\ l = Newest
             /\ asked = loads[l].file /\ asked \notin TooLarge
             /\ error = None \/ engine = "failed"

NeedsEngine == primary # None => engine = "ready"

Answered ==
  alone /\ Active = {} =>
    \/ asked = None /\ primary = None /\ error \in {None, "engine"}
    \/ asked \in TooLarge /\ primary = kept /\ error # None
    \/ asked \in Files \ TooLarge /\ primary = asked /\ error = None
    \/ asked \in Files \ TooLarge /\ primary = None /\ error # None

\* What holds in every state, and is preserved by each handler.
ViewerInv ==
  LoadsInv /\ UnderWay /\ NeedsEngine /\ Answered /\ ResultsFollowState /\ LoadingIsTrue

Entry == [file : Files, pc : {"wait", "read", "done"}]

LEMMA InitInv == Init => ViewerInv
BY DEF Init, ViewerInv, LoadsInv, UnderWay, NeedsEngine, Answered, ResultsFollowState,
       LoadingIsTrue, Active

LEMMA EngineStep == ViewerInv /\ EngineSettles => ViewerInv'
<1> SUFFICES ASSUME ViewerInv, EngineSettles PROVE ViewerInv'
  OBVIOUS
<1>1. /\ engine = "loading" /\ engine' \in {"ready", "failed"}
      /\ UNCHANGED << loads, primary, mode, results, loading, asked, kept, alone >>
      /\ error' = error \/ (error' = "engine" /\ engine' = "failed")
  BY DEF EngineSettles, EngineStarts, EngineFails, history
<1>2. Active' = Active /\ Newest' = Newest
  BY <1>1 DEF Active, Newest
<1>3. LoadsInv'
  BY <1>1 DEF ViewerInv, LoadsInv
<1>4. UnderWay'
  BY <1>1, <1>2 DEF ViewerInv, UnderWay
<1>5. Answered'
  BY <1>1, <1>2, ViewerAssumption DEF ViewerInv, NeedsEngine, Answered, ViewerAssumption
<1> QED
  BY <1>1, <1>2, <1>3, <1>4, <1>5
  DEF ViewerInv, NeedsEngine, ResultsFollowState, LoadingIsTrue

\* What a new entry at the end of loads does to the set of active ones.
LEMMA Appended ==
  ASSUME loads \in Seq(Entry), NEW e \in Entry, loads' = Append(loads, e)
  PROVE  /\ loads' \in Seq(Entry) /\ Newest' = Newest + 1 /\ Newest \in Nat
         /\ DOMAIN loads' = DOMAIN loads \cup {Newest'}
         /\ loads'[Newest'] = e
         /\ \A l \in DOMAIN loads : loads'[l] = loads[l]
         /\ Active' = IF e.pc = "done" THEN Active ELSE Active \cup {Newest'}
<1>1. /\ loads' \in Seq(Entry) /\ Newest' = Newest + 1 /\ Newest \in Nat
      /\ DOMAIN loads = 1 .. Newest /\ DOMAIN loads' = 1 .. Newest'
      /\ loads'[Newest'] = e
      /\ \A l \in DOMAIN loads : loads'[l] = loads[l]
  BY DEF Newest
<1>2. DOMAIN loads' = DOMAIN loads \cup {Newest'} /\ Newest' \notin DOMAIN loads
  BY <1>1
<1>3. \A l : l \in Active' <=> l \in Active \/ (l = Newest' /\ e.pc # "done")
  BY <1>1, <1>2 DEF Active
<1> QED
  BY <1>1, <1>2, <1>3

LEMMA BeginStep ==
  ASSUME ViewerInv, NEW file \in Files, Begin(file)
  PROVE  ViewerInv'
<1>1. /\ loads \in Seq(Entry) /\ file # None
      /\ asked' = file /\ kept' = primary /\ alone' = (Active = {})
      /\ engine' = engine /\ mode' = mode
  BY ViewerAssumption DEF ViewerInv, LoadsInv, Entry, Begin, Asked, ViewerAssumption
<1>2. CASE file \in TooLarge
  <2>1. /\ loads' = Append(loads, [file |-> file, pc |-> "done"])
        /\ error' = "size" /\ primary' = primary /\ results' = results
        /\ loading' = loading
    BY <1>2 DEF Begin
  <2>2. [file |-> file, pc |-> "done"] \in Entry
    BY DEF Entry
  <2>3. /\ loads' \in Seq(Entry) /\ Active' = Active
        /\ \A l \in DOMAIN loads' : loads'[l].pc = "read" => engine' = "ready"
    BY <1>1, <2>1, <2>2, Appended DEF ViewerInv, LoadsInv
  <2>4. LoadsInv'
    BY <1>1, <2>3 DEF ViewerInv, LoadsInv, Entry
  <2>5. UnderWay'
    BY <1>1, <2>3 DEF UnderWay
  <2>6. error' # None
    BY <2>1, ViewerAssumption DEF ViewerAssumption
  <2>7. Answered'
    BY <1>1, <1>2, <2>1, <2>6 DEF Answered
  <2> QED
    BY <1>1, <2>1, <2>3, <2>4, <2>5, <2>7
    DEF ViewerInv, NeedsEngine, ResultsFollowState, LoadingIsTrue
<1>3. CASE file \notin TooLarge /\ engine = "failed"
  <2>1. /\ loads' = Append(loads, [file |-> file, pc |-> "done"])
        /\ error' = "load" /\ primary' = None /\ results' = None /\ loading' = FALSE
    BY <1>3 DEF Begin, Fail, Render
  <2>2. [file |-> file, pc |-> "done"] \in Entry
    BY DEF Entry
  <2>3. /\ loads' \in Seq(Entry) /\ Active' = Active
        /\ \A l \in DOMAIN loads' : loads'[l].pc = "read" => engine' = "ready"
    BY <1>1, <2>1, <2>2, Appended DEF ViewerInv, LoadsInv
  <2>4. LoadsInv'
    BY <1>1, <2>3 DEF ViewerInv, LoadsInv, Entry
  <2>5. UnderWay'
    BY <1>1, <2>3 DEF UnderWay
  <2>6. error' # None
    BY <2>1, ViewerAssumption DEF ViewerAssumption
  <2>7. Answered'
    BY <1>1, <1>3, <2>1, <2>6 DEF Answered
  <2> QED
    BY <1>1, <2>1, <2>3, <2>4, <2>5, <2>7
    DEF ViewerInv, NeedsEngine, ResultsFollowState, LoadingIsTrue
<1>4. CASE file \notin TooLarge /\ engine # "failed"
  <2> DEFINE step == IF engine = "ready" THEN "read" ELSE "wait"
             e    == [file |-> file, pc |-> step]
  <2>1. /\ loads' = Append(loads, e)
        /\ error' = None /\ primary' = primary /\ results' = results /\ loading' = TRUE
    BY <1>4 DEF Begin
  <2>2. e \in Entry /\ e.pc # "done" /\ e.file = file /\ (e.pc = "read" => engine = "ready")
    BY DEF Entry
  <2> HIDE DEF e
  <2>3. /\ loads' \in Seq(Entry) /\ Active' = Active \cup {Newest'}
        /\ loads'[Newest'] = e
        /\ \A l \in DOMAIN loads' : loads'[l].pc = "read" => engine' = "ready"
    BY <1>1, <2>1, <2>2, Appended DEF ViewerInv, LoadsInv
  <2>4. LoadsInv'
    BY <1>1, <2>3 DEF ViewerInv, LoadsInv, Entry
  <2>5. UnderWay'
    BY <1>1, <1>4, <2>1, <2>2, <2>3 DEF UnderWay
  <2>6. Answered'
    BY <2>3 DEF Answered
  <2> QED
    BY <1>1, <2>1, <2>3, <2>4, <2>5, <2>6
    DEF ViewerInv, NeedsEngine, ResultsFollowState, LoadingIsTrue
<1> QED
  BY <1>2, <1>3, <1>4

\* What a load that moves on does to the set of active ones.
LEMMA Moved ==
  ASSUME loads \in Seq(Entry), NEW l \in DOMAIN loads, NEW step \in {"read", "done"},
         At(l, step)
  PROVE  /\ loads' \in Seq(Entry) /\ Newest' = Newest
         /\ \A k \in DOMAIN loads : loads'[k].file = loads[k].file
         /\ loads'[l].pc = step
         /\ \A k \in DOMAIN loads \ {l} : loads'[k] = loads[k]
         /\ DOMAIN loads' = DOMAIN loads
         /\ Active' = IF step = "done" THEN Active \ {l} ELSE Active \cup {l}
<1>1. /\ loads' = [loads EXCEPT ![l].pc = step] /\ DOMAIN loads' = DOMAIN loads
      /\ loads[l] \in Entry
  BY DEF At
<1>2. loads'[l] = [loads[l] EXCEPT !.pc = step]
  BY <1>1
<1>3. loads'[l] \in Entry /\ loads'[l].pc = step /\ loads'[l].file = loads[l].file
  BY <1>1, <1>2 DEF Entry
<1>4. \A k \in DOMAIN loads \ {l} : loads'[k] = loads[k]
  BY <1>1
<1>5. loads' \in Seq(Entry) /\ Newest' = Newest
  BY <1>1, <1>3 DEF Newest
<1>6. \A k : k \in Active' <=> IF k = l THEN step # "done" ELSE k \in Active
  BY <1>1, <1>3, <1>4 DEF Active
<1>7. Active' = IF step = "done" THEN Active \ {l} ELSE Active \cup {l}
  BY <1>6
<1> QED
  BY <1>1, <1>3, <1>4, <1>5, <1>7

\* Either way a load ends, it was the only one if nothing overlapped it.
LEMMA EndStep ==
  ASSUME ViewerInv, NEW l \in DOMAIN loads, l \in Active, At(l, "done"),
         UNCHANGED << engine, mode, asked, kept, alone >>,
         \/ Fail
         \/ Succeed(loads[l].file) /\ engine = "ready"
  PROVE  ViewerInv'
<1>1. loads \in Seq(Entry)
  BY DEF ViewerInv, LoadsInv, Entry
<1>2. /\ loads' \in Seq(Entry) /\ Newest' = Newest /\ Active' = Active \ {l}
      /\ DOMAIN loads' = DOMAIN loads /\ loads'[l].pc = "done"
      /\ \A k \in DOMAIN loads \ {l} : loads'[k] = loads[k]
  BY <1>1, Moved
<1>3. LoadsInv'
  BY <1>2 DEF ViewerInv, LoadsInv, Entry
<1>4. alone => Active = {l} /\ asked = loads[l].file /\ asked \in Files \ TooLarge
  <2>1. loads[l] \in Entry
    BY <1>1
  <2>2. loads[l].file \in Files
    BY <2>1 DEF Entry
  <2>3. alone => /\ \A k \in Active : k = Newest
                 /\ asked = loads[l].file /\ asked \notin TooLarge
    BY DEF ViewerInv, UnderWay
  <2>4. alone => Active = {l}
    BY <2>3
  <2> QED
    BY <2>2, <2>3, <2>4
<1>5. UnderWay'
  BY <1>2, <1>4 DEF UnderWay
<1>6. loads[l].file # None /\ "load" # None
  <2>1. loads[l] \in Entry
    BY <1>1
  <2>2. loads[l].file \in Files
    BY <2>1 DEF Entry
  <2> QED
    BY <2>2, ViewerAssumption DEF ViewerAssumption
<1>7. CASE Fail
  <2>1. error' = "load" /\ primary' = None /\ results' = None /\ loading' = FALSE
    BY <1>7 DEF Fail, Render
  <2>2. Answered'
    BY <1>4, <1>6, <2>1 DEF Answered
  <2> QED
    BY <1>2, <1>3, <1>4, <1>5, <2>1, <2>2
    DEF ViewerInv, NeedsEngine, ResultsFollowState, LoadingIsTrue
<1>8. CASE Succeed(loads[l].file) /\ engine = "ready"
  <2>1. /\ primary' = loads[l].file /\ error' = error
        /\ results' = [file |-> loads[l].file, mode |-> mode] /\ loading' = FALSE
    BY <1>6, <1>8 DEF Succeed, Render
  <2>2. alone => error = None
    BY <1>4, <1>8 DEF ViewerInv, UnderWay
  <2>3. Answered'
    BY <1>4, <2>1, <2>2 DEF Answered
  <2> QED
    BY <1>2, <1>3, <1>4, <1>5, <1>6, <1>8, <2>1, <2>3
    DEF ViewerInv, NeedsEngine, ResultsFollowState, LoadingIsTrue
<1> QED
  BY <1>7, <1>8

LEMMA PollStep ==
  ASSUME ViewerInv, NEW l \in DOMAIN loads, Poll(l)
  PROVE  ViewerInv'
<1>1. loads \in Seq(Entry) /\ l \in Active
  BY DEF ViewerInv, LoadsInv, Entry, Poll, Active
<1>2. CASE engine = "failed" /\ At(l, "done") /\ Fail
  BY <1>1, <1>2, EndStep DEF Poll, history
<1>3. CASE engine = "ready" /\ At(l, "read")
  <2>1. UNCHANGED << engine, mode, primary, results, loading, error, asked, kept, alone >>
    BY <1>3 DEF Poll, history
  <2>2. /\ loads' \in Seq(Entry) /\ Newest' = Newest /\ Active' = Active \cup {l}
        /\ \A k \in DOMAIN loads : loads'[k].file = loads[k].file
    BY <1>1, <1>3, Moved
  <2>3. Active' = Active /\ Active \subseteq DOMAIN loads
    BY <1>1, <2>2 DEF Active
  <2>4. LoadsInv'
    BY <1>3, <2>1, <2>2 DEF LoadsInv, Entry
  <2>5. UnderWay'
    BY <2>1, <2>2, <2>3 DEF ViewerInv, UnderWay
  <2>6. Answered'
    BY <2>1, <2>3 DEF ViewerInv, Answered
  <2> QED
    BY <2>1, <2>3, <2>4, <2>5, <2>6
    DEF ViewerInv, NeedsEngine, ResultsFollowState, LoadingIsTrue
<1> QED
  BY <1>2, <1>3 DEF Poll

LEMMA ArriveStep ==
  ASSUME ViewerInv, NEW l \in DOMAIN loads, Arrive(l)
  PROVE  ViewerInv'
<1>1. l \in Active /\ engine = "ready"
  BY DEF ViewerInv, LoadsInv, Arrive, Active
<1>2. /\ At(l, "done") /\ UNCHANGED << engine, mode, asked, kept, alone >>
      /\ Fail \/ Succeed(loads[l].file)
  BY DEF Arrive, history
<1> QED
  BY <1>1, <1>2, EndStep

LEMMA ResetStep == ViewerInv /\ ResetState => ViewerInv'
<1> SUFFICES ASSUME ViewerInv, ResetState PROVE ViewerInv'
  OBVIOUS
<1>1. /\ primary' = None /\ error' = None /\ results' = None
      /\ asked' = None /\ alone' = (Active = {})
      /\ UNCHANGED << engine, loads, mode, loading >>
  BY DEF ResetState, Render, Asked
<1>2. Active' = Active
  BY <1>1 DEF Active
<1> QED
  BY <1>1, <1>2
  DEF ViewerInv, LoadsInv, UnderWay, NeedsEngine, Answered, ResultsFollowState, LoadingIsTrue

LEMMA ModeStep ==
  ASSUME ViewerInv, NEW p \in Panels, NEW m \in Modes, SetHeapMode(p, m)
  PROVE  ViewerInv'
<1>1. UNCHANGED << engine, loads, primary, loading, error, asked, kept, alone >>
  BY DEF SetHeapMode, history
<1>2. Active' = Active /\ Newest' = Newest
  BY <1>1 DEF Active, Newest
<1>3. LoadsInv' /\ UnderWay' /\ NeedsEngine' /\ Answered' /\ LoadingIsTrue'
  BY <1>1, <1>2 DEF ViewerInv, LoadsInv, UnderWay, NeedsEngine, Answered, LoadingIsTrue
<1>4. ResultsFollowState'
  BY DEF ViewerInv, SetHeapMode, Render, ResultsFollowState
<1> QED
  BY <1>3, <1>4 DEF ViewerInv

LEMMA StutterStep == ViewerInv /\ UNCHANGED vars => ViewerInv'
BY DEF vars, history, ViewerInv, LoadsInv, UnderWay, NeedsEngine, Answered,
       ResultsFollowState, LoadingIsTrue, Active, Newest

LEMMA StepInv == ViewerInv /\ [Next]_vars => ViewerInv'
<1> SUFFICES ASSUME ViewerInv, [Next]_vars PROVE ViewerInv'
  OBVIOUS
<1>1. ASSUME NEW f \in Files, Drop(f) \/ Pick(f) PROVE ViewerInv'
  BY <1>1, BeginStep DEF Drop, Pick
<1> QED
  BY <1>1, EngineStep, PollStep, ArriveStep, ResetStep, ModeStep, StutterStep DEF Next

\* What is drawn is the file in the state, in the current modes, whatever
\* overlaps (app.js render, setHeapMode).
THEOREM DrawingIsCurrent == Spec => []ResultsFollowState
<1>1. ViewerInv => ResultsFollowState
  BY DEF ViewerInv
<1> QED
  BY <1>1, InitInv, StepInv, PTL DEF Spec

\* Who waits for every load to end is answered: by the file asked for, an
\* error, or an empty page (app.js processFile, resetState).
THEOREM RequestsAreAnswered == Spec => []WaitingIsAnswered
<1>1. ViewerInv => WaitingIsAnswered
  BY ViewerAssumption DEF ViewerInv, Answered, WaitingIsAnswered, ViewerAssumption
<1> QED
  BY <1>1, InitInv, StepInv, PTL DEF Spec

\* The indicator is gone once no load is under way, and as long as nothing
\* overlaps a load it is there while the load runs (app.js processFile).
THEOREM IndicatorIsTrue == Spec => []LoadingIsTrue
<1>1. ViewerInv => LoadingIsTrue
  BY DEF ViewerInv
<1> QED
  BY <1>1, InitInv, StepInv, PTL DEF Spec

=============================================================================
