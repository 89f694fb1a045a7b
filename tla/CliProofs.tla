----------------------------- MODULE CliProofs ------------------------------
(***************************************************************************)
(* Theorems about the commands, for every set of files, commands and paths *)
(* and whatever is killed or fails in between: a refused set-meta or       *)
(* repair leaves every file as it was; what succeeds has delivered what    *)
(* was asked for; repair mends what it can and nothing else.               *)
(***************************************************************************)
EXTENDS Cli, RsrcProofs

\* Steps a command takes before it touches a file.
Untouched == {"open", "create", "describe", "rename", "mend", "save"}

\* Where a command can be depends on its verb: rewrite creates and encodes, the
\* others never do.  So a refusal to serialize that follows the truncation of
\* the output is always rewrite's.
CliInv ==
  /\ cmd.verb \in Verbs
  /\ pc \in Untouched \cup {"encode", "fill", "check", "exited"}
  /\ pc \in Untouched => fs = before
  /\ pc \in {"create", "encode"} => cmd.verb = "rewrite"
  /\ RefusalLeavesFiles

LEMMA InitInv == Init => CliInv
BY CommandsAssumption DEF Init, CliInv, RefusalLeavesFiles, Ended, Untouched, Verbs

\* A step that only moves on within the steps before the output is touched.
LEMMA MovesOn ==
  ASSUME CliInv, pc \in Untouched, UNCHANGED << fs, cmd, before >>,
         pc' \in Untouched, pc' = "create" => cmd.verb = "rewrite"
  PROVE  CliInv'
BY DEF CliInv, RefusalLeavesFiles, Ended, Untouched, Verbs

\* A command that ends before it has touched a file has left all of them.
LEMMA EndsUntouched ==
  ASSUME CliInv, pc \in Untouched, UNCHANGED fs, NEW e, Exit(e)
  PROVE  CliInv'
BY DEF CliInv, RefusalLeavesFiles, Ended, Untouched, Verbs, Exit

\* One that ends later does not end in a refusal, unless it is a rewrite.
LEMMA EndsLater ==
  ASSUME CliInv, NEW e, Exit(e), e \in {"ok", "write", "validate", "crash", "serialize"},
         e = "serialize" => cmd.verb = "rewrite"
  PROVE  CliInv'
BY DEF CliInv, RefusalLeavesFiles, Ended, Untouched, Verbs, Exit

LEMMA StepInv == CliInv /\ [Next]_vars => CliInv'
<1> SUFFICES ASSUME CliInv, [Next]_vars PROVE CliInv'
  OBVIOUS
<1>1. ASSUME NEW c \in Commands, Start(c) PROVE CliInv'
  BY <1>1, CommandsAssumption
  DEF Start, CliInv, RefusalLeavesFiles, Ended, Untouched, Verbs
<1>2. ASSUME OpenInput PROVE CliInv'
  <2>1. pc \in Untouched
    BY <1>2 DEF OpenInput, Untouched
  <2>2. ASSUME Exit("open") PROVE CliInv'
    BY <1>2, <2>1, <2>2, EndsUntouched DEF OpenInput
  <2>3. ASSUME Goto(FirstStep, Parse(fs[cmd.in])) PROVE CliInv'
    <3>1. FirstStep \in Untouched /\ (FirstStep = "create" => cmd.verb = "rewrite")
      BY DEF FirstStep, CliInv, Verbs, Untouched
    <3> QED
      BY <1>2, <2>1, <2>3, <3>1, MovesOn DEF OpenInput, Goto
  <2> QED
    BY <1>2, <2>2, <2>3 DEF OpenInput
<1>3. ASSUME Create PROVE CliInv'
  <2>1. pc \in Untouched
    BY <1>3 DEF Create, Untouched
  <2>2. ASSUME UNCHANGED fs, Exit("create") PROVE CliInv'
    BY <2>1, <2>2, EndsUntouched
  <2>3. ASSUME Goto("encode", mem) PROVE CliInv'
    BY <1>3, <2>3
    DEF Create, Goto, CliInv, RefusalLeavesFiles, Ended, Untouched, Verbs
  <2> QED
    BY <1>3, <2>2, <2>3 DEF Create
<1>4. ASSUME EncodeAndCopy PROVE CliInv'
  <2>1. cmd.verb = "rewrite"
    BY <1>4 DEF EncodeAndCopy, CliInv
  <2>2. \E e \in {"ok", "write", "serialize"} : Exit(e)
    BY <1>4 DEF EncodeAndCopy
  <2> QED
    BY <2>1, <2>2, EndsLater
<1>5. ASSUME SetDescription PROVE CliInv'
  <2>1. pc \in Untouched /\ UNCHANGED fs
    BY <1>5 DEF SetDescription, Untouched
  <2>2. Exit("edit") \/ \E f : Goto("rename", f)
    BY <1>5 DEF SetDescription, Edit
  <2>3. ASSUME NEW f, Goto("rename", f) PROVE CliInv'
    BY <2>1, <2>3, MovesOn DEF Goto, Untouched
  <2> QED
    BY <2>1, <2>2, <2>3, EndsUntouched
<1>6. ASSUME SetName PROVE CliInv'
  <2>1. pc \in Untouched /\ UNCHANGED fs
    BY <1>6 DEF SetName, Untouched
  <2>2. Exit("edit") \/ \E f : Goto("save", f)
    BY <1>6 DEF SetName, Edit
  <2>3. ASSUME NEW f, Goto("save", f) PROVE CliInv'
    BY <2>1, <2>3, MovesOn DEF Goto, Untouched
  <2> QED
    BY <2>1, <2>2, <2>3, EndsUntouched
<1>7. ASSUME Mend PROVE CliInv'
  <2>1. pc \in Untouched /\ UNCHANGED fs
    BY <1>7 DEF Mend, Untouched
  <2>2. Exit("unrepairable") \/ \E f : Goto("save", f)
    BY <1>7 DEF Mend
  <2>3. ASSUME NEW f, Goto("save", f) PROVE CliInv'
    BY <2>1, <2>3, MovesOn DEF Goto, Untouched
  <2> QED
    BY <2>1, <2>2, <2>3, EndsUntouched
<1>8. ASSUME Save PROVE CliInv'
  <2>1. pc \in Untouched
    BY <1>8 DEF Save, Untouched
  <2>2. ASSUME UNCHANGED fs, NEW e \in {"serialize", "write"}, Exit(e) PROVE CliInv'
    BY <2>1, <2>2, EndsUntouched
  <2>3. ASSUME Goto("fill", mem) PROVE CliInv'
    BY <2>3 DEF Goto, CliInv, RefusalLeavesFiles, Ended, Untouched, Verbs
  <2> QED
    BY <1>8, <2>2, <2>3 DEF Save, SaveRefused
<1>9. ASSUME WriteOutput PROVE CliInv'
  <2>1. ASSUME Goto("check", mem) PROVE CliInv'
    BY <2>1 DEF Goto, CliInv, RefusalLeavesFiles, Ended, Untouched, Verbs
  <2> QED
    BY <1>9, <2>1, EndsLater DEF WriteOutput
<1>10. ASSUME PostWriteValidate PROVE CliInv'
  <2>1. Exit("validate") \/ Exit("ok")
    BY <1>10 DEF PostWriteValidate
  <2> QED
    BY <2>1, EndsLater
<1>11. ASSUME Crash PROVE CliInv'
  BY <1>11, EndsLater DEF Crash
<1>12. ASSUME UNCHANGED vars PROVE CliInv'
  BY <1>12 DEF vars, CliInv, RefusalLeavesFiles, Ended
<1> QED
  BY <1>1, <1>2, <1>3, <1>4, <1>5, <1>6, <1>7, <1>8, <1>9, <1>10, <1>11, <1>12
  DEF Next, Step

\* What set-meta and repair refuse, at whatever step, leaves every file as it
\* was, their output included when it is their input.
THEOREM RefusalTouchesNothing == Spec => []RefusalLeavesFiles
<1>1. CliInv => RefusalLeavesFiles
  BY DEF CliInv
<1> QED
  BY InitInv, StepInv, <1>1, PTL DEF Spec

-----------------------------------------------------------------------------
(***************************************************************************)
(* What a command holds in memory, step by step.                           *)
(***************************************************************************)

Sound(f) == IsFile(f) /\ SpareIsFree(f) /\ TableRules(f)

Input == before[cmd.in]
Source == Parse(Input)
Opened == Input \notin {Absent, Torn} /\ IsImage(Input) /\ ~Unreadable(Input)

\* g is f with the description of the command: names are where they were.
Described(f, g) ==
  /\ g.hdr = f.hdr /\ g.names = f.names
  /\ \A s \in DOMAIN f.sec :
       /\ s \in DOMAIN g.sec
       /\ g.sec[s].type = f.sec[s].type /\ g.sec[s].index = f.sec[s].index
       /\ g.sec[s].name = f.sec[s].name /\ g.sec[s].nameOff = f.sec[s].nameOff
       /\ \/ g.sec[s].payload = f.sec[s].payload
          \/ f.sec[s].type = "STRG" /\ cmd.descs # {}
  /\ \A s \in DOMAIN g.sec \ DOMAIN f.sec : cmd.descs # {} /\ g.sec[s].type = "STRG"
  /\ \A d \in cmd.descs :
       \E s \in OfType(g, "STRG") : g.sec[s].payload = Encode(d)

\* The verbs that get to a step.
VerbFits ==
  /\ pc \in {"create", "encode"} => cmd.verb = "rewrite"
  /\ pc \in {"describe", "rename"} => cmd.verb = "set-meta"
  /\ pc = "mend" => cmd.verb = "repair"
  /\ pc \in {"save", "fill", "check"} => cmd.verb \in {"set-meta", "repair"}

\* The file in memory carries the edits made so far, and one that repair goes
\* on with is the file it has read: what repair takes on is mended by writing.
MemoryFits ==
  /\ pc \notin {"open", "exited"} => Opened
  /\ pc \in {"create", "encode", "describe", "mend"} => mem = Source
  /\ pc = "rename" => Sound(mem) /\ Described(Source, mem)
  /\ pc \in {"save", "fill", "check"} =>
       /\ Sound(mem) /\ Carries(Source, mem)
       /\ cmd.verb = "repair" => mem = Source /\ ~RepairRefuses(mem)
  /\ pc \in {"fill", "check"} => ~SerializeFails(mem)

OutputFits ==
  /\ pc \in Untouched => fs = before
  /\ pc = "encode" => fs[cmd.out] = Torn
  /\ pc = "check" => fs[cmd.out] = Serialize(mem)

FilesFit == cmd \in Commands /\ IsDirectory(fs) /\ IsDirectory(before)

CommandInv ==
  /\ FilesFit /\ VerbFits /\ MemoryFits /\ OutputFits
  /\ SuccessIsFaithful /\ RepairMendsWhatItCan

-----------------------------------------------------------------------------
(***************************************************************************)
(* Images, and what is carried from one file to another.                   *)
(***************************************************************************)

LEMMA ImagesAreFiles ==
  ASSUME NEW img, IsImage(img)
  PROVE  img \notin {Absent, Torn}
<1>1. img.hdr \in Nat BY DEF IsImage
<1>2. Absent.hdr = -1 /\ Torn.hdr = -2 BY DEF Absent, Torn
<1> QED BY <1>1, <1>2

LEMMA FilledDirectory ==
  ASSUME NEW F, IsDirectory(F), NEW p \in Paths, NEW x,
         x = Torn \/ (IsImage(x) /\ SpareIsFree(x))
  PROVE  IsDirectory([F EXCEPT ![p] = x]) /\ [F EXCEPT ![p] = x][p] = x
<1> DEFINE G == [F EXCEPT ![p] = x]
<1>1. F = [q \in Paths |-> F[q]] BY DEF IsDirectory
<1>2. G = [q \in Paths |-> IF q = p THEN x ELSE F[q]] BY <1>1
<1> HIDE DEF G
<1>3. IsDirectory(G) /\ G[p] = x BY <1>2 DEF IsDirectory
<1> QED BY <1>3 DEF G

LEMMA SourceIsSound ==
  ASSUME FilesFit, Opened
  PROVE  Sound(Source) /\ Fits(Source)
<1>1. cmd.in \in Paths BY CommandsAssumption DEF FilesFit
<1>2. IsImage(Input) /\ ~Unreadable(Input) /\ SpareIsFree(Input)
  BY <1>1 DEF FilesFit, IsDirectory, Opened, Input
<1> QED BY <1>2, ParseType, ParseKeepsSpare, ParsedTableRules, ParsedFits DEF Source, Sound

\* Without edits, a file carries what it was.
LEMMA CarriesItself ==
  ASSUME NEW f, cmd.descs = {}, cmd.names = {}
  PROVE  Carries(f, f)
BY DEF Carries, Kept

\* What is carried is what a caller sees.
LEMMA CarriesOver ==
  ASSUME NEW f, NEW g, NEW h, Carries(f, g), Contents(h) = Contents(g)
  PROVE  Carries(f, h)
<1>1. /\ h.hdr = g.hdr /\ DOMAIN h.sec = DOMAIN g.sec
      /\ \A s \in DOMAIN h.sec :
           /\ h.sec[s].type = g.sec[s].type /\ h.sec[s].index = g.sec[s].index
           /\ ResolvedName(h, s) = ResolvedName(g, s)
           /\ h.sec[s].payload = g.sec[s].payload
  BY SameContents
<1>2. \A t : OfType(h, t) = OfType(g, t) BY <1>1 DEF OfType
<1>3. \A s \in DOMAIN f.sec : Kept(f, h, s) BY <1>1 DEF Carries, Kept
<1>4. \A d \in cmd.descs : \E s \in OfType(h, "STRG") : h.sec[s].payload = Encode(d)
  BY <1>1, <1>2 DEF Carries, OfType
<1>5. \A n \in cmd.names : \A s \in OfType(h, "LVSR") : ResolvedName(h, s) = n
  BY <1>1, <1>2 DEF Carries, OfType
<1> QED BY <1>1, <1>3, <1>4, <1>5 DEF Carries

\* What either writer makes of a file that can be written.
LEMMA WritersDeliver ==
  ASSUME NEW f, Sound(f), NEW img,
         \/ ~SerializeFails(f) /\ img = Serialize(f)
         \/ ~SerializeCanonicalFails(f) /\ img = SerializeCanonical(f)
  PROVE  /\ IsImage(img) /\ SpareIsFree(img)
         /\ ~StrictIssue(img)
         /\ Unreadable(img) <=> ~Fits(f)
         /\ Contents(Parse(img)) = Contents(f)
         /\ ErrorCodes(Parse(img)) \subseteq {"block.type.non_printable"}
         /\ "block.type.non_printable" \in ErrorCodes(Parse(img)) <=> HasUnprintable(f)
<1>1. IsFile(f) /\ TableRules(f) /\ SpareIsFree(f) BY DEF Sound
<1>2. Nameless(f) = {} BY <1>1, FailsAlike
<1>3. UsedOffsets(f.sec) \subseteq DOMAIN f.names BY <1>1, <1>2, NamesComplete
<1>4. IsImage(img) /\ SpareIsFree(img) BY <1>1, SerializeType, EmitKeepsSpare
<1>5. PICK blocks, values, place :
        /\ IsPlan(f, blocks, values, place) /\ KeepsNames(f, values)
        /\ img = Emit(f, blocks, values, place)
  <2>1. CASE img = Serialize(f)
    BY <1>1, <1>2, <1>3, <2>1, PreservingPlan DEF Serialize, KeepsNames
  <2>2. CASE img = SerializeCanonical(f)
    BY <1>1, <1>2, <2>2, CanonicalPlan DEF SerializeCanonical, KeepsNames
  <2> QED BY <2>1, <2>2
<1>6. /\ ~StrictIssue(img)
      /\ Unreadable(img) <=> ~Fits(f)
      /\ Contents(Parse(img)) = Contents(f)
  BY <1>1, <1>2, <1>5, PlanKeepsContents
<1>7. /\ ErrorCodes(Parse(img)) \subseteq {"block.type.non_printable"}
      /\ "block.type.non_printable" \in ErrorCodes(Parse(img)) <=> HasUnprintable(f)
  BY <1>1, <1>5, PlanValidates DEF HasUnprintable
<1> QED BY <1>4, <1>6, <1>7

\* A dangling name cannot be found again, so repair gives it up.
LEMMA DanglingIsLost ==
  ASSUME NEW f, TableRules(f)
  PROVE  /\ DanglingName(f) => RebuildFails(f)
         /\ ~DanglingName(f) => Nameless(f) = {}
BY DEF DanglingName, DanglingSections, RebuildFails, TableRules, ResolvedName, Nameless, Named

\* What repair goes on with: it is written without being touched in memory, it
\* can be written, and the validator finds nothing in what is written.
LEMMA RepairGoesOn ==
  ASSUME NEW f, Sound(f), ~RepairRefuses(f)
  PROVE  /\ Repaired(f) = f
         /\ ~SerializeFails(f) /\ ~HasUnprintable(f)
         /\ ErrorCodes(f) # {}
         /\ ErrorCodes(f) \subseteq {"header.mismatch", "section.payload.overlap"}
<1>1. /\ ErrorCodes(f) # {} /\ ErrorCodes(f) \subseteq Repairable
      /\ "section.name_offset.invalid" \in ErrorCodes(f) => ~RebuildFails(f)
  BY DEF RepairRefuses
<1>2. "section.name_offset.invalid" \in ErrorCodes(f) <=> DanglingName(f)
  BY DEF ErrorCodes
<1>3. ~DanglingName(f) BY <1>1, <1>2, DanglingIsLost DEF Sound
<1>4. ~SerializeFails(f) BY <1>3, DanglingIsLost, FailsAlike DEF Sound
<1>5. ~HasUnprintable(f)
  <2>1. HasUnprintable(f) => "block.type.non_printable" \in ErrorCodes(f)
    BY DEF ErrorCodes, HasUnprintable
  <2> QED BY <1>1, <2>1 DEF Repairable
<1> QED BY <1>1, <1>2, <1>3, <1>4, <1>5 DEF Repaired, Repairable

-----------------------------------------------------------------------------
(***************************************************************************)
(* The edits of set-meta.                                                  *)
(***************************************************************************)

LEMMA NothingDescribed ==
  ASSUME NEW f, cmd.descs = {}
  PROVE  Described(f, f)
BY DEF Described

LEMMA DescriptionDescribes ==
  ASSUME NEW f, Sound(f), cmd \in Commands, NEW d \in cmd.descs
  PROVE  Sound(DescriptionEdited(f, d)) /\ Described(f, DescriptionEdited(f, d))
<1> DEFINE g == DescriptionEdited(f, d)
<1>1. d \in Description /\ \A e \in cmd.descs : e = d BY CommandsAssumption
<1>2. Sound(g)
  BY <1>1, DescriptionEditedType, DescriptionKeepsSpare, DescriptionRules DEF Sound
<1>3. g.hdr = f.hdr /\ g.names = f.names BY DescriptionShape DEF Sound
<1>4. PICK t \in DOMAIN g.sec :
        /\ DOMAIN g.sec = DOMAIN f.sec \cup {t}
        /\ g.sec[t].type = "STRG" /\ g.sec[t].payload = Encode(d)
        /\ t \in DOMAIN f.sec => /\ f.sec[t].type = "STRG"
                                 /\ g.sec[t].index = f.sec[t].index
                                 /\ g.sec[t].name = f.sec[t].name
                                 /\ g.sec[t].nameOff = f.sec[t].nameOff
        /\ \A s \in DOMAIN f.sec : s # t => g.sec[s] = f.sec[s]
  BY DescriptionShape DEF Sound
<1> HIDE DEF g
<1>5. t \in OfType(g, "STRG") BY <1>4 DEF OfType
<1>6. \A e \in cmd.descs : \E s \in OfType(g, "STRG") : g.sec[s].payload = Encode(e)
  BY <1>1, <1>4, <1>5
<1>7. \A s \in DOMAIN f.sec :
        /\ s \in DOMAIN g.sec
        /\ g.sec[s].type = f.sec[s].type /\ g.sec[s].index = f.sec[s].index
        /\ g.sec[s].name = f.sec[s].name /\ g.sec[s].nameOff = f.sec[s].nameOff
        /\ \/ g.sec[s].payload = f.sec[s].payload
           \/ f.sec[s].type = "STRG" /\ cmd.descs # {}
  BY <1>4
<1>8. \A s \in DOMAIN g.sec \ DOMAIN f.sec : cmd.descs # {} /\ g.sec[s].type = "STRG"
  BY <1>4
<1>9. Described(f, g) BY <1>3, <1>6, <1>7, <1>8 DEF Described
<1> QED BY <1>2, <1>9 DEF g

LEMMA NothingRenamed ==
  ASSUME NEW f, NEW g, Described(f, g), cmd.names = {}
  PROVE  Carries(f, g)
<1>1. \A s \in DOMAIN f.sec : ResolvedName(g, s) = ResolvedName(f, s)
  BY DEF Described, ResolvedName
<1>2. \A s \in DOMAIN f.sec : Kept(f, g, s) BY <1>1 DEF Described, Kept
<1> QED BY <1>2 DEF Described, Carries

\* The VI's name is the one asked for, found by the name and by its offset; the
\* names of the other sections stay where they are.
LEMMA RenameCarries ==
  ASSUME NEW img, NEW f, Sound(f), Described(Parse(img), f), cmd \in Commands,
         NEW n \in cmd.names, NameRefusal(f, n) = "none"
  PROVE  Sound(NameEdited(f, n)) /\ Carries(Parse(img), NameEdited(f, n))
<1> DEFINE g == NameEdited(f, n)
           t == Only(OfType(f, "LVSR"))
           p == Parse(img)
<1>1. n \in Seq(Byte) /\ \A m \in cmd.names : m = n BY CommandsAssumption
<1>2. Sound(g)
  BY <1>1, NameEditedType, RenameKeepsSpare, RenameRules DEF Sound
<1>3. /\ t \in DOMAIN f.sec /\ f.sec[t].type = "LVSR"
      /\ DOMAIN g.sec = DOMAIN f.sec /\ g.hdr = f.hdr
      /\ \A s \in DOMAIN f.sec : s # t => g.sec[s] = f.sec[s]
      /\ g.sec[t].name = n
      /\ g.sec[t].type = f.sec[t].type /\ g.sec[t].index = f.sec[t].index
      /\ g.sec[t].payload = f.sec[t].payload
      /\ \/ g = f
         \/ g.sec[t].nameOff \in DOMAIN g.names /\ g.names[g.sec[t].nameOff] = n
      /\ \A s \in DOMAIN f.sec :
           s # t /\ f.sec[s].nameOff \in DOMAIN f.names =>
             f.sec[s].nameOff \in DOMAIN g.names
             /\ g.names[f.sec[s].nameOff] = f.names[f.sec[s].nameOff]
  BY <1>1, RenameShape DEF Sound
<1>4. OfType(f, "LVSR") = {t}
  <2>1. ~(Cardinality(OfType(f, "LVSR")) > 1) BY DEF NameRefusal, TargetRefusal
  <2>2. t \in OfType(f, "LVSR") BY <1>3 DEF OfType
  <2> HIDE DEF t
  <2> QED BY <2>1, <2>2, OneOfType DEF Sound
<1>5. ASSUME NEW s \in DOMAIN p.sec, p.sec[s].nameOff \in DOMAIN p.names
      PROVE  p.names[p.sec[s].nameOff] = p.sec[s].name
  BY <1>5, ParsedNames
<1> HIDE DEF g, t, p
<1>6. /\ p = Parse(img) /\ Described(p, f) BY DEF p
<1>7. NoNameOffset \notin DOMAIN g.names /\ NoNameOffset \notin DOMAIN f.names
  BY <1>2 DEF Sound, IsFile, IsMap, NoNameOffset
<1>8. ResolvedName(g, t) = n
  <2>1. CASE n # NoName BY <1>3, <2>1 DEF ResolvedName
  <2>2. CASE n = NoName /\ g = f
    <3>1. t \in DOMAIN p.sec BY <1>3, <1>6 DEF Described
    <3>2. /\ p.sec[t].name = NoName /\ p.sec[t].nameOff = f.sec[t].nameOff
          /\ p.names = f.names
      BY <1>3, <1>6, <2>2, <3>1 DEF Described
    <3> QED BY <1>3, <1>5, <2>2, <3>1, <3>2 DEF ResolvedName
  <2>3. CASE n = NoName /\ g # f BY <1>3, <2>3 DEF ResolvedName
  <2> QED BY <2>1, <2>2, <2>3
<1>9. ASSUME NEW s \in DOMAIN p.sec PROVE Kept(p, g, s)
  <2>1. /\ s \in DOMAIN f.sec /\ p.names = f.names
        /\ f.sec[s].type = p.sec[s].type /\ f.sec[s].index = p.sec[s].index
        /\ f.sec[s].name = p.sec[s].name /\ f.sec[s].nameOff = p.sec[s].nameOff
        /\ \/ f.sec[s].payload = p.sec[s].payload
           \/ p.sec[s].type = "STRG" /\ cmd.descs # {}
    BY <1>6 DEF Described
  <2>2. /\ s \in DOMAIN g.sec
        /\ g.sec[s].type = p.sec[s].type /\ g.sec[s].index = p.sec[s].index
        /\ \/ g.sec[s].payload = p.sec[s].payload
           \/ p.sec[s].type = "STRG" /\ cmd.descs # {}
    BY <1>3, <2>1
  <2>3. CASE s = t BY <1>3, <2>1, <2>2, <2>3 DEF Kept
  <2>4. CASE s # t
    <3>1. g.sec[s] = f.sec[s] BY <1>3, <2>1, <2>4
    <3>2. CASE f.sec[s].nameOff \in DOMAIN f.names
      <4>1. /\ f.sec[s].nameOff \in DOMAIN g.names
            /\ g.names[f.sec[s].nameOff] = f.names[f.sec[s].nameOff]
        BY <1>3, <2>1, <2>4, <3>2
      <4>2. ResolvedName(g, s) = ResolvedName(p, s)
        BY <2>1, <3>1, <3>2, <4>1 DEF ResolvedName
      <4> QED BY <2>2, <4>2 DEF Kept
    <3>3. CASE f.sec[s].nameOff \notin DOMAIN f.names /\ s \in Named(p)
      BY <2>1, <2>2, <3>3 DEF Kept
    <3>4. CASE s \notin Named(p)
      <4>1. f.sec[s].nameOff = NoNameOffset BY <2>1, <3>4 DEF Named
      <4>2. ResolvedName(g, s) = ResolvedName(p, s)
        BY <1>7, <2>1, <3>1, <4>1 DEF ResolvedName
      <4> QED BY <2>2, <4>2 DEF Kept
    <3> QED BY <3>2, <3>3, <3>4
  <2> QED BY <2>3, <2>4
<1>10. \A s \in DOMAIN g.sec : g.sec[s].type = f.sec[s].type /\ g.sec[s].payload = f.sec[s].payload
  BY <1>3
<1>11. \A k : OfType(g, k) = OfType(f, k) BY <1>3, <1>10 DEF OfType
<1>12. \A s \in DOMAIN g.sec \ DOMAIN p.sec : cmd.descs # {} /\ g.sec[s].type = "STRG"
  BY <1>3, <1>6, <1>10 DEF Described
<1>13. ASSUME NEW d \in cmd.descs
       PROVE  \E s \in OfType(g, "STRG") : g.sec[s].payload = Encode(d)
  <2>1. PICK s \in OfType(f, "STRG") : f.sec[s].payload = Encode(d)
    BY <1>6 DEF Described
  <2>2. s \in OfType(g, "STRG") /\ s \in DOMAIN g.sec BY <1>11 DEF OfType
  <2> QED BY <1>10, <2>1, <2>2
<1>14. \A m \in cmd.names : \A s \in OfType(g, "LVSR") : ResolvedName(g, s) = m
  BY <1>1, <1>4, <1>8, <1>11
<1>15. Carries(p, g)
  BY <1>3, <1>6, <1>9, <1>12, <1>13, <1>14 DEF Carries, Described
<1> QED BY <1>2, <1>15 DEF g, p

-----------------------------------------------------------------------------
(***************************************************************************)
(* The steps.                                                              *)
(***************************************************************************)

\* Within a command, nothing is said of how it ends.
LEMMA GoesOn ==
  ASSUME CommandInv, NEW step, NEW f, Goto(step, f), step # "exited",
         IsDirectory(fs'), VerbFits', MemoryFits', OutputFits'
  PROVE  CommandInv'
BY DEF CommandInv, FilesFit, Goto, SuccessIsFaithful, RepairMendsWhatItCan, Ended

\* At its end, nothing is said of the memory.
LEMMA Ends ==
  ASSUME CommandInv, NEW e, Exit(e), IsDirectory(fs'),
         SuccessIsFaithful', RepairMendsWhatItCan'
  PROVE  CommandInv'
BY DEF CommandInv, FilesFit, Exit, VerbFits, MemoryFits, OutputFits, Untouched

\* Most failures break no promise.
LEMMA Fails ==
  ASSUME CommandInv, NEW e, Exit(e), UNCHANGED fs, e # "ok",
         cmd.verb = "repair" => e \in {"open", "write", "crash"}
  PROVE  CommandInv'
<1>1. SuccessIsFaithful' /\ RepairMendsWhatItCan'
  BY DEF Exit, SuccessIsFaithful, RepairMendsWhatItCan, Ended
<1> QED BY <1>1, Ends DEF CommandInv, FilesFit

\* What the memory carries, as long as nothing changes.
LEMMA StaysCarried ==
  ASSUME cmd' = cmd, mem' = mem, Source' = Source
  PROVE  /\ Described(Source, mem) => Described(Source, mem)'
         /\ Carries(Source, mem) => Carries(Source, mem)'
<1>1. ASSUME Described(Source, mem) PROVE Described(Source, mem)'
  BY <1>1 DEF Described
<1>2. ASSUME Carries(Source, mem) PROVE Carries(Source, mem)'
  BY <1>2 DEF Carries, Kept
<1> QED BY <1>1, <1>2

LEMMA CommandInit == Init => CommandInv
BY InitFilesAssumption
   DEF Init, CommandInv, FilesFit, VerbFits, MemoryFits, OutputFits, Untouched,
       SuccessIsFaithful, RepairMendsWhatItCan, Ended

LEMMA StartStep ==
  ASSUME CommandInv, NEW c \in Commands, Start(c)
  PROVE  CommandInv'
BY DEF Start, CommandInv, FilesFit, VerbFits, MemoryFits, OutputFits, Untouched,
       SuccessIsFaithful, RepairMendsWhatItCan, Ended

LEMMA OpenStep ==
  ASSUME CommandInv, OpenInput
  PROVE  CommandInv'
<1> DEFINE strict == cmd.verb # "repair" /\ cmd.strict
<1>1. fs = before /\ pc = "open" /\ UNCHANGED fs
  BY DEF CommandInv, OutputFits, OpenInput, Untouched
<1>2. CASE Exit("open") BY <1>1, <1>2, Fails
<1>3. CASE ~OpenFails(cmd.in, strict) /\ Goto(FirstStep, Parse(fs[cmd.in]))
  <2>1. /\ cmd.in \in Paths /\ cmd.verb \in Verbs
        /\ IsDirectory(before)
    BY CommandsAssumption DEF CommandInv, FilesFit
  <2>2. Input \notin {Absent, Torn} /\ ~Unreadable(Input)
    BY <1>1, <1>3 DEF OpenFails, ParseFails, Input
  <2>3. Opened BY <2>1, <2>2 DEF Opened, IsDirectory, Input
  <2>4. Opened' /\ mem' = Source' /\ fs' = before' /\ pc' = FirstStep /\ cmd' = cmd
    BY <1>1, <1>3, <2>3 DEF Goto, Opened, Source, Input
  <2>5. /\ FirstStep \in {"create", "describe", "mend"}
        /\ FirstStep = "create" => cmd.verb = "rewrite"
        /\ FirstStep = "describe" => cmd.verb = "set-meta"
        /\ FirstStep = "mend" => cmd.verb = "repair"
    BY <2>1 DEF FirstStep, Verbs
  <2>6. VerbFits' /\ MemoryFits' /\ OutputFits'
    BY <2>4, <2>5 DEF VerbFits, MemoryFits, OutputFits
  <2>7. IsDirectory(fs') BY <1>1 DEF CommandInv, FilesFit
  <2> QED BY <1>3, <2>5, <2>6, <2>7, GoesOn
<1> QED BY <1>2, <1>3 DEF OpenInput

LEMMA CreateStep ==
  ASSUME CommandInv, Create
  PROVE  CommandInv'
<1>1. cmd.verb = "rewrite" /\ Opened /\ mem = Source
  BY DEF Create, CommandInv, VerbFits, MemoryFits
<1>2. CASE UNCHANGED fs /\ Exit("create") BY <1>1, <1>2, Fails
<1>3. CASE Fill(Torn) /\ Goto("encode", mem)
  <2>1. cmd.out \in Paths /\ IsDirectory(fs)
    BY CommandsAssumption DEF CommandInv, FilesFit
  <2>2. IsDirectory(fs') /\ fs'[cmd.out] = Torn
    BY <1>3, <2>1, FilledDirectory DEF Fill
  <2>3. Opened' /\ mem' = Source' /\ pc' = "encode" /\ cmd' = cmd
    BY <1>1, <1>3 DEF Goto, Opened, Source, Input
  <2>4. VerbFits' /\ MemoryFits' /\ OutputFits'
    BY <1>1, <2>2, <2>3 DEF VerbFits, MemoryFits, OutputFits, Untouched
  <2> QED BY <1>3, <2>2, <2>4, GoesOn
<1> QED BY <1>2, <1>3 DEF Create

LEMMA EncodeStep ==
  ASSUME CommandInv, EncodeAndCopy
  PROVE  CommandInv'
<1>1. /\ cmd.verb = "rewrite" /\ Opened /\ mem = Source /\ fs[cmd.out] = Torn
      /\ cmd \in Commands /\ cmd.out \in Paths /\ IsDirectory(fs) /\ FilesFit
  BY CommandsAssumption
  DEF EncodeAndCopy, CommandInv, VerbFits, MemoryFits, OutputFits, FilesFit
<1>2. cmd.descs = {} /\ cmd.names = {} BY <1>1, CommandsAssumption
<1>3. Sound(mem) /\ Fits(mem) BY <1>1, SourceIsSound
<1>4. CASE UNCHANGED fs /\ Exit("serialize") BY <1>1, <1>4, Fails
<1>5. CASE UNCHANGED fs /\ Exit("write") BY <1>1, <1>5, Fails
<1>6. CASE UNCHANGED fs /\ Exit("ok")
  <2>1. SuccessIsFaithful'
    BY <1>1, <1>6 DEF Exit, SuccessIsFaithful, Delivered, OpenFails
  <2>2. RepairMendsWhatItCan' BY <1>1, <1>6 DEF Exit, RepairMendsWhatItCan, Ended
  <2> QED BY <1>1, <1>6, <2>1, <2>2, Ends
<1>7. CASE ~EncodeFails /\ Fill(Encoded) /\ Exit("ok")
  <2> DEFINE img == Encoded
  <2>1. \/ ~SerializeFails(mem) /\ img = Serialize(mem)
        \/ ~SerializeCanonicalFails(mem) /\ img = SerializeCanonical(mem)
    BY <1>7 DEF EncodeFails, Encoded
  <2>2. /\ IsImage(img) /\ SpareIsFree(img) /\ ~StrictIssue(img) /\ ~Unreadable(img)
        /\ Contents(Parse(img)) = Contents(mem)
    BY <1>3, <2>1, WritersDeliver
  <2>3. fs' = [fs EXCEPT ![cmd.out] = img] BY <1>7 DEF Fill
  <2> HIDE DEF img
  <2>4. IsDirectory(fs') /\ fs'[cmd.out] = img
    <3>1. /\ IsDirectory([fs EXCEPT ![cmd.out] = img])
          /\ [fs EXCEPT ![cmd.out] = img][cmd.out] = img
      BY <1>1, <2>2, FilledDirectory
    <3> QED BY <2>3, <3>1
  <2>5. Carries(Source, Parse(img))
    BY <1>1, <1>2, <2>2, CarriesItself, CarriesOver
  <2>6. ~OpenFails(cmd.out, TRUE)'
    BY <1>7, <2>2, <2>4, ImagesAreFiles DEF OpenFails, ParseFails, Exit
  <2>7. Carries(Parse(before[cmd.in]), Parse(fs[cmd.out]))'
    BY <1>7, <2>4, <2>5 DEF Exit, Carries, Kept, Source, Input
  <2>8. SuccessIsFaithful' BY <2>6, <2>7 DEF SuccessIsFaithful, Delivered
  <2>9. RepairMendsWhatItCan' BY <1>1, <1>7 DEF Exit, RepairMendsWhatItCan, Ended
  <2> QED BY <1>7, <2>4, <2>8, <2>9, Ends
<1> QED BY <1>4, <1>5, <1>6, <1>7 DEF EncodeAndCopy

\* Steps between the memory and the first write of set-meta and repair.
LEMMA MemoryMoves ==
  ASSUME CommandInv, UNCHANGED fs, fs = before, NEW f, NEW step, Goto(step, f), Opened,
         \/ /\ step = "rename" /\ cmd.verb = "set-meta"
            /\ Sound(f) /\ Described(Source, f)
         \/ /\ step = "save" /\ cmd.verb \in {"set-meta", "repair"}
            /\ Sound(f) /\ Carries(Source, f)
            /\ cmd.verb = "repair" => f = Source /\ ~RepairRefuses(f)
  PROVE  CommandInv'
<1>1. /\ cmd' = cmd /\ before' = before /\ fs' = fs /\ mem' = f /\ pc' = step
      /\ Input' = Input /\ Source' = Source /\ Opened'
  BY DEF Goto, Opened, Source, Input
<1>2. /\ Described(Source, f) => Described(Source, mem)'
      /\ Carries(Source, f) => Carries(Source, mem)'
      /\ Sound(f) => Sound(mem)'
      /\ ~RepairRefuses(f) => ~RepairRefuses(mem)'
  BY <1>1 DEF Described, Carries, Kept, Sound
<1>3. VerbFits' /\ MemoryFits' /\ OutputFits'
  BY <1>1, <1>2 DEF VerbFits, MemoryFits, OutputFits
<1>4. IsDirectory(fs') BY <1>1 DEF CommandInv, FilesFit
<1> QED BY <1>3, <1>4, GoesOn

LEMMA DescribeStep ==
  ASSUME CommandInv, SetDescription
  PROVE  CommandInv'
<1>1. /\ cmd.verb = "set-meta" /\ Opened /\ mem = Source /\ fs = before
      /\ cmd \in Commands /\ FilesFit /\ UNCHANGED fs
  BY DEF SetDescription, CommandInv, VerbFits, MemoryFits, OutputFits, FilesFit, Untouched
<1>2. Sound(mem) BY <1>1, SourceIsSound
<1>3. CASE cmd.descs = {} /\ Goto("rename", mem)
  BY <1>1, <1>2, <1>3, NothingDescribed, MemoryMoves
<1>4. CASE Exit("edit") BY <1>1, <1>4, Fails
<1>5. ASSUME NEW d \in cmd.descs, Goto("rename", DescriptionEdited(mem, d))
      PROVE  CommandInv'
  <2>1. /\ Sound(DescriptionEdited(mem, d))
        /\ Described(Source, DescriptionEdited(mem, d))
    BY <1>1, <1>2, DescriptionDescribes
  <2> QED BY <1>1, <1>5, <2>1, MemoryMoves
<1> QED BY <1>3, <1>4, <1>5 DEF SetDescription, Edit

LEMMA RenameStep ==
  ASSUME CommandInv, SetName
  PROVE  CommandInv'
<1>1. /\ cmd.verb = "set-meta" /\ Opened /\ fs = before
      /\ Sound(mem) /\ Described(Source, mem)
      /\ cmd \in Commands /\ UNCHANGED fs
  BY DEF SetName, CommandInv, VerbFits, MemoryFits, OutputFits, FilesFit, Untouched
<1>2. CASE cmd.names = {} /\ Goto("save", mem)
  BY <1>1, <1>2, NothingRenamed, MemoryMoves
<1>3. CASE Exit("edit") BY <1>1, <1>3, Fails
<1>4. ASSUME NEW n \in cmd.names, NameRefusal(mem, n) = "none",
             Goto("save", NameEdited(mem, n))
      PROVE  CommandInv'
  <2>1. Sound(NameEdited(mem, n)) /\ Carries(Source, NameEdited(mem, n))
    BY <1>1, <1>4, RenameCarries DEF Source
  <2> QED BY <1>1, <1>4, <2>1, MemoryMoves
<1> QED BY <1>2, <1>3, <1>4 DEF SetName, Edit

\* What repair refuses is no damage, or damage of which a part stays.
LEMMA MendStep ==
  ASSUME CommandInv, Mend
  PROVE  CommandInv'
<1>1. /\ cmd.verb = "repair" /\ Opened /\ mem = Source /\ fs = before
      /\ cmd \in Commands /\ FilesFit /\ UNCHANGED fs
  BY DEF Mend, CommandInv, VerbFits, MemoryFits, OutputFits, FilesFit, Untouched
<1>2. Sound(mem) BY <1>1, SourceIsSound
<1>3. CASE RepairRefuses(mem) /\ Exit("unrepairable")
  <2>1. ~ /\ ErrorCodes(Source) # {}
          /\ ErrorCodes(Source) \subseteq {"header.mismatch", "section.payload.overlap"}
    BY <1>1, <1>3 DEF RepairRefuses, Repairable
  <2>2. Damage(cmd.in)' = ErrorCodes(Source)
    BY <1>3 DEF Exit, Damage, Source, Input
  <2>3. SuccessIsFaithful' BY <1>3 DEF Exit, SuccessIsFaithful
  <2>4. exit' # "ok" BY <1>3 DEF Exit
  <2>5. RepairMendsWhatItCan' BY <2>1, <2>2, <2>4 DEF RepairMendsWhatItCan
  <2> QED BY <1>1, <1>3, <2>3, <2>5, Ends DEF FilesFit
<1>4. CASE ~RepairRefuses(mem) /\ Goto("save", Repaired(mem))
  <2>1. Repaired(mem) = mem BY <1>2, <1>4, RepairGoesOn
  <2>2. cmd.descs = {} /\ cmd.names = {} BY <1>1, CommandsAssumption
  <2>3. Carries(Source, mem) BY <1>1, <2>2, CarriesItself
  <2> QED BY <1>1, <1>2, <1>4, <2>1, <2>3, MemoryMoves
<1> QED BY <1>3, <1>4 DEF Mend

LEMMA SaveStep ==
  ASSUME CommandInv, Save
  PROVE  CommandInv'
<1>1. /\ cmd.verb \in {"set-meta", "repair"} /\ Opened
      /\ Sound(mem) /\ Carries(Source, mem)
      /\ cmd.verb = "repair" => mem = Source /\ ~RepairRefuses(mem)
      /\ cmd.out \in Paths /\ IsDirectory(fs)
  BY CommandsAssumption
  DEF Save, CommandInv, VerbFits, MemoryFits, FilesFit
<1>2. CASE SaveRefused
  <2>1. cmd.verb # "repair" BY <1>1, <1>2, RepairGoesOn DEF SaveRefused
  <2> QED BY <1>2, <2>1, Fails DEF SaveRefused
<1>3. CASE UNCHANGED fs /\ Exit("write") BY <1>3, Fails
<1>4. CASE ~SerializeFails(mem) /\ Fill(Torn) /\ Goto("fill", mem)
  <2>1. IsDirectory(fs') BY <1>1, <1>4, FilledDirectory DEF Fill
  <2>2. /\ cmd' = cmd /\ mem' = mem /\ pc' = "fill"
        /\ Opened' /\ Source' = Source
    BY <1>1, <1>4 DEF Goto, Opened, Source, Input
  <2>3. /\ Carries(Source, mem)' /\ Sound(mem)' /\ ~SerializeFails(mem)'
        /\ RepairRefuses(mem)' <=> RepairRefuses(mem)
    BY <1>1, <1>4, <2>2 DEF Carries, Kept, Sound
  <2>4. VerbFits' /\ MemoryFits' /\ OutputFits'
    BY <1>1, <2>2, <2>3 DEF VerbFits, MemoryFits, OutputFits, Untouched
  <2> QED BY <1>4, <2>1, <2>4, GoesOn
<1> QED BY <1>2, <1>3, <1>4 DEF Save

LEMMA WriteStep ==
  ASSUME CommandInv, WriteOutput
  PROVE  CommandInv'
<1>1. /\ cmd.verb \in {"set-meta", "repair"} /\ Opened
      /\ Sound(mem) /\ Carries(Source, mem) /\ ~SerializeFails(mem)
      /\ cmd.verb = "repair" => mem = Source /\ ~RepairRefuses(mem)
      /\ cmd.out \in Paths /\ IsDirectory(fs)
  BY CommandsAssumption
  DEF WriteOutput, CommandInv, VerbFits, MemoryFits, FilesFit
<1>2. CASE UNCHANGED fs /\ Exit("write") BY <1>2, Fails
<1>3. CASE Fill(Serialize(mem)) /\ Goto("check", mem)
  <2> DEFINE img == Serialize(mem)
  <2>1. IsImage(img) /\ SpareIsFree(img) BY <1>1, WritersDeliver
  <2>2. fs' = [fs EXCEPT ![cmd.out] = img] BY <1>3 DEF Fill
  <2>3. /\ cmd' = cmd /\ mem' = mem /\ pc' = "check"
        /\ Opened' /\ Source' = Source /\ img' = img
    BY <1>1, <1>3 DEF Goto, Opened, Source, Input
  <2> HIDE DEF img
  <2>4. IsDirectory(fs') /\ fs'[cmd.out] = img
    <3>1. /\ IsDirectory([fs EXCEPT ![cmd.out] = img])
          /\ [fs EXCEPT ![cmd.out] = img][cmd.out] = img
      BY <1>1, <2>1, FilledDirectory
    <3> QED BY <2>2, <3>1
  <2>5. /\ Carries(Source, mem)' /\ Sound(mem)' /\ ~SerializeFails(mem)'
        /\ RepairRefuses(mem)' <=> RepairRefuses(mem)
    BY <1>1, <2>3 DEF Carries, Kept, Sound
  <2>6. (fs[cmd.out] = Serialize(mem))' BY <2>3, <2>4 DEF img
  <2>7. VerbFits' /\ MemoryFits' /\ OutputFits'
    BY <1>1, <2>3, <2>5, <2>6 DEF VerbFits, MemoryFits, OutputFits, Untouched
  <2> QED BY <1>3, <2>4, <2>7, GoesOn
<1> QED BY <1>2, <1>3 DEF WriteOutput

\* The output repair has written opens and validates.
LEMMA CheckStep ==
  ASSUME CommandInv, PostWriteValidate
  PROVE  CommandInv'
<1> DEFINE img == fs[cmd.out]
           strict == cmd.verb = "repair" \/ cmd.strict
           bad == ~OpenFails(cmd.out, strict) => ErrorCodes(Parse(img)) # {}
<1>1. /\ cmd.verb \in {"set-meta", "repair"} /\ Opened
      /\ Sound(mem) /\ Carries(Source, mem) /\ ~SerializeFails(mem)
      /\ cmd.verb = "repair" => mem = Source /\ ~RepairRefuses(mem)
      /\ img = Serialize(mem)
      /\ FilesFit /\ UNCHANGED fs
  BY DEF PostWriteValidate, CommandInv, VerbFits, MemoryFits, OutputFits
<1>2. /\ IsImage(img) /\ ~StrictIssue(img)
      /\ Unreadable(img) <=> ~Fits(mem)
      /\ Contents(Parse(img)) = Contents(mem)
      /\ ErrorCodes(Parse(img)) \subseteq {"block.type.non_printable"}
      /\ "block.type.non_printable" \in ErrorCodes(Parse(img)) <=> HasUnprintable(mem)
  BY <1>1, WritersDeliver
<1>3. OpenFails(cmd.out, TRUE) <=> Unreadable(img)
  BY <1>2, ImagesAreFiles DEF OpenFails, ParseFails
<1>4. OpenFails(cmd.out, strict) <=> Unreadable(img)
  BY <1>2, ImagesAreFiles DEF OpenFails, ParseFails
<1>5. ASSUME cmd.verb = "repair"
      PROVE  /\ ~bad
             /\ ErrorCodes(Source) # {}
             /\ ErrorCodes(Source) \subseteq {"header.mismatch", "section.payload.overlap"}
  <2>1. Fits(mem) BY <1>1, <1>5, SourceIsSound
  <2>2. ~HasUnprintable(mem) /\ ErrorCodes(Source) # {}
        /\ ErrorCodes(Source) \subseteq {"header.mismatch", "section.payload.overlap"}
    BY <1>1, <1>5, RepairGoesOn
  <2>3. ErrorCodes(Parse(img)) = {} BY <1>2, <2>2
  <2> QED BY <1>2, <1>4, <2>1, <2>2, <2>3
<1>6. Carries(Source, Parse(img)) BY <1>1, <1>2, CarriesOver
<1>7. CASE bad /\ Exit("validate")
  <2>1. cmd.verb # "repair" BY <1>5, <1>7
  <2> QED BY <1>1, <1>7, <2>1, Fails
<1>8. CASE ~bad /\ Exit("ok")
  <2>1. ~OpenFails(cmd.out, TRUE) BY <1>3, <1>4, <1>8
  <2>2. ~OpenFails(cmd.out, TRUE)' BY <1>1, <1>8, <2>1 DEF Exit, OpenFails
  <2>3. Carries(Parse(before[cmd.in]), Parse(fs[cmd.out]))'
    BY <1>1, <1>6, <1>8 DEF Exit, Carries, Kept, Source, Input
  <2>4. SuccessIsFaithful' BY <2>2, <2>3 DEF SuccessIsFaithful, Delivered
  <2>5. /\ Damage(cmd.in)' = ErrorCodes(Source) /\ cmd' = cmd /\ exit' = "ok"
    BY <1>8 DEF Exit, Damage, Source, Input
  <2>6. RepairMendsWhatItCan' BY <1>5, <2>5 DEF RepairMendsWhatItCan, Ended
  <2> QED BY <1>1, <1>8, <2>4, <2>6, Ends DEF FilesFit
<1> QED BY <1>7, <1>8 DEF PostWriteValidate

LEMMA CommandStep == CommandInv /\ [Next]_vars => CommandInv'
<1> SUFFICES ASSUME CommandInv, [Next]_vars PROVE CommandInv'
  OBVIOUS
<1>1. CASE Crash BY <1>1, Fails DEF Crash
<1>2. CASE UNCHANGED vars
  <2>1. /\ fs' = fs /\ cmd' = cmd /\ pc' = pc /\ mem' = mem /\ exit' = exit
        /\ before' = before
    BY <1>2 DEF vars
  <2>2. Input' = Input /\ Source' = Source /\ (Opened' <=> Opened)
    BY <2>1 DEF Opened, Source, Input
  <2>3. /\ Sound(mem)' <=> Sound(mem)
        /\ RepairRefuses(mem)' <=> RepairRefuses(mem)
        /\ SerializeFails(mem)' <=> SerializeFails(mem)
        /\ Described(Source, mem) => Described(Source, mem)'
        /\ Carries(Source, mem) => Carries(Source, mem)'
    <3>1. Sound(mem)' <=> Sound(mem) BY <2>1
    <3>2. RepairRefuses(mem)' <=> RepairRefuses(mem) BY <2>1
    <3>3. SerializeFails(mem)' <=> SerializeFails(mem) BY <2>1
    <3>4. Described(Source, mem) => Described(Source, mem)' BY <2>1, <2>2, StaysCarried
    <3>5. Carries(Source, mem) => Carries(Source, mem)' BY <2>1, <2>2, StaysCarried
    <3> QED BY <3>1, <3>2, <3>3, <3>4, <3>5
  <2>4. FilesFit' /\ VerbFits' /\ MemoryFits' /\ OutputFits'
    BY <2>1, <2>2, <2>3
    DEF CommandInv, FilesFit, VerbFits, MemoryFits, OutputFits
  <2>5. SuccessIsFaithful'
    BY <2>1
    DEF CommandInv, SuccessIsFaithful, Ended, Delivered, OpenFails, Carries, Kept
  <2>6. RepairMendsWhatItCan'
    BY <2>1 DEF CommandInv, RepairMendsWhatItCan, Ended, Damage
  <2> QED BY <2>4, <2>5, <2>6 DEF CommandInv
<1> QED
  BY <1>1, <1>2, StartStep, OpenStep, CreateStep, EncodeStep, DescribeStep, RenameStep,
     MendStep, SaveStep, WriteStep, CheckStep DEF Next, Step

\* A command that exits with 0 has left, at its output, its input with the
\* edits asked for and nothing else changed, and a strict parser reads it;
\* only rewrite may have lost its output on closing it.
THEOREM SuccessDelivers == Spec => []SuccessIsFaithful
<1>1. CommandInv => SuccessIsFaithful BY DEF CommandInv
<1> QED BY CommandInit, CommandStep, <1>1, PTL DEF Spec

\* Repair succeeds exactly on the files whose only damage is in the second
\* header or in overlapping payloads: what it takes on it always mends.
THEOREM RepairIsExact == Spec => []RepairMendsWhatItCan
<1>1. CommandInv => RepairMendsWhatItCan BY DEF CommandInv
<1> QED BY CommandInit, CommandStep, <1>1, PTL DEF Spec

=============================================================================
